------------------------------- MODULE Driver -------------------------------
(***************************************************************************)
(* The compiler driver: one run of pathcc over a command line.  Each       *)
(* source file goes through its phases, one child process after another,   *)
(* which hand their results over in temporary files; then the objects are  *)
(* linked.  Children fail with any status, die, run out of their limits    *)
(* and are tried again, and a signal may stop the driver at any point.     *)
(* Names of temporary files are <<suffix, source>>: the random part that   *)
(* create_temp_file_name appends is new for each source.                   *)
(***************************************************************************)
EXTENDS Naturals, Sequences, FiniteSets

CONSTANT CommandLines   \* what the driver may be asked to do

(***************************************************************************)
(* A command line: the kinds of its sources, the sources that are missing, *)
(* the last phase (-S, -c or a link), -INLINE, -listing, and whether the   *)
(* source is read from standard input.                                     *)
(***************************************************************************)
Kinds == {"c", "f90", "s"}

ASSUME CommandLinesAssumption ==
  \A c \in CommandLines :
    /\ c.files \in Seq(Kinds) /\ Len(c.files) > 0
    /\ c.missing \in SUBSET Nat
    /\ c.last \in {"be", "as", "ld"}
    /\ c.inline \in {"undefined", "no", "yes"}
    /\ c.listing \in BOOLEAN
    /\ c.stdin \in BOOLEAN

VARIABLES
  cmd,              \* the command line
  pc,               \* where the driver is
  i,                \* source_file, by number
  order,            \* phase_order
  k,                \* the phase of order at work
  errors,           \* errors of the current compile
  previous_errors,
  error_status,
  run_inline,
  ran_twice,
  f90_fe_status,
  temp_files,       \* names to remove in cleanup
  temp_obj_files,   \* sources that have a temporary object
  disk,             \* files the driver or its children have made
  wrote,            \* for a file, the source it was last written for
  opened,           \* a file created and not yet put into temp_files
  tries,            \* children started for this phase of this source
  failed,           \* sources of which a child failed
  blamed,           \* sources in the compile of which an error was counted
  linked,           \* the objects of several sources are being linked
  ending            \* how the driver ended

errs == <<errors, previous_errors, error_status>>
files == <<temp_files, temp_obj_files, disk, wrote, opened>>
ghosts == <<failed, blamed>>
vars == <<cmd, pc, i, order, k, errs, run_inline, ran_twice, f90_fe_status,
          files, tries, ghosts, linked, ending>>

(* rcodes.h *)
RC_OKAY == 0
RC_INTERNAL_ERROR == 1
RC_USER_ERROR == 2
RC_NEED_INLINER == 16
RC_OVERFLOW_ERROR == 64
Statuses == {RC_OKAY, RC_INTERNAL_ERROR, RC_USER_ERROR, RC_NEED_INLINER,
             RC_OVERFLOW_ERROR}

N == Len(cmd.files)
Source == cmd.files[i]
Phase == order[k]
multiple_source_files == N > 1

(***************************************************************************)
(* The order of phases.                                                    *)
(***************************************************************************)
Phases == {"gcpp", "spin_cc1", "wgen", "f90_fe", "lister", "inline", "be", "gas", "ld"}

(* last_phase after main has put the link off to the end. *)
LastPhase == IF multiple_source_files /\ cmd.last = "ld" THEN "as" ELSE cmd.last

(* Which phase follows the front end: before it has run, whether the       *)
(* inliner could run; after it has run, whether it does.                   *)
PostFePhase(ri) ==
  IF ri # "undefined" THEN (IF ri = "yes" THEN "inline" ELSE "be")
                      ELSE (IF cmd.inline = "no" THEN "be" ELSE "inline")

FrontEnd(kind) ==
  CASE kind = "c"   -> <<"gcpp", "spin_cc1", "wgen">>
    [] kind = "f90" -> IF cmd.listing THEN <<"f90_fe", "lister">> ELSE <<"f90_fe">>
    [] kind = "s"   -> <<>>

Middle(kind, ri) ==
  IF kind = "s" THEN <<>>
                ELSE IF PostFePhase(ri) = "inline" THEN <<"inline", "be">> ELSE <<"be">>

BackEnd(last) ==
  CASE last = "be" -> <<>>
    [] last = "as" -> <<"gas">>
    [] last = "ld" -> <<"gas", "ld">>

PhaseOrder(kind, ri) == FrontEnd(kind) \o Middle(kind, ri) \o BackEnd(LastPhase)

(***************************************************************************)
(* Files.                                                                  *)
(***************************************************************************)
None == <<"none", 0>>
Object(n) == <<"o", n>>
CifFile(n) == <<"T", n>>
Suffixes == {"i", "spin", "B", "I", "s"}

(* The name that create_temp_file_name finds for a suffix, if there is one. *)
IsNamed(s) == \E f \in temp_files : f[1] = s
NameOf(s) == CHOOSE f \in temp_files : f[1] = s

(* The suffix of the file a phase reads, "" if it reads the source, the    *)
(* listing information or the objects.                                     *)
Input(p) ==
  CASE p = "spin_cc1" -> "i"
    [] p = "wgen"     -> "spin"
    [] p = "inline"   -> "B"
    [] p = "be"       -> IF PostFePhase(run_inline) = "inline" THEN "I" ELSE "B"
    [] p = "gas"      -> IF Source = "s" THEN "" ELSE "s"
    [] OTHER          -> ""

(* The suffix of the temporary file it writes; with -S the back end writes *)
(* a file of the user.                                                     *)
Output(p) ==
  CASE p = "gcpp"               -> "i"
    [] p = "spin_cc1"           -> "spin"
    [] p \in {"wgen", "f90_fe"} -> "B"
    [] p = "inline"             -> "I"
    [] p = "be"                 -> IF cmd.last = "be" THEN "" ELSE "s"
    [] OTHER                    -> ""

(* The temporary files that add_file_args still has to create. *)
Unnamed(p) == {s \in {Input(p), Output(p)} \cap Suffixes : ~ IsNamed(s)}

(* What a child that succeeds leaves in its output; with -c the assembler  *)
(* writes a file of the user.                                              *)
Written(p) ==
  {NameOf(s) : s \in {Output(p)} \cap Suffixes}
    \cup (IF p = "gas" /\ cmd.last = "ld" THEN {Object(i)} ELSE {})

(***************************************************************************)
(* Errors.                                                                 *)
(***************************************************************************)
HasErrors == errors > 0 \/ previous_errors > 0

SetErrorStatus(c) == IF error_status = RC_OKAY THEN c ELSE error_status

CountError(c) ==
  /\ errors' = errors + 1
  /\ error_status' = SetErrorStatus(c)
  /\ UNCHANGED previous_errors

(* Faults: the errors are kept; the status is cleared with the errors. *)
KeepCurrentErrors == UNCHANGED errs
ClearAllErrors ==
  /\ previous_errors' = errors
  /\ errors' = 0
  /\ error_status' = RC_OKAY

ClearCurrentErrors ==
  /\ previous_errors' = errors
  /\ errors' = 0
  /\ UNCHANGED error_status

(* The code that run_phase records for a phase that fails with status st. *)
FailureCode(p, st) ==
  IF st = RC_USER_ERROR
    THEN (IF p \in {"wgen", "spin_cc1"} THEN RC_INTERNAL_ERROR ELSE RC_USER_ERROR)
    ELSE st

(***************************************************************************)
(* The end of the driver.                                                  *)
(***************************************************************************)
(* Fault: the list is emptied and nothing is removed. *)
ForgetTempFiles ==
  /\ temp_files' = {}
  /\ UNCHANGED <<temp_obj_files, disk, wrote, opened>>

Cleanup ==
  /\ disk' = disk \ temp_files
  /\ temp_files' = {}
  /\ UNCHANGED <<temp_obj_files, wrote, opened>>

CleanupAll ==
  /\ disk' = (disk \ temp_files) \ {Object(n) : n \in temp_obj_files}
  /\ temp_files' = {}
  /\ UNCHANGED <<temp_obj_files, wrote, opened>>

DoExit(how) == pc' = "ended" /\ ending' = how

(***************************************************************************)
(* main.                                                                   *)
(***************************************************************************)
Init ==
  /\ cmd \in CommandLines
  /\ pc = "options" /\ i = 0 /\ order = <<>> /\ k = 1
  /\ errors = 0 /\ previous_errors = 0 /\ error_status = RC_OKAY
  /\ run_inline = "undefined" /\ ran_twice = FALSE /\ f90_fe_status = RC_OKAY
  /\ temp_files = {} /\ temp_obj_files = {} /\ disk = {}
  /\ wrote = [f \in (Suffixes \cup {"o"}) \X (1..N) |-> 0]
  /\ opened = None
  /\ tries = 0 /\ failed = {} /\ blamed = {} /\ linked = FALSE /\ ending = "none"

(* Reserving the place of an object creates it. *)
ReserveObjects ==
  /\ temp_obj_files' = 1..N
  /\ disk' = disk \cup {Object(n) : n \in 1..N}
  /\ UNCHANGED <<temp_files, wrote, opened>>

ParseArguments ==
  /\ pc = "options"
  /\ pc' = "next"
  /\ ReserveObjects
  /\ UNCHANGED <<cmd, i, order, k, errs, run_inline, ran_twice, f90_fe_status,
                 tries, ghosts, linked, ending>>

(* An error in the options ends the driver before it catches signals, and  *)
(* without a cleanup.                                                      *)
RejectArguments ==
  /\ pc = "options"
  /\ ReserveObjects
  /\ CountError(RC_USER_ERROR)
  /\ DoExit("options")
  /\ UNCHANGED <<cmd, i, order, k, run_inline, ran_twice, f90_fe_status,
                 tries, ghosts, linked>>

Missing(n) == n \in cmd.missing /\ ~ cmd.stdin

(* Fault: the decision of the last source stays. *)
InlineOfLastSource == run_inline

(* run_inline when main turns to the next source. *)
InlineOfNextSource == "undefined"

(* The loop over the sources skips a file that does not exist. *)
SkipMissing ==
  /\ pc = "next" /\ i < N /\ Missing(i + 1)
  /\ i' = i + 1
  /\ run_inline' = InlineOfNextSource
  /\ CountError(RC_USER_ERROR)
  /\ failed' = failed \cup {i + 1}
  /\ blamed' = blamed \cup {i + 1}
  /\ UNCHANGED <<cmd, pc, order, k, ran_twice, f90_fe_status, files, tries,
                 linked, ending>>

(* main enters run_compiler with the next source. *)
StartSource ==
  /\ pc = "next" /\ i < N /\ ~ Missing(i + 1)
  /\ pc' = "phase"
  /\ i' = i + 1
  /\ run_inline' = InlineOfNextSource
  /\ ClearCurrentErrors
  /\ order' = PhaseOrder(cmd.files[i + 1], InlineOfNextSource)
  /\ k' = 1
  /\ tries' = 0
  /\ UNCHANGED <<cmd, ran_twice, f90_fe_status, files, ghosts, linked, ending>>

(* All sources are done, and one of the last two has errors. *)
EndWithErrors ==
  /\ pc = "next" /\ i = N /\ HasErrors
  /\ CleanupAll
  /\ DoExit("failed")
  /\ UNCHANGED <<cmd, i, order, k, errs, run_inline, ran_twice, f90_fe_status,
                 tries, ghosts, linked>>

EndWithoutLink ==
  /\ pc = "next" /\ i = N /\ ~ HasErrors /\ LastPhase = cmd.last
  /\ CleanupAll
  /\ DoExit("done")
  /\ UNCHANGED <<cmd, i, order, k, errs, run_inline, ran_twice, f90_fe_status,
                 tries, ghosts, linked>>

(* The link that was put off until all sources are compiled. *)
StartLink ==
  /\ pc = "next" /\ i = N /\ ~ HasErrors /\ LastPhase # cmd.last
  /\ linked' = TRUE
  /\ order' = <<"ld">>
  /\ k' = 1
  /\ tries' = 0
  /\ pc' = "phase"
  /\ UNCHANGED <<cmd, i, errs, run_inline, ran_twice, f90_fe_status, files,
                 ghosts, ending>>

(***************************************************************************)
(* run_compiler: the loop over the phases of one source.                   *)
(***************************************************************************)
Skipped(p) == p = "inline" /\ run_inline = "no"

SkipInliner ==
  /\ pc = "phase" /\ k <= Len(order) /\ Skipped(Phase)
  /\ k' = k + 1
  /\ UNCHANGED <<cmd, pc, i, order, errs, run_inline, ran_twice, f90_fe_status,
                 files, tries, ghosts, linked, ending>>

(* create_temp_file_name: the file is created first and listed after. *)
Opening ==
  /\ pc = "phase" /\ k <= Len(order) /\ ~ Skipped(Phase)
  /\ opened = None /\ Unnamed(Phase) # {}

(* open fails, whatever the reason: the name exists, or the directory is   *)
(* full, not writable or gone.  The loop takes another name and goes on.   *)
OpenFails == Opening /\ UNCHANGED vars

OpenTemp ==
  /\ Opening
  /\ \E s \in Unnamed(Phase) :
       /\ opened' = <<s, i>>
       /\ disk' = disk \cup {<<s, i>>}
       /\ wrote' = [wrote EXCEPT ![<<s, i>>] = 0]
  /\ UNCHANGED <<cmd, pc, i, order, k, errs, run_inline, ran_twice, f90_fe_status,
                 temp_files, temp_obj_files, tries, ghosts, linked, ending>>

ListTemp ==
  /\ pc = "phase" /\ opened # None
  /\ temp_files' = temp_files \cup {opened}
  /\ opened' = None
  /\ UNCHANGED <<cmd, pc, i, order, k, errs, run_inline, ran_twice, f90_fe_status,
                 temp_obj_files, disk, wrote, tries, ghosts, linked, ending>>

(* run_phase starts the child.  The file with the listing information      *)
(* becomes a temporary one when the lister is about to read it.            *)
StartChild ==
  /\ pc = "phase" /\ k <= Len(order) /\ ~ Skipped(Phase)
  /\ opened = None /\ Unnamed(Phase) = {}
  /\ pc' = "child"
  /\ tries' = tries + 1
  /\ temp_files' = IF Phase = "lister" THEN temp_files \cup {CifFile(i)} ELSE temp_files
  /\ UNCHANGED <<cmd, i, order, k, errs, run_inline, ran_twice, f90_fe_status,
                 temp_obj_files, disk, wrote, opened, ghosts, linked, ending>>

(* The compile of a source, or the link, is over. *)
EndCompile ==
  /\ pc = "phase" /\ k > Len(order)
  /\ \/ /\ linked
        /\ CleanupAll
        /\ DoExit("done")
     \/ /\ ~ linked /\ cmd.stdin
        /\ Cleanup
        /\ DoExit("stdin")
     \/ /\ ~ linked /\ ~ cmd.stdin
        /\ IF multiple_source_files THEN Cleanup ELSE UNCHANGED files
        /\ pc' = "next"
        /\ UNCHANGED ending
  /\ UNCHANGED <<cmd, i, order, k, errs, run_inline, ran_twice, f90_fe_status,
                 tries, ghosts, linked>>

(***************************************************************************)
(* run_phase: what becomes of the status of the child.                     *)
(***************************************************************************)
Succeeds(st) == st \in {RC_OKAY, RC_NEED_INLINER}

(* Fault: only failures are noted. *)
KeptFailure(st, cif) == IF cif /\ st # RC_OKAY THEN st ELSE f90_fe_status

(* The status of the Fortran front end is kept until the lister has run. *)
KeptStatus(st, cif) == IF cif THEN st ELSE f90_fe_status
ListedStatus(st) ==
  IF st = RC_OKAY /\ f90_fe_status # RC_OKAY THEN f90_fe_status ELSE st

InlineRequest(p, st) ==
  IF cmd.inline # "undefined" THEN cmd.inline
    ELSE IF p = "wgen" THEN (IF st = RC_OKAY THEN "no" ELSE "yes")
                       ELSE run_inline

(* Fault: the back end is tried again and again. *)
AlwaysRetries(p, st) == st = RC_OVERFLOW_ERROR /\ p = "be"

Retries(p, st) == st = RC_OVERFLOW_ERROR /\ ~ ran_twice /\ p = "be"

(* ran_twice when a phase is over. *)
MarkAfterPhase == FALSE

(* The tries of a phase, counted modulo 3 to keep them bounded. *)
TriedAgain == (tries + 1) % 3

(* The switch on the status and what follows it: success, a second try of  *)
(* the back end with larger limits, or an error that ends the compile.     *)
HandleStatus(p, st) ==
  \/ /\ Succeeds(st)
     /\ run_inline' = InlineRequest(p, st)
     /\ ran_twice' = MarkAfterPhase
     /\ k' = IF errors > 0 THEN Len(order) + 1 ELSE k + 1
     /\ pc' = "phase"
     /\ tries' = 0
     /\ UNCHANGED <<errs, blamed>>
  \/ /\ Retries(p, st)
     /\ ran_twice' = TRUE
     /\ tries' = TriedAgain
     /\ UNCHANGED <<run_inline, k, pc, errs, blamed>>
  \/ /\ ~ Succeeds(st) /\ ~ Retries(p, st)
     /\ CountError(FailureCode(p, st))
     /\ ran_twice' = MarkAfterPhase
     /\ k' = Len(order) + 1
     /\ pc' = "phase"
     /\ tries' = 0
     /\ blamed' = blamed \cup {i}
     /\ UNCHANGED run_inline

Fails(p, st) == ~ Succeeds(st) /\ ~ Retries(p, st)

(* What the children return: only front ends ask for the inliner, and the  *)
(* lister fails without the file it lists.                                 *)
CanReturn(p, st) ==
  /\ st = RC_NEED_INLINER => p \in {"wgen", "f90_fe"}
  /\ p = "lister" /\ CifFile(i) \notin disk => ~ Succeeds(st)

ChildExits(st) ==
  /\ pc = "child"
  /\ CanReturn(Phase, st)
  /\ LET p == Phase IN
     /\ failed' = IF Fails(p, st) THEN failed \cup {i} ELSE failed
     /\ wrote' = [f \in DOMAIN wrote |->
                    IF Succeeds(st) /\ f \in Written(p) THEN i ELSE wrote[f]]
     /\ \/ /\ p = "f90_fe" /\ cmd.listing
           /\ disk' \in {disk, disk \cup {CifFile(i)}}
           /\ f90_fe_status' = KeptStatus(st, CifFile(i) \in disk')
           /\ HandleStatus(p, RC_OKAY)
        \/ /\ p = "lister"
           /\ f90_fe_status' = IF st = RC_OKAY THEN RC_OKAY ELSE f90_fe_status
           /\ HandleStatus(p, ListedStatus(st))
           /\ UNCHANGED disk
        \/ /\ p # "lister" /\ ~ (p = "f90_fe" /\ cmd.listing)
           /\ HandleStatus(p, st)
           /\ UNCHANGED <<disk, f90_fe_status>>
  /\ UNCHANGED <<cmd, i, order, temp_files, temp_obj_files, opened, linked, ending>>

(* The child could not be started, was stopped or died of a signal. *)
ChildDies ==
  /\ pc = "child"
  /\ \E c \in {RC_USER_ERROR, RC_INTERNAL_ERROR} : CountError(c)
  /\ failed' = failed \cup {i}
  /\ blamed' = blamed \cup {i}
  /\ Cleanup
  /\ DoExit("died")
  /\ UNCHANGED <<cmd, i, order, k, run_inline, ran_twice, f90_fe_status, tries,
                 linked>>

(* handler: a signal that the driver catches. *)
Handler ==
  /\ pc \notin {"options", "ended"}
  /\ CountError(RC_USER_ERROR)
  /\ Cleanup
  /\ DoExit("signal")
  /\ UNCHANGED <<cmd, i, order, k, run_inline, ran_twice, f90_fe_status, tries,
                 ghosts, linked>>

(* The driver has ended. *)
Ended == pc = "ended" /\ UNCHANGED vars

(* What the driver and its children do by themselves: that open succeeds   *)
(* is not up to them.                                                      *)
Main ==
  \/ ParseArguments \/ RejectArguments
  \/ SkipMissing \/ StartSource \/ EndWithErrors \/ EndWithoutLink \/ StartLink
  \/ SkipInliner \/ ListTemp \/ StartChild \/ EndCompile
  \/ \E st \in Statuses : ChildExits(st)
  \/ ChildDies

Next == Main \/ OpenTemp \/ OpenFails \/ Handler \/ Ended

(* Children end, and the driver goes on when they have.  Nothing is        *)
(* assumed of open: it may fail forever.                                   *)
Spec == Init /\ [][Next]_vars /\ WF_vars(Main)

(* do_exit: every code but success becomes 1. *)
ExitCode ==
  IF ending \in {"died", "signal"} \/ error_status # RC_OKAY THEN 1 ELSE 0

-----------------------------------------------------------------------------
TypeOK ==
  /\ cmd \in CommandLines
  /\ pc \in {"options", "next", "phase", "child", "ended"}
  /\ order \in Seq(Phases)
  /\ i \in 0..N /\ k \in 1..(Len(order) + 1)
  /\ errors \in Nat /\ previous_errors \in Nat
  /\ error_status \in Statuses
  /\ run_inline \in {"undefined", "no", "yes"}
  /\ ran_twice \in BOOLEAN /\ f90_fe_status \in Statuses
  /\ tries \in Nat
  /\ linked \in BOOLEAN
  /\ linked => i = N /\ order = <<"ld">>
  /\ ending \in {"none", "options", "failed", "done", "stdin", "died", "signal"}

(* Errors are charged to the source they come from: between two sources,   *)
(* those with a child that failed and those with an error counted are the  *)
(* same.  The status of a Fortran front end that is put aside while the    *)
(* lister runs is neither lost nor taken for the next source's.            *)
ErrorsAreOwn == pc = "next" => blamed = failed

(* The driver exits with 0 exactly when it came to its end and no child    *)
(* failed, although has_errors and clear_current_errors forget old errors. *)
ExitTells ==
  pc = "ended" => (ExitCode = 0 <=> ending \in {"done", "stdin"} /\ failed = {})

(* A phase reads what an earlier phase of the same source has written: the *)
(* back end takes the file of the inliner when the inliner has run and     *)
(* that of the front end when it was skipped, whoever decided it and when. *)
InputIsOwn ==
  pc = "child" /\ Input(Phase) # "" => wrote[NameOf(Input(Phase))] = i

(* No temporary file outlives the driver.  A driver that a signal or the   *)
(* death of a child stops, or that rejects its options or reads standard   *)
(* input, may leave the temporary objects and at most two files more: the  *)
(* one it was creating and the listing information of the source at work.  *)
NothingLeft ==
  pc = "ended" =>
    IF ending \in {"done", "failed"}
      THEN disk = {}
      ELSE disk \subseteq {Object(n) : n \in 1..N} \cup {CifFile(i), opened}

(* A back end that runs into its limits is tried a second time, and no     *)
(* more, for every source: ran_twice is set during a second try and at no  *)
(* other time, so that it never leaks into the next phase or source.       *)
RetriedOnce == pc = "child" => tries \in 1..2 /\ (ran_twice <=> tries = 2)

(* The lister stands right behind the Fortran front end, and nowhere else. *)
ListerFollows(o) ==
  \A j \in 1..Len(o) :
    /\ o[j] = "lister" => j > 1 /\ o[j - 1] = "f90_fe" /\ cmd.listing
    /\ o[j] = "f90_fe" /\ cmd.listing => j < Len(o) /\ o[j + 1] = "lister"

AtPhase == pc \in {"phase", "child"} /\ k <= Len(order)
AtLister == AtPhase /\ Phase = "lister"

(* While a phase is at work its source has no error; only a Fortran front  *)
(* end that waits for its lister has failed without being blamed, and then *)
(* f90_fe_status says so or the lister cannot succeed.                     *)
ErrorInv ==
  /\ blamed \subseteq failed /\ failed \subseteq 1..i
  /\ pc # "ended" => (error_status = RC_OKAY <=> blamed = {})
  /\ pc # "ended" /\ HasErrors => error_status # RC_OKAY
  /\ AtPhase => i > 0 /\ errors = 0 /\ (linked \/ i \notin blamed)
  /\ pc # "ended" /\ ~ AtLister => blamed = failed
  /\ AtLister => /\ ~ linked /\ failed \ blamed \subseteq {i}
                 /\ CifFile(i) \in disk => (i \in failed <=> ~ Succeeds(f90_fe_status))

(* A child is the first or the second of its phase. *)
RetryInv ==
  /\ tries <= 2
  /\ pc = "child" => k <= Len(order) /\ tries # 0 /\ (ran_twice <=> tries = 2)
  /\ pc \in {"options", "next", "phase"} => tries = 0 /\ ~ ran_twice

(* What is on the disk is listed for one of the two cleanups. *)
FileInv ==
  /\ opened # None => pc = "ended" \/ (pc = "phase" /\ k <= Len(order) /\ ~ Skipped(Phase))
  /\ pc = "options" => disk = {}
  /\ pc \in {"next", "phase", "child"} => temp_obj_files = 1..N
  /\ pc # "ended" =>
       \A f \in disk : \/ f \in temp_files
                       \/ \E n \in temp_obj_files : f = Object(n)
                       \/ f = opened /\ f # None
                       \/ f = CifFile(i) /\ AtLister /\ pc = "phase"

(* What a phase reads has been written by an earlier phase of the order:   *)
(* the inliner, if it is in the order, stands right before the back end,   *)
(* and behind the front end that decides whether it runs.                  *)
FedInOrder(o, kind) ==
  \A j \in 1..Len(o) :
    /\ o[j] = "spin_cc1" => j > 1 /\ o[j - 1] = "gcpp"
    /\ o[j] = "wgen" => j > 1 /\ o[j - 1] = "spin_cc1" /\ \A h \in 1..j : o[h] # "inline"
    /\ o[j] \in {"inline", "be"} => \E h \in 1..(j - 1) : o[h] \in {"wgen", "f90_fe"}
    /\ o[j] = "be" /\ cmd.inline # "no" => j > 1 /\ o[j - 1] = "inline"
    /\ o[j] = "gas" /\ kind # "s" => j > 1 /\ o[j - 1] = "be" /\ cmd.last # "be"

(* The files of the source at work carry its number, those of the sources  *)
(* before it are gone, and what its earlier phases had to write is there.  *)
HandOverInv ==
  /\ wrote \in [(Suffixes \cup {"o"}) \X (1..N) -> 0..N]
  /\ cmd.inline # "undefined" => run_inline \in {"undefined", cmd.inline}
  /\ pc \in {"options", "next"} /\ i < N => temp_files = {}
  /\ pc \in {"phase", "child"} /\ ~ linked =>
       /\ i > 0 /\ FedInOrder(order, Source)
       /\ temp_files \subseteq (Suffixes \cup {"T"}) \X {i}
       /\ opened # None => opened \in Suffixes \X {i}
       /\ pc = "child" => Unnamed(Phase) = {}
       /\ k <= Len(order) /\ i \notin failed =>
            \A j \in 1..(k - 1) :
              Output(order[j]) \in Suffixes /\ ~ Skipped(order[j]) =>
                /\ <<Output(order[j]), i>> \in temp_files
                /\ wrote[<<Output(order[j]), i>>] = i

(* The bookkeeping that the properties of the driver rest on. *)
DriverInv ==
  TypeOK /\ ListerFollows(order) /\ ErrorInv /\ RetryInv /\ FileInv /\ HandOverInv

(* The driver ends, whatever its children return, or it stays forever in   *)
(* the loop of create_temp_file_name, which repeats open after any error   *)
(* and has no other way out: it is stuck nowhere else.                     *)
DriverEnds == <>(pc = "ended") \/ <>[]Opening
=============================================================================
