--------------------------- MODULE CompilerProofs ---------------------------
(***************************************************************************)
(* Proofs about the sequential parts of the compiler.  First the driver,   *)
(* for every set of command lines: any number of sources of any kinds,     *)
(* whatever the children return and whenever a signal comes.  At the end   *)
(* what a stack of memory pools promises, for any pools and any memory.    *)
(***************************************************************************)
EXTENDS Driver, SequenceTheorems, TLAPS

(* The facts about a command line that the proofs use. *)
LEMMA CommandLineFacts ==
  ASSUME cmd \in CommandLines
  PROVE  /\ cmd.files \in Seq(Kinds) /\ N \in Nat /\ N > 0
         /\ \A n \in 1..N : cmd.files[n] \in Kinds
         /\ LastPhase \in {"be", "as", "ld"}
         /\ cmd.inline \in {"undefined", "no", "yes"}
         /\ cmd.listing \in BOOLEAN
BY CommandLinesAssumption DEF N, LastPhase

(* The three parts of a phase order. *)
LEMMA FrontEndFacts ==
  ASSUME cmd \in CommandLines, NEW kind \in Kinds
  PROVE  /\ FrontEnd(kind) \in Seq(Phases)
         /\ ListerFollows(FrontEnd(kind))
<1>1. CASE kind = "c"
  BY <1>1 DEF FrontEnd, Phases, ListerFollows
<1>2. CASE kind = "f90" /\ cmd.listing
  BY <1>2 DEF FrontEnd, Phases, ListerFollows
<1>3. CASE kind = "f90" /\ ~ cmd.listing
  BY <1>3 DEF FrontEnd, Phases, ListerFollows
<1>4. CASE kind = "s"
  BY <1>4 DEF FrontEnd, Phases, ListerFollows
<1>. QED  BY <1>1, <1>2, <1>3, <1>4 DEF Kinds

(* The phases after the front end are neither the lister nor the front end. *)
LEMMA RestFacts ==
  ASSUME cmd \in CommandLines, NEW kind \in Kinds, NEW ri
  PROVE  /\ Middle(kind, ri) \in Seq(Phases \ {"lister", "f90_fe"})
         /\ BackEnd(LastPhase) \in Seq(Phases \ {"lister", "f90_fe"})
<1>. DEFINE P == Phases \ {"lister", "f90_fe"}
<1>1. {"inline", "be", "gas", "ld"} \subseteq P
  BY DEF Phases
<1>. HIDE DEF P
<1>2. /\ <<>> \in Seq(P) /\ <<"be">> \in Seq(P) /\ <<"inline", "be">> \in Seq(P)
      /\ <<"gas">> \in Seq(P) /\ <<"gas", "ld">> \in Seq(P)
  BY <1>1
<1>3. Middle(kind, ri) \in {<<>>, <<"be">>, <<"inline", "be">>}
  BY Zenon DEF Middle
<1>4. BackEnd(LastPhase) \in {<<>>, <<"gas">>, <<"gas", "ld">>}
  <2>1. BackEnd("be") = <<>> /\ BackEnd("as") = <<"gas">> /\ BackEnd("ld") = <<"gas", "ld">>
    BY DEF BackEnd
  <2>. QED  BY <2>1, CommandLineFacts
<1>5. Middle(kind, ri) \in Seq(P) /\ BackEnd(LastPhase) \in Seq(P)
  BY <1>2, <1>3, <1>4, Zenon
<1>. QED  BY <1>5 DEF P

(* Appending phases that are neither the Fortran front end nor the lister  *)
(* keeps the lister where it is.                                           *)
LEMMA AppendRest ==
  ASSUME NEW s \in Seq(Phases), NEW t \in Seq(Phases \ {"lister", "f90_fe"}),
         ListerFollows(s)
  PROVE  s \o t \in Seq(Phases) /\ ListerFollows(s \o t)
<1>0. t \in Seq(Phases)
  OBVIOUS
<1>1. s \o t \in Seq(Phases) /\ Len(s \o t) = Len(s) + Len(t)
  BY <1>0, ConcatProperties
<1>2. \A j \in 1..Len(s) : (s \o t)[j] = s[j]
  BY <1>0, ConcatProperties
<1>3. \A j \in 1..Len(s \o t) : j > Len(s) => (s \o t)[j] \notin {"lister", "f90_fe"}
  BY <1>0, <1>1
<1>4. ASSUME NEW j \in 1..Len(s \o t)
      PROVE  /\ (s \o t)[j] = "lister" => j > 1 /\ (s \o t)[j - 1] = "f90_fe" /\ cmd.listing
             /\ (s \o t)[j] = "f90_fe" /\ cmd.listing
                  => j < Len(s \o t) /\ (s \o t)[j + 1] = "lister"
  <2>1. CASE j > Len(s)
    BY <1>3, <2>1
  <2>2. CASE j <= Len(s)
    <3>1. j \in 1..Len(s) /\ Len(s) \in Nat /\ Len(t) \in Nat
      BY <2>2
    <3>2. (s \o t)[j] = s[j] /\ (j > 1 => (s \o t)[j - 1] = s[j - 1])
      BY <1>2, <3>1
    <3>3. j < Len(s) => (s \o t)[j + 1] = s[j + 1]
      BY <1>2, <3>1
    <3>. QED  BY <1>1, <3>1, <3>2, <3>3 DEF ListerFollows
  <2>. QED  BY <2>1, <2>2, <1>1
<1>. QED  BY <1>1, <1>4 DEF ListerFollows

(* determine_phase_order puts the lister behind the Fortran front end. *)
LEMMA OrderFacts ==
  ASSUME cmd \in CommandLines, NEW kind \in Kinds, NEW ri
  PROVE  PhaseOrder(kind, ri) \in Seq(Phases) /\ ListerFollows(PhaseOrder(kind, ri))
<1>1. /\ FrontEnd(kind) \o Middle(kind, ri) \in Seq(Phases)
      /\ ListerFollows(FrontEnd(kind) \o Middle(kind, ri))
  BY FrontEndFacts, RestFacts, AppendRest
<1>. QED  BY <1>1, RestFacts, AppendRest, Zenon DEF PhaseOrder

(* The invariant holds before the first command line is read. *)
LEMMA InitInv ==
  ASSUME Init
  PROVE  DriverInv /\ ExitTells /\ NothingLeft
<1>0. order \in Seq(Phases) /\ Len(order) = 0 /\ N \in Nat
  BY CommandLineFacts DEF Init
<1>1. TypeOK /\ ListerFollows(order)
  <2>1. /\ cmd \in CommandLines /\ pc = "options" /\ i = 0 /\ k = 1
        /\ errors = 0 /\ previous_errors = 0 /\ error_status = 0
        /\ run_inline = "undefined" /\ ran_twice = FALSE /\ f90_fe_status = 0
        /\ tries = 0 /\ linked = FALSE /\ ending = "none"
    BY DEF Init, RC_OKAY
  <2>2. ran_twice \in BOOLEAN /\ linked \in BOOLEAN /\ (linked => i = N)
    BY <2>1, Zenon
  <2>3. ListerFollows(order)
    BY <1>0 DEF ListerFollows
  <2>. QED  BY <1>0, <2>1, <2>2, <2>3 DEF TypeOK, Statuses, RC_OKAY
<1>2. ErrorInv /\ RetryInv /\ FileInv
  BY <1>1 DEF Init, TypeOK, ErrorInv, RetryInv, FileInv, AtPhase, AtLister, HasErrors
<1>3. HandOverInv
  BY <1>0 DEF Init, HandOverInv
<1>. QED  BY <1>1, <1>2, <1>3 DEF Init, DriverInv, ExitTells, NothingLeft

(* Types, and the place of the lister.  An open that fails changes nothing *)
(* and is left to the stuttering case of DriverIsSound, here and below.    *)
LEMMA TypeStep ==
  ASSUME DriverInv, Next, ~ OpenFails
  PROVE  TypeOK' /\ ListerFollows(order)'
<1>. USE CommandLineFacts DEF DriverInv, TypeOK, N, errs, ghosts, Statuses, RC_OKAY,
         RC_USER_ERROR, RC_INTERNAL_ERROR, RC_NEED_INLINER, RC_OVERFLOW_ERROR
<1>1. CASE ParseArguments
  BY <1>1 DEF ParseArguments, ListerFollows
<1>2. CASE RejectArguments
  BY <1>2 DEF RejectArguments, ListerFollows, CountError, SetErrorStatus, DoExit
<1>3. CASE SkipMissing
  BY <1>3 DEF SkipMissing, ListerFollows, CountError, SetErrorStatus, InlineOfNextSource
<1>4. CASE StartSource
  <2>1. cmd.files[i + 1] \in Kinds
    BY <1>4 DEF StartSource
  <2>2. order' \in Seq(Phases) /\ ListerFollows(order') /\ k' = 1
    BY <1>4, <2>1, OrderFacts DEF StartSource
  <2>3. ListerFollows(order)'
    BY <1>4, <2>2 DEF StartSource, ListerFollows
  <2>4. TypeOK'
    BY <1>4, <2>2 DEF StartSource, ClearCurrentErrors, InlineOfNextSource
  <2>. QED  BY <2>3, <2>4
<1>5. CASE EndWithErrors
  BY <1>5 DEF EndWithErrors, ListerFollows, DoExit
<1>6. CASE EndWithoutLink
  BY <1>6 DEF EndWithoutLink, ListerFollows, DoExit
<1>7. CASE StartLink
  <2>1. order' = <<"ld">> /\ order' \in Seq(Phases) /\ Len(order') = 1 /\ order'[1] = "ld"
    BY <1>7 DEF StartLink, Phases
  <2>. QED  BY <1>7, <2>1 DEF StartLink, ListerFollows
<1>8. CASE SkipInliner
  BY <1>8 DEF SkipInliner, ListerFollows
<1>9. CASE OpenTemp \/ ListTemp \/ StartChild
  <2>1. CASE OpenTemp
    BY <2>1 DEF OpenTemp, Opening, ListerFollows
  <2>2. CASE ListTemp
    BY <2>2 DEF ListTemp, ListerFollows
  <2>3. CASE StartChild
    BY <2>3 DEF StartChild, ListerFollows
  <2>. QED  BY <1>9, <2>1, <2>2, <2>3
<1>10. CASE EndCompile
  BY <1>10 DEF EndCompile, ListerFollows, DoExit
<1>11. CASE \E st \in Statuses : ChildExits(st)
  <2>1. PICK st \in Statuses : ChildExits(st)
    BY <1>11
  <2>2. f90_fe_status' \in Statuses
    BY <2>1 DEF ChildExits, KeptStatus
  <2>3. PICK s \in Statuses : HandleStatus(Phase, s)
    BY <2>1 DEF ChildExits, ListedStatus
  <2>4. /\ errors' \in Nat /\ previous_errors' \in Nat /\ error_status' \in Statuses
        /\ run_inline' \in {"undefined", "no", "yes"} /\ ran_twice' \in BOOLEAN
        /\ tries' \in Nat /\ pc' \in {"phase", "child"}
    <3>1. FailureCode(Phase, s) \in Statuses /\ SetErrorStatus(FailureCode(Phase, s)) \in Statuses
      BY DEF FailureCode, SetErrorStatus
    <3>2. InlineRequest(Phase, s) \in {"undefined", "no", "yes"}
      BY DEF InlineRequest
    <3>3. pc = "child"
      BY <2>1 DEF ChildExits
    <3>4. CASE Succeeds(s) /\ run_inline' = InlineRequest(Phase, s) /\ ran_twice' = FALSE
               /\ pc' = "phase" /\ tries' = 0 /\ UNCHANGED errs
      BY <3>2, <3>4, Zenon
    <3>5. CASE ran_twice' = TRUE /\ tries' = TriedAgain /\ UNCHANGED <<run_inline, pc, errs>>
      BY <3>3, <3>5 DEF TriedAgain
    <3>6. CASE CountError(FailureCode(Phase, s)) /\ ran_twice' = FALSE /\ pc' = "phase"
               /\ tries' = 0 /\ UNCHANGED run_inline
      <4>1. errors' = errors + 1 /\ previous_errors' = previous_errors
            /\ error_status' = SetErrorStatus(FailureCode(Phase, s))
        BY <3>6 DEF CountError
      <4>2. error_status' \in Statuses
        BY <4>1, <3>1
      <4>3. ran_twice' \in BOOLEAN
        BY <3>6, Zenon
      <4>. QED  BY <3>6, <4>1, <4>2, <4>3
    <3>. QED  BY <2>3, <3>4, <3>5, <3>6, Zenon DEF HandleStatus, MarkAfterPhase
  <2>5. k' \in 1..(Len(order) + 1)
    <3>1. k <= Len(order)
      BY <2>1 DEF ChildExits, RetryInv
    <3>. QED  BY <2>3, <3>1 DEF HandleStatus
  <2>. QED  BY <2>1, <2>2, <2>4, <2>5 DEF ChildExits, ListerFollows
<1>12. CASE ChildDies
  BY <1>12 DEF ChildDies, ListerFollows, CountError, SetErrorStatus, DoExit
<1>13. CASE Handler
  BY <1>13 DEF Handler, ListerFollows, CountError, SetErrorStatus, DoExit
<1>14. CASE Ended
  BY <1>14 DEF Ended, vars, ListerFollows
<1>. QED
  BY <1>1, <1>2, <1>3, <1>4, <1>5, <1>6, <1>7, <1>8, <1>9, <1>10, <1>11, <1>12, <1>13, <1>14
  DEF Next, Main

(* The mark of the second try. *)
LEMMA RetryStep ==
  ASSUME DriverInv, Next, ~ OpenFails
  PROVE  RetryInv'
<1>. USE DEF DriverInv, TypeOK, RetryInv
<1>1. CASE ParseArguments \/ RejectArguments \/ SkipMissing \/ StartSource \/ EndWithErrors
           \/ EndWithoutLink \/ StartLink
  BY <1>1 DEF ParseArguments, RejectArguments, SkipMissing, StartSource, EndWithErrors,
              EndWithoutLink, StartLink, DoExit
<1>2. CASE SkipInliner \/ OpenTemp \/ ListTemp \/ StartChild \/ EndCompile
  BY <1>2 DEF SkipInliner, OpenTemp, Opening, ListTemp, StartChild, EndCompile, DoExit
<1>3. CASE \E st \in Statuses : ChildExits(st)
  <2>1. PICK s : HandleStatus(Phase, s) /\ pc = "child" /\ order' = order
    BY <1>3 DEF ChildExits
  <2>. QED  BY <2>1 DEF HandleStatus, Retries, MarkAfterPhase, TriedAgain
<1>4. CASE ChildDies \/ Handler \/ Ended
  BY SMTT(30), <1>4 DEF ChildDies, Handler, Ended, DoExit, vars
<1>. QED  BY <1>1, <1>2, <1>3, <1>4 DEF Next, Main

(* Files: what is on the disk is listed, and gone when the driver ends. *)
LEMMA FileStep ==
  ASSUME DriverInv, NothingLeft, Next, ~ OpenFails
  PROVE  FileInv' /\ NothingLeft'
<1>. USE DEF DriverInv, TypeOK, FileInv, NothingLeft, files, N
<1>1. CASE ParseArguments \/ RejectArguments
  BY <1>1 DEF ParseArguments, RejectArguments, ReserveObjects, DoExit, AtLister, AtPhase
<1>2. CASE SkipMissing
  BY <1>2 DEF SkipMissing, AtLister, AtPhase
<1>3. CASE StartSource
  BY <1>3 DEF StartSource, AtLister, AtPhase
<1>4. CASE EndWithErrors \/ EndWithoutLink
  BY <1>4 DEF EndWithErrors, EndWithoutLink, CleanupAll, DoExit, AtLister, AtPhase
<1>5. CASE StartLink
  BY <1>5 DEF StartLink, AtLister, AtPhase, Phase
<1>6. CASE SkipInliner
  BY <1>6 DEF SkipInliner, Skipped, AtLister, AtPhase
<1>7. CASE OpenTemp
  <2>1. PICK s \in Suffixes : /\ opened' = <<s, i>>
                              /\ disk' = disk \cup {<<s, i>>}
    BY <1>7 DEF OpenTemp, Opening, Unnamed
  <2>2. opened' # None
    BY <2>1 DEF None, Suffixes
  <2>. QED  BY <1>7, <2>1, <2>2 DEF OpenTemp, Opening, AtLister, AtPhase, Phase, Skipped
<1>8. CASE ListTemp
  BY <1>8 DEF ListTemp, AtLister, AtPhase, Phase, Skipped
<1>9. CASE StartChild
  BY <1>9 DEF StartChild, AtLister, AtPhase, Phase
<1>10. CASE EndCompile
  BY <1>10 DEF EndCompile, Cleanup, CleanupAll, DoExit, AtLister, AtPhase
<1>11. CASE \E st \in Statuses : ChildExits(st)
  <2>1. PICK st \in Statuses : ChildExits(st)
    BY <1>11
  <2>2. /\ pc = "child" /\ UNCHANGED <<cmd, i, order, temp_files, temp_obj_files, opened, ending>>
        /\ pc' \in {"phase", "child"} /\ k <= Len(order)
    BY <2>1 DEF ChildExits, HandleStatus, RetryInv
  <2>3. CASE disk' = disk
    BY <2>2, <2>3
  <2>4. CASE disk' = disk \cup {CifFile(i)} /\ Phase = "f90_fe" /\ cmd.listing
    <3>1. HandleStatus(Phase, RC_OKAY)
      BY <2>1, <2>4 DEF ChildExits
    <3>2. errors = 0
      BY <2>2 DEF ErrorInv, AtPhase
    <3>3. pc' = "phase" /\ k' = k + 1
      BY <3>1, <3>2 DEF HandleStatus, Succeeds, Retries, RC_OKAY, RC_OVERFLOW_ERROR
    <3>4. AtLister'
      BY <2>2, <2>4, <3>3 DEF AtLister, AtPhase, Phase, ListerFollows
    <3>. QED  BY <2>2, <2>4, <3>3, <3>4 DEF AtLister, AtPhase, CifFile
  <2>. QED  BY <2>1, <2>3, <2>4 DEF ChildExits
<1>12. CASE ChildDies \/ Handler
  BY <1>12 DEF ChildDies, Handler, Cleanup, DoExit, AtLister, AtPhase
<1>13. CASE Ended
  BY <1>13 DEF Ended, vars
<1>. QED
  BY SMTT(30), <1>1, <1>2, <1>3, <1>4, <1>5, <1>6, <1>7, <1>8, <1>9, <1>10, <1>11, <1>12, <1>13
  DEF Next, Main

(* The code recorded for a failure is an error code. *)
LEMMA FailureCodeIsError ==
  ASSUME NEW p, NEW st \in Statuses, ~ Succeeds(st)
  PROVE  FailureCode(p, st) # RC_OKAY
BY DEF FailureCode, Statuses, Succeeds, RC_OKAY, RC_USER_ERROR, RC_INTERNAL_ERROR,
       RC_NEED_INLINER, RC_OVERFLOW_ERROR

(* Sources that failed and are not blamed, when the only candidate did not *)
(* fail: there are none.                                                   *)
LEMMA NoneExtra ==
  ASSUME NEW A, NEW B, NEW x, x \notin A, A \ B \subseteq {x}, B \subseteq A
  PROVE  A = B
OBVIOUS

(* Errors: who failed, who is blamed, and what the driver exits with. *)
LEMMA ErrorStep ==
  ASSUME DriverInv, ExitTells, Next, ~ OpenFails
  PROVE  ErrorInv' /\ ExitTells'
<1>. USE DEF DriverInv, TypeOK, ErrorInv, ExitTells, errs, ghosts, HasErrors
<1>1. CASE ParseArguments
  BY <1>1 DEF ParseArguments, AtLister, AtPhase
<1>2. CASE RejectArguments
  BY <1>2 DEF RejectArguments, CountError, SetErrorStatus, DoExit, ExitCode, AtLister, AtPhase,
              RC_USER_ERROR, RC_OKAY
<1>3. CASE SkipMissing
  BY <1>3 DEF SkipMissing, CountError, SetErrorStatus, AtLister, AtPhase, RC_USER_ERROR, RC_OKAY
<1>4. CASE StartSource
  <2>1. ~ AtLister' /\ ~ AtLister
    <3>1. ListerFollows(order)'
      BY TypeStep
    <3>. QED  BY <1>4, <3>1 DEF StartSource, AtLister, AtPhase, Phase, ListerFollows
  <2>. QED  BY <1>4, <2>1 DEF StartSource, ClearCurrentErrors, AtPhase
<1>5. CASE EndWithErrors
  BY <1>5 DEF EndWithErrors, DoExit, ExitCode, AtLister, AtPhase
<1>6. CASE EndWithoutLink
  BY <1>6 DEF EndWithoutLink, DoExit, ExitCode, AtLister, AtPhase
<1>7. CASE StartLink
  BY <1>7, CommandLineFacts DEF StartLink, AtLister, AtPhase, Phase
<1>8. CASE SkipInliner
  BY <1>8 DEF SkipInliner, Skipped, AtLister, AtPhase, Phase, ListerFollows
<1>9. CASE OpenTemp
  BY <1>9 DEF OpenTemp, Opening, AtLister, AtPhase, Phase, CifFile, Unnamed, Suffixes
<1>10. CASE ListTemp
  BY <1>10 DEF ListTemp, AtLister, AtPhase, Phase
<1>11. CASE StartChild
  BY <1>11 DEF StartChild, AtLister, AtPhase, Phase
<1>12. CASE EndCompile
  <2>1. ~ AtLister /\ ~ AtLister' /\ ~ AtPhase'
    BY <1>12 DEF EndCompile, DoExit, AtLister, AtPhase
  <2>2. CASE pc' = "next"
    BY <1>12, <2>1, <2>2 DEF EndCompile
  <2>3. CASE pc' = "ended" /\ ending' \in {"done", "stdin"}
    BY <1>12, <2>1, <2>3 DEF EndCompile, ExitCode
  <2>. QED  BY <1>12, <2>2, <2>3 DEF EndCompile, DoExit
<1>13. CASE \E st \in Statuses : ChildExits(st)
  <2>1. PICK st \in Statuses : ChildExits(st)
    BY <1>13
  <2>2. /\ pc = "child" /\ AtPhase /\ errors = 0 /\ i > 0
        /\ UNCHANGED <<cmd, i, order, linked, ending>>
    BY <2>1 DEF ChildExits, RetryInv, AtPhase
  <2>3. CASE Phase = "f90_fe" /\ cmd.listing
    <3>1. /\ failed' = IF Fails(Phase, st) THEN failed \cup {i} ELSE failed
          /\ f90_fe_status' = KeptStatus(st, CifFile(i) \in disk')
          /\ HandleStatus(Phase, RC_OKAY)
      BY <2>1, <2>3 DEF ChildExits
    <3>2. pc' = "phase" /\ k' = k + 1 /\ UNCHANGED <<errs, blamed>>
      BY <2>2, <3>1 DEF HandleStatus, Succeeds, Retries, RC_OKAY, RC_OVERFLOW_ERROR
    <3>3. AtLister' /\ AtPhase' /\ ~ AtLister
      BY <2>2, <2>3, <3>2 DEF AtLister, AtPhase, Phase, ListerFollows
    <3>4. ~ linked /\ i \notin failed
      BY <2>2, <2>3, <3>3 DEF AtLister, AtPhase, Phase
    <3>5. Fails(Phase, st) <=> ~ Succeeds(st)
      BY <2>3 DEF Fails, Retries
    <3>. QED  BY <2>2, <3>1, <3>2, <3>3, <3>4, <3>5 DEF KeptStatus, CifFile
  <2>4. CASE Phase # "f90_fe" \/ ~ cmd.listing
    <3>1. /\ failed' = IF Fails(Phase, st) THEN failed \cup {i} ELSE failed
          /\ UNCHANGED disk
          /\ IF Phase = "lister" THEN HandleStatus(Phase, ListedStatus(st))
                                 ELSE HandleStatus(Phase, st)
          /\ Phase = "lister" /\ CifFile(i) \notin disk => ~ Succeeds(st)
          /\ Phase = "lister" => st # RC_NEED_INLINER
      BY <2>1, <2>4 DEF ChildExits, CanReturn
    <3>2. PICK s \in Statuses : /\ HandleStatus(Phase, s)
                                /\ s = IF Phase = "lister" THEN ListedStatus(st) ELSE st
      BY <3>1 DEF ListedStatus
    <3>3. CASE Retries(Phase, s)
      <4>1. Phase = "be" /\ s = st /\ failed' = failed
        BY <3>1, <3>2, <3>3 DEF Retries, Fails
      <4>2. UNCHANGED <<k, pc, errs, blamed>>
        BY <3>2, <3>3 DEF HandleStatus, Retries, Succeeds, RC_OVERFLOW_ERROR, RC_OKAY, RC_NEED_INLINER
      <4>3. ~ AtLister /\ ~ AtLister' /\ AtPhase'
        BY <2>2, <4>1, <4>2 DEF AtLister, AtPhase, Phase
      <4>. QED  BY <2>2, <4>1, <4>2, <4>3
    <3>4. CASE ~ Retries(Phase, s)
      <4>1. pc' = "phase" /\ ~ AtLister'
        <5>1. pc' = "phase" /\ k' \in {k + 1, Len(order) + 1}
          BY <3>2, <3>4 DEF HandleStatus
        <5>. QED  BY <2>2, <2>4, <5>1 DEF AtLister, AtPhase, Phase, ListerFollows
      <4>2. CASE Succeeds(s)
        <5>1. UNCHANGED <<errs, blamed>>
          BY <3>2, <4>2 DEF HandleStatus, Retries, Succeeds, RC_OVERFLOW_ERROR, RC_OKAY, RC_NEED_INLINER
        <5>2. Succeeds(st) /\ failed' = failed
          BY <3>1, <3>2, <4>2 DEF ListedStatus, Fails, Succeeds
        <5>3. failed = blamed
          <6>1. CASE Phase # "lister"
            BY <2>2, <6>1 DEF AtLister
          <6>2. CASE Phase = "lister"
            <7>1. AtLister /\ CifFile(i) \in disk /\ st = RC_OKAY
              BY <2>2, <3>1, <5>2, <6>2 DEF AtLister, Succeeds
            <7>2. Succeeds(f90_fe_status)
              BY <3>2, <4>2, <6>2, <7>1 DEF ListedStatus, Succeeds
            <7>3. i \notin failed /\ failed \ blamed \subseteq {i} /\ blamed \subseteq failed
              BY <7>1, <7>2
            <7>. QED  BY <7>3, NoneExtra, Zenon
          <6>. QED  BY <6>1, <6>2
        <5>. QED  BY <2>2, <4>1, <5>1, <5>2, <5>3 DEF AtPhase
      <4>3. CASE ~ Succeeds(s)
        <5>1. CountError(FailureCode(Phase, s)) /\ blamed' = blamed \cup {i} /\ k' = Len(order) + 1
          BY <3>2, <3>4, <4>3 DEF HandleStatus
        <5>2. error_status' # RC_OKAY /\ errors' = errors + 1
          BY <5>1, <4>3, FailureCodeIsError DEF CountError, SetErrorStatus
        <5>3. failed' = blamed \cup {i}
          <6>1. CASE Phase # "lister"
            BY <2>2, <3>1, <3>2, <3>4, <4>3, <6>1 DEF AtLister, Fails
          <6>2. CASE Phase = "lister" /\ ~ Succeeds(st)
            BY <2>2, <3>1, <6>2, Zenon DEF AtLister, Fails, Retries
          <6>3. CASE Phase = "lister" /\ Succeeds(st)
            <7>1. AtLister /\ CifFile(i) \in disk /\ st = RC_OKAY
              BY <2>2, <3>1, <6>3 DEF AtLister, Succeeds
            <7>2. ~ Succeeds(f90_fe_status) /\ failed' = failed
              BY <3>1, <3>2, <4>3, <6>3, <7>1 DEF ListedStatus, Succeeds, Fails
            <7>. QED  BY <7>1, <7>2, Zenon
          <6>. QED  BY <6>1, <6>2, <6>3
        <5>4. ~ AtPhase'
          BY <2>2, <5>1 DEF AtPhase
        <5>. QED  BY SMTT(30), <2>2, <4>1, <5>1, <5>2, <5>3, <5>4
      <4>. QED  BY <4>2, <4>3
    <3>. QED  BY <3>3, <3>4
  <2>. QED  BY <2>3, <2>4
<1>14. CASE ChildDies
  <2>1. AtPhase
    BY <1>14 DEF ChildDies, RetryInv, AtPhase
  <2>. QED  BY <1>14, <2>1 DEF ChildDies, CountError, DoExit, ExitCode, AtLister, AtPhase
<1>15. CASE Handler
  BY <1>15 DEF Handler, CountError, DoExit, ExitCode, AtLister, AtPhase
<1>16. CASE Ended
  BY <1>16 DEF Ended, vars, ExitCode, AtLister, AtPhase, Phase
<1>. QED
  BY <1>1, <1>2, <1>3, <1>4, <1>5, <1>6, <1>7, <1>8, <1>9, <1>10, <1>11, <1>12, <1>13, Zenon,
     <1>14, <1>15, <1>16
  DEF Next, Main

(* The front end and the middle: every phase stands behind the one it reads *)
(* from, and the back end is last.                                          *)
LEMMA FrontIsFed ==
  ASSUME cmd \in CommandLines, NEW kind \in Kinds,
         NEW f, f = FrontEnd(kind) \o Middle(kind, "undefined")
  PROVE  FedInOrder(f, kind) /\ (kind # "s" => Len(f) > 0 /\ f[Len(f)] = "be")
<1>1. /\ cmd.inline = "no" => Middle("c", "undefined") = <<"be">> /\ Middle("f90", "undefined") = <<"be">>
      /\ cmd.inline # "no" => /\ Middle("c", "undefined") = <<"inline", "be">>
                              /\ Middle("f90", "undefined") = <<"inline", "be">>
      /\ Middle("s", "undefined") = <<>>
  BY DEF Middle, PostFePhase
<1>2. CASE kind = "c"
  <2>1. FrontEnd(kind) = <<"gcpp", "spin_cc1", "wgen">>
    BY <1>2 DEF FrontEnd
  <2>2. CASE cmd.inline = "no"
    <3>1. /\ Len(f) = 4 /\ f[1] = "gcpp" /\ f[2] = "spin_cc1" /\ f[3] = "wgen" /\ f[4] = "be"
      <4>1. f = <<"gcpp", "spin_cc1", "wgen">> \o <<"be">>
        BY <1>1, <1>2, <2>1, <2>2, Zenon
      <4>. QED  BY ONLY <4>1
    <3>2. 3 \in 1..3 /\ f[3] \in {"wgen", "f90_fe"}
      BY <3>1
    <3>3. \A j \in 1..Len(f) : f[j] \in {"inline", "be"} => \E h \in 1..(j - 1) : f[h] \in {"wgen", "f90_fe"}
      BY <3>1, <3>2
    <3>4. \A j \in 1..Len(f) :
            /\ f[j] = "spin_cc1" => j > 1 /\ f[j - 1] = "gcpp"
            /\ f[j] = "wgen" => j > 1 /\ f[j - 1] = "spin_cc1"
            /\ f[j] # "gas" /\ f[j] # "inline"
      BY SMTT(30), <3>1
    <3>5. \A j \in 1..Len(f) : \A h \in 1..j : f[h] # "inline"
      BY <3>1
    <3>6. FedInOrder(f, kind)
      BY <3>3, <3>4, <3>5, <2>2, Zenon DEF FedInOrder
    <3>. QED  BY <3>1, <3>6
  <2>3. CASE cmd.inline # "no"
    <3>1. /\ Len(f) = 5 /\ f[1] = "gcpp" /\ f[2] = "spin_cc1" /\ f[3] = "wgen"
          /\ f[4] = "inline" /\ f[5] = "be"
      <4>1. f = <<"gcpp", "spin_cc1", "wgen">> \o <<"inline", "be">>
        BY <1>1, <1>2, <2>1, <2>3, Zenon
      <4>. QED  BY ONLY <4>1
    <3>2. ASSUME NEW j \in 1..Len(f)
          PROVE  /\ f[j] = "spin_cc1" => j > 1 /\ f[j - 1] = "gcpp"
                 /\ f[j] = "wgen" => j > 1 /\ f[j - 1] = "spin_cc1" /\ \A h \in 1..j : f[h] # "inline"
                 /\ f[j] \in {"inline", "be"} => \E h \in 1..(j - 1) : f[h] \in {"wgen", "f90_fe"}
                 /\ f[j] = "be" => j > 1 /\ f[j - 1] = "inline"
                 /\ f[j] # "gas"
      <4>1. CASE j <= 3
        BY SMTT(30), <3>1, <4>1
      <4>2. CASE j > 3
        <5>1. 3 \in 1..(j - 1) /\ f[3] \in {"wgen", "f90_fe"}
          BY <3>1, <4>2
        <5>2. j \in {4, 5}
          BY <3>1, <4>2
        <5>. QED  BY SMTT(30), <3>1, <5>1, <5>2
      <4>. QED  BY <4>1, <4>2
    <3>3. FedInOrder(f, kind)
      BY <3>2, Zenon DEF FedInOrder
    <3>. QED  BY <3>1, <3>3
  <2>. QED  BY <2>2, <2>3
<1>3. CASE kind = "f90" /\ cmd.listing
  <2>1. FrontEnd(kind) = <<"f90_fe", "lister">>
    BY <1>3 DEF FrontEnd
  <2>2. CASE cmd.inline = "no"
    <3>1. Len(f) = 3 /\ f[1] = "f90_fe" /\ f[2] = "lister" /\ f[3] = "be"
      <4>1. f = <<"f90_fe", "lister">> \o <<"be">>
        BY <1>1, <1>3, <2>1, <2>2, Zenon
      <4>. QED  BY ONLY <4>1
    <3>. QED  BY <3>1, <2>2 DEF FedInOrder
  <2>3. CASE cmd.inline # "no"
    <3>1. Len(f) = 4 /\ f[1] = "f90_fe" /\ f[2] = "lister" /\ f[3] = "inline" /\ f[4] = "be"
      <4>1. f = <<"f90_fe", "lister">> \o <<"inline", "be">>
        BY <1>1, <1>3, <2>1, <2>3, Zenon
      <4>. QED  BY ONLY <4>1
    <3>. QED  BY SMTT(30), <3>1, <2>3 DEF FedInOrder
  <2>. QED  BY <2>2, <2>3
<1>4. CASE kind = "f90" /\ ~ cmd.listing
  <2>1. FrontEnd(kind) = <<"f90_fe">>
    BY <1>4 DEF FrontEnd
  <2>2. CASE cmd.inline = "no"
    <3>1. Len(f) = 2 /\ f[1] = "f90_fe" /\ f[2] = "be"
      <4>1. f = <<"f90_fe">> \o <<"be">>
        BY <1>1, <1>4, <2>1, <2>2
      <4>. QED  BY ONLY <4>1
    <3>. QED  BY <3>1, <2>2 DEF FedInOrder
  <2>3. CASE cmd.inline # "no"
    <3>1. Len(f) = 3 /\ f[1] = "f90_fe" /\ f[2] = "inline" /\ f[3] = "be"
      <4>1. f = <<"f90_fe">> \o <<"inline", "be">>
        BY <1>1, <1>4, <2>1, <2>3, Zenon
      <4>. QED  BY ONLY <4>1
    <3>. QED  BY <3>1, <2>3 DEF FedInOrder
  <2>. QED  BY <2>2, <2>3
<1>5. CASE kind = "s"
  <2>1. FrontEnd(kind) = <<>>
    BY <1>5 DEF FrontEnd
  <2>2. Len(f) = 0
    BY <1>1, <1>5, <2>1
  <2>. QED  BY <2>2, <1>5 DEF FedInOrder
<1>. QED  BY <1>2, <1>3, <1>4, <1>5 DEF Kinds

(* Assembling and linking behind the back end. *)
LEMMA BackIsFed ==
  ASSUME NEW f \in Seq(Phases), NEW kind, FedInOrder(f, kind),
         kind # "s" => Len(f) > 0 /\ f[Len(f)] = "be",
         NEW b \in {<<>>, <<"gas">>, <<"gas", "ld">>}, cmd.last = "be" => b = <<>>
  PROVE  FedInOrder(f \o b, kind)
<1>1. b \in Seq(Phases) /\ Len(b) \in Nat /\ Len(f) \in Nat
  <2>1. "gas" \in Phases /\ "ld" \in Phases
    BY DEF Phases
  <2>2. <<>> \in Seq(Phases) /\ <<"gas">> \in Seq(Phases) /\ <<"gas", "ld">> \in Seq(Phases)
    BY <2>1
  <2>3. b \in Seq(Phases)
    BY <2>2, Zenon
  <2>. QED  BY <2>3
<1>2. f \o b \in Seq(Phases) /\ Len(f \o b) = Len(f) + Len(b)
  BY <1>1, ConcatProperties
<1>3. \A j \in 1..Len(f) : (f \o b)[j] = f[j]
  BY <1>1, ConcatProperties
<1>4. \A j \in 1..Len(b) : (f \o b)[Len(f) + j] = b[j]
  BY <1>1
<1>5. \A j \in 1..Len(b) : /\ j = 1 => b[j] = "gas" /\ cmd.last # "be"
                           /\ j # 1 => b[j] = "ld"
  OBVIOUS
<1>6. ASSUME NEW j \in 1..Len(f \o b), j > Len(f)
      PROVE  /\ (f \o b)[j] \in {"gas", "ld"}
             /\ (f \o b)[j] = "gas" => j = Len(f) + 1 /\ cmd.last # "be"
  <2>1. PICK h \in 1..Len(b) : j = Len(f) + h
    BY <1>1, <1>2, <1>6
  <2>. QED  BY <1>1, <1>4, <1>5, <2>1
<1>7. ASSUME NEW j \in 1..Len(f \o b), j <= Len(f)
      PROVE  /\ j \in 1..Len(f) /\ (f \o b)[j] = f[j] /\ (j > 1 => (f \o b)[j - 1] = f[j - 1])
             /\ \A h \in 1..j : (f \o b)[h] = f[h]
  BY <1>1, <1>3, <1>7
<1>8. \A j \in 1..Len(f \o b) : j = Len(f) + 1 /\ kind # "s" => j > 1 /\ (f \o b)[j - 1] = "be"
  BY <1>1, <1>3
<1>9. ASSUME NEW j \in 1..Len(f \o b)
      PROVE  LET o == f \o b IN
    /\ o[j] = "spin_cc1" => j > 1 /\ o[j - 1] = "gcpp"
    /\ o[j] = "wgen" => j > 1 /\ o[j - 1] = "spin_cc1" /\ \A h \in 1..j : o[h] # "inline"
    /\ o[j] \in {"inline", "be"} => \E h \in 1..(j - 1) : o[h] \in {"wgen", "f90_fe"}
    /\ o[j] = "be" /\ cmd.inline # "no" => j > 1 /\ o[j - 1] = "inline"
    /\ o[j] = "gas" /\ kind # "s" => j > 1 /\ o[j - 1] = "be" /\ cmd.last # "be"
  <2>1. CASE j > Len(f)
    BY <1>6, <1>8, <2>1
  <2>2. CASE j <= Len(f)
    <3>1. \A h \in 1..(j - 1) : (f \o b)[h] = f[h]
      BY <1>1, <1>7, <2>2
    <3>. QED  BY <1>7, <3>1, <2>2 DEF FedInOrder
  <2>. QED  BY SMTT(30), <2>1, <2>2, <1>1
<1>. QED  BY SMTT(30), <1>9 DEF FedInOrder

(* determine_phase_order puts every phase behind the one it reads from. *)
LEMMA OrderIsFed ==
  ASSUME cmd \in CommandLines, NEW kind \in Kinds
  PROVE  FedInOrder(PhaseOrder(kind, "undefined"), kind)
<1>. DEFINE f == FrontEnd(kind) \o Middle(kind, "undefined")
            b == BackEnd(LastPhase)
<1>1. b \in {<<>>, <<"gas">>, <<"gas", "ld">>} /\ (cmd.last = "be" => b = <<>>)
  <2>1. BackEnd("be") = <<>> /\ BackEnd("as") = <<"gas">> /\ BackEnd("ld") = <<"gas", "ld">>
    BY DEF BackEnd
  <2>. QED  BY <2>1, CommandLineFacts DEF LastPhase
<1>2. f \in Seq(Phases)
  BY FrontEndFacts, RestFacts, AppendRest
<1>3. FedInOrder(f, kind) /\ (kind # "s" => Len(f) > 0 /\ f[Len(f)] = "be")
  BY FrontIsFed, Zenon
<1>. HIDE DEF f, b
<1>4. FedInOrder(f \o b, kind)
  BY <1>1, <1>2, <1>3, BackIsFed, Zenon
<1>. QED  BY <1>4 DEF f, b, PhaseOrder

(* The name of a file with a suffix, while all files are of one source. *)
LEMMA NameIsOwn ==
  ASSUME temp_files \subseteq (Suffixes \cup {"T"}) \X {i}, NEW s
  PROVE  /\ IsNamed(s) <=> <<s, i>> \in temp_files
         /\ IsNamed(s) => NameOf(s) = <<s, i>>
<1>1. \A f \in temp_files : f = <<f[1], i>>
  OBVIOUS
<1>2. IsNamed(s) <=> <<s, i>> \in temp_files
  BY <1>1 DEF IsNamed
<1>3. IsNamed(s) => NameOf(s) \in temp_files /\ NameOf(s)[1] = s
  BY Zenon DEF IsNamed, NameOf
<1>. QED  BY <1>1, <1>2, <1>3

(* What the earlier phases of the source at work have written. *)
HandedOver ==
  k <= Len(order) /\ i \notin failed =>
    \A j \in 1..(k - 1) :
      Output(order[j]) \in Suffixes /\ ~ Skipped(order[j]) =>
        /\ <<Output(order[j]), i>> \in temp_files
        /\ wrote[<<Output(order[j]), i>>] = i

(* The temporary files of a source stay its own and keep what was written. *)
LEMMA HandOverStep ==
  ASSUME DriverInv, Next, ~ OpenFails
  PROVE  HandOverInv'
<1>0. /\ cmd \in CommandLines /\ N \in Nat /\ i \in 0..N /\ order \in Seq(Phases)
      /\ k \in 1..(Len(order) + 1) /\ N > 0 /\ Len(order) \in Nat
      /\ cmd.inline \in {"undefined", "no", "yes"}
      /\ run_inline \in {"undefined", "no", "yes"}
      /\ pc \in {"options", "next", "phase", "child", "ended"}
      /\ HandOverInv /\ FileInv /\ ErrorInv /\ RetryInv
  BY CommandLineFacts DEF DriverInv, TypeOK
<1>a. wrote \in [(Suffixes \cup {"o"}) \X (1..N) -> 0..N]
  BY <1>0, Zenon DEF HandOverInv
<1>1. CASE ParseArguments \/ RejectArguments
  BY <1>0, <1>1, ZenonT(30) DEF ParseArguments, RejectArguments, ReserveObjects, DoExit, HandOverInv, N
<1>2. CASE SkipMissing
  BY SMTT(30), <1>0, <1>2 DEF SkipMissing, InlineOfNextSource, files, HandOverInv, N
<1>3. CASE StartSource
  <2>1. cmd.files[i + 1] \in Kinds
    BY SMTT(30), <1>0, <1>3, CommandLineFacts DEF StartSource
  <2>2. FedInOrder(order', cmd.files[i + 1])
    BY <1>0, <1>3, <2>1, OrderIsFed, SMTT(20) DEF StartSource, InlineOfNextSource
  <2>3. FedInOrder(order, Source)'
    BY <1>3, <2>2, SMTT(20) DEF StartSource, FedInOrder, Source
  <2>4. opened = None /\ temp_files = {}
    BY <1>0, <1>3 DEF StartSource, FileInv, HandOverInv
  <2>. QED  BY <1>0, <1>3, <2>3, <2>4, SMTT(20) DEF StartSource, InlineOfNextSource, files, HandOverInv, N
<1>4. CASE EndWithErrors \/ EndWithoutLink
  BY <1>0, <1>4, ZenonT(30) DEF EndWithErrors, EndWithoutLink, CleanupAll, DoExit, HandOverInv, N
<1>5. CASE StartLink
  BY <1>0, <1>5, SMTT(20) DEF StartLink, files, HandOverInv, N
<1>6. CASE SkipInliner
  <2>1. /\ pc = "phase" /\ pc' = "phase" /\ k' = k + 1 /\ Skipped(order[k])
        /\ UNCHANGED <<cmd, i, order, run_inline, files, failed, linked>>
    BY <1>6, SMTT(20) DEF SkipInliner, ghosts, Phase
  <2>2. ~ linked => HandedOver'
    <3>1. SUFFICES ASSUME ~ linked, k + 1 <= Len(order), i \notin failed, NEW j \in 1..k,
                          Output(order[j]) \in Suffixes, ~ Skipped(order[j])
                   PROVE  /\ <<Output(order[j]), i>> \in temp_files
                          /\ wrote[<<Output(order[j]), i>>] = i
      <4>1. k' - 1 = k /\ k' = k + 1 /\ order' = order
        <5>1. k \in Int
          BY <1>0
        <5>2. k' = k + 1 /\ order' = order
          BY <2>1
        <5>. QED  BY <5>1, <5>2
      <4>2. \A p : Output(p)' = Output(p) /\ (Skipped(p)' <=> Skipped(p))
        BY <2>1, Zenon DEF Skipped, Output
      <4>. QED  BY ZenonT(30), <2>1, <4>1, <4>2 DEF HandedOver, files
    <3>2. j \in 1..(k - 1) /\ k <= Len(order)
      BY <1>0, <2>1, <3>1
    <3>. QED  BY <1>0, <2>1, <3>1, <3>2, ZenonT(30) DEF HandOverInv
  <2>. QED  BY <1>0, <2>1, <2>2 DEF HandOverInv, HandedOver, FedInOrder, Source, files, N
<1>7. CASE OpenTemp
  <2>1. PICK s \in Unnamed(Phase) :
          /\ opened' = <<s, i>> /\ wrote' = [wrote EXCEPT ![<<s, i>>] = 0]
    BY <1>7, Zenon DEF OpenTemp, Opening
  <2>2. /\ pc = "phase" /\ pc' = "phase" /\ i > 0
        /\ UNCHANGED <<cmd, i, order, k, run_inline, temp_files, failed, linked>>
    BY <1>0, <1>7 DEF OpenTemp, Opening, ErrorInv, AtPhase, ghosts
  <2>3. s \in Suffixes /\ ~ IsNamed(s)
    BY DEF Unnamed
  <2>4. wrote' \in [(Suffixes \cup {"o"}) \X (1..N) -> 0..N]
    BY <1>0, <1>a, <2>1, <2>2, <2>3
  <2>5. <<s, i>> \notin temp_files
    <3>1. <<s, i>>[1] = s
      OBVIOUS
    <3>. QED  BY <2>3, <3>1, Zenon DEF IsNamed
  <2>6. ~ linked => HandedOver'
    <3>1. SUFFICES ASSUME ~ linked, k <= Len(order), i \notin failed, NEW j \in 1..(k - 1),
                          Output(order[j]) \in Suffixes, ~ Skipped(order[j])
                   PROVE  /\ <<Output(order[j]), i>> \in temp_files
                          /\ wrote'[<<Output(order[j]), i>>] = i
      BY <1>0, <2>2, ZenonT(30) DEF HandedOver, Skipped, Output
    <3>2. <<Output(order[j]), i>> \in temp_files /\ wrote[<<Output(order[j]), i>>] = i
      BY ZenonT(30), <1>0, <2>2, <3>1 DEF HandOverInv
    <3>3. <<Output(order[j]), i>> # <<s, i>> /\ <<Output(order[j]), i>> \in DOMAIN wrote
      BY <1>0, <2>2, <2>5, <3>1, <3>2 DEF HandOverInv
    <3>. QED  BY <2>1, <3>2, <3>3
  <2>. QED  BY <1>0, <2>1, <2>2, <2>3, <2>4, <2>6, ZenonT(30) DEF HandOverInv, HandedOver, FedInOrder, Source, N
<1>8. CASE ListTemp
  <2>1. /\ pc = "phase" /\ pc' = "phase" /\ opened # None /\ temp_files' = temp_files \cup {opened}
        /\ opened' = None /\ UNCHANGED <<cmd, i, order, k, run_inline, wrote, failed, linked>>
    BY <1>8 DEF ListTemp, ghosts
  <2>2. ~ linked => HandedOver'
    BY <1>0, <2>1, ZenonT(30) DEF HandOverInv, HandedOver, Skipped, Output
  <2>3. ~ linked => temp_files' \subseteq (Suffixes \cup {"T"}) \X {i}
    <3>1. ~ linked => opened \in Suffixes \X {i} /\ temp_files \subseteq (Suffixes \cup {"T"}) \X {i}
      BY <1>0, <2>1, Zenon DEF HandOverInv
    <3>2. Suffixes \X {i} \subseteq (Suffixes \cup {"T"}) \X {i}
      OBVIOUS
    <3>. QED  BY <2>1, <3>1, <3>2
  <2>. QED  BY <1>0, <2>1, <2>2, <2>3, Zenon DEF HandOverInv, HandedOver, FedInOrder, Source, N
<1>9. CASE StartChild
  <2>1. /\ pc = "phase" /\ pc' = "child" /\ Unnamed(Phase) = {} /\ opened = None
        /\ temp_files' = IF Phase = "lister" THEN temp_files \cup {CifFile(i)} ELSE temp_files
        /\ UNCHANGED <<cmd, i, order, k, run_inline, wrote, opened, failed, linked>>
    BY <1>9 DEF StartChild, ghosts
  <2>2. temp_files \subseteq temp_files' /\ temp_files' \subseteq temp_files \cup {<<"T", i>>}
    BY <2>1 DEF CifFile
  <2>3. ~ linked => HandedOver'
    BY <1>0, <2>1, <2>2, Zenon DEF HandOverInv, HandedOver, Skipped, Output
  <2>4. Unnamed(Phase)' = {}
    BY <2>1, <2>2, ZenonT(30) DEF Unnamed, Phase, Input, Output, PostFePhase, Source, IsNamed
  <2>5. ~ linked => temp_files' \subseteq (Suffixes \cup {"T"}) \X {i}
    <3>1. ~ linked => temp_files \subseteq (Suffixes \cup {"T"}) \X {i}
      BY <1>0, <2>1, Zenon DEF HandOverInv
    <3>2. <<"T", i>> \in (Suffixes \cup {"T"}) \X {i}
      OBVIOUS
    <3>. QED  BY <2>2, <3>1, <3>2
  <2>. QED  BY <1>0, <2>1, <2>3, <2>4, <2>5, ZenonT(30) DEF HandOverInv, HandedOver, FedInOrder, Source, N
<1>10. CASE EndCompile
  <2>1. /\ pc = "phase" /\ pc' \in {"next", "ended"}
        /\ UNCHANGED <<cmd, i, wrote, run_inline>>
        /\ pc' = "next" => ~ linked /\ (temp_files' = {} \/ ~ N > 1)
    <3>1. CASE pc' = "next" /\ ~ linked /\ (IF multiple_source_files THEN Cleanup ELSE UNCHANGED files)
      BY <1>10, <3>1 DEF EndCompile, Cleanup, files, multiple_source_files
    <3>2. CASE (DoExit("done") /\ CleanupAll) \/ (DoExit("stdin") /\ Cleanup)
      BY <1>10, <3>2 DEF EndCompile, Cleanup, CleanupAll, DoExit
    <3>3. \/ DoExit("done") /\ CleanupAll
          \/ DoExit("stdin") /\ Cleanup
          \/ pc' = "next" /\ ~ linked /\ (IF multiple_source_files THEN Cleanup ELSE UNCHANGED files)
      BY <1>10 DEF EndCompile
    <3>. QED  BY <3>1, <3>2, <3>3
  <2>2. ~ linked => i > 0
    BY <1>0, <2>1, Zenon DEF HandOverInv
  <2>3. pc' = "next" /\ i < N => temp_files' = {}
    BY <1>0, <2>1, <2>2
  <2>4. /\ wrote \in [(Suffixes \cup {"o"}) \X (1..N) -> 0..N]
        /\ cmd.inline # "undefined" => run_inline \in {"undefined", cmd.inline}
    BY <1>0, Zenon DEF HandOverInv
  <2>. QED  BY <2>1, <2>3, <2>4 DEF HandOverInv, N
<1>11. CASE \E st \in Statuses : ChildExits(st)
  <2>1. PICK st \in Statuses : ChildExits(st)
    BY SMTT(30), <1>11
  <2>2. /\ pc = "child" /\ k <= Len(order) /\ i > 0
        /\ UNCHANGED <<cmd, i, order, temp_files, opened, linked>>
        /\ failed \subseteq failed' /\ (Fails(Phase, st) => i \in failed')
        /\ wrote' = [f \in DOMAIN wrote |->
                      IF Succeeds(st) /\ f \in Written(Phase) THEN i ELSE wrote[f]]
    BY <1>0, <2>1 DEF ChildExits, RetryInv, ErrorInv, AtPhase
  <2>3. PICK s \in Statuses :
          /\ HandleStatus(Phase, s)
          /\ Succeeds(s) /\ ~ Succeeds(st) => i \in failed'
    <3>1. CASE Phase = "f90_fe" /\ cmd.listing
      <4>1. HandleStatus(Phase, RC_OKAY)
        BY <2>1, <3>1 DEF ChildExits
      <4>2. ~ Succeeds(st) => i \in failed'
        BY <2>2, <3>1 DEF Fails, Retries
      <4>. QED  BY <4>1, <4>2 DEF Statuses
    <3>2. CASE Phase = "lister"
      <4>1. HandleStatus(Phase, ListedStatus(st))
        BY <2>1, <3>2 DEF ChildExits
      <4>2. ~ Succeeds(st) => ListedStatus(st) = st
        BY DEF Succeeds, ListedStatus
      <4>3. ListedStatus(st) \in Statuses
        BY <1>0 DEF ListedStatus, DriverInv, TypeOK
      <4>. QED  BY <4>1, <4>2, <4>3
    <3>3. CASE Phase # "lister" /\ ~ (Phase = "f90_fe" /\ cmd.listing)
      BY <2>1, <3>3 DEF ChildExits
    <3>. QED  BY <3>1, <3>2, <3>3
  <2>4. wrote' \in [(Suffixes \cup {"o"}) \X (1..N) -> 0..N]
    BY <1>0, <2>2, Zenon DEF HandOverInv
  <2>5. /\ cmd.inline # "undefined" => run_inline' \in {"undefined", cmd.inline}
        /\ pc' \in {"phase", "child"}
    BY <1>0, <2>2, <2>3, Zenon DEF HandOverInv, HandleStatus, InlineRequest
  <2>6. CASE linked
    BY <1>0, <2>2, <2>4, <2>5, <2>6, Zenon DEF HandOverInv, N
  <2>7. CASE ~ linked
    <3>1. /\ temp_files \subseteq (Suffixes \cup {"T"}) \X {i} /\ Unnamed(Phase) = {}
          /\ FedInOrder(order, Source) /\ opened = None
      BY <1>0, <2>2, <2>7, ZenonT(30) DEF HandOverInv, FileInv
    <3>2. FedInOrder(order, Source)'
      BY <2>2, <3>1 DEF FedInOrder, Source
    <3>3. pc' = "child" => Unnamed(Phase)' = {}
      <4>1. pc' = "child" => UNCHANGED <<run_inline, k>>
        BY <2>3 DEF HandleStatus
      <4>. QED  BY <2>2, <3>1, <4>1, ZenonT(30) DEF Unnamed, Phase, Input, Output, PostFePhase, Source, IsNamed
    <3>4. HandedOver'
      <4>1. SUFFICES ASSUME k' <= Len(order), i \notin failed', NEW j \in 1..(k' - 1),
                            Output(order[j]) \in Suffixes,
                            ~ (order[j] = "inline" /\ run_inline' = "no")
                     PROVE  /\ <<Output(order[j]), i>> \in temp_files
                            /\ wrote'[<<Output(order[j]), i>>] = i
        <5>1. \A p : Output(p)' = Output(p)
          BY <2>2, Zenon DEF Output
        <5>. QED  BY <2>2, <5>1, Zenon DEF HandedOver, Skipped
      <4>2. i \notin failed
        BY <2>2, <4>1, SMTT(20)
      <4>3. CASE j < k
        <5>1. j \in 1..(k - 1) /\ k \in 1..Len(order)
          BY <1>0, <2>2, <4>1, <4>3
        <5>2. ~ Skipped(order[j])
          <6>1. SUFFICES ASSUME order[j] = "inline", run_inline = "no", run_inline' # "no"
                         PROVE  FALSE
            BY <4>1 DEF Skipped
          <6>2. cmd.inline = "undefined" /\ Phase = "wgen"
            BY <1>0, <2>3, <6>1, Zenon DEF HandleStatus, InlineRequest, HandOverInv
          <6>3. \A h \in 1..k : order[h] # "inline"
            BY <3>1, <5>1, <6>2 DEF FedInOrder, Phase
          <6>. QED  BY <1>0, <5>1, <6>1, <6>3
        <5>3. <<Output(order[j]), i>> \in temp_files /\ wrote[<<Output(order[j]), i>>] = i
          BY <1>0, <2>2, <2>7, <4>1, <4>2, <5>1, <5>2, Zenon DEF HandOverInv
        <5>4. <<Output(order[j]), i>> \in DOMAIN wrote
          <6>1. DOMAIN wrote = (Suffixes \cup {"o"}) \X (1..N) /\ i \in 1..N
            BY SMTT(30), <1>0, <1>a, <2>2
          <6>. QED  BY SMTT(30), <4>1, <6>1
        <5>. QED  BY <2>2, <5>3, <5>4
      <4>4. CASE j >= k
        <5>1. j = k /\ Succeeds(s) /\ order[j] = Phase
          <6>1. \/ Succeeds(s) /\ k' = k + 1
                \/ k' \in {k, Len(order) + 1}
            BY <2>3 DEF HandleStatus
          <6>. QED  BY <1>0, <2>2, <4>1, <4>4, <6>1 DEF Phase
        <5>2. Succeeds(st)
          BY <2>3, <4>1, <5>1
        <5>3. IsNamed(Output(Phase))
          BY <3>1, <4>1, <5>1 DEF Unnamed
        <5>4. <<Output(Phase), i>> \in temp_files /\ NameOf(Output(Phase)) = <<Output(Phase), i>>
          BY SMTT(30), <3>1, <5>3, NameIsOwn
        <5>5. <<Output(Phase), i>> \in Written(Phase)
          BY <4>1, <5>1, <5>4 DEF Written
        <5>6. <<Output(Phase), i>> \in DOMAIN wrote
          <6>1. DOMAIN wrote = (Suffixes \cup {"o"}) \X (1..N) /\ i \in 1..N
            BY <1>0, <1>a, <2>2
          <6>. QED  BY <4>1, <5>1, <6>1
        <5>. QED  BY SMTT(30), <2>2, <5>1, <5>2, <5>4, <5>5, <5>6
      <4>. QED  BY <1>0, <4>1, <4>3, <4>4
    <3>. QED  BY <1>0, <2>2, <2>4, <2>5, <2>7, <3>1, <3>2, <3>3, <3>4, Zenon DEF HandOverInv, HandedOver, N
  <2>. QED  BY <2>6, <2>7
<1>12. CASE ChildDies \/ Handler
  BY <1>0, <1>12, Zenon DEF ChildDies, Handler, Cleanup, DoExit, HandOverInv, N
<1>13. CASE Ended
  BY <1>0, <1>13, Zenon DEF Ended, vars, files, HandOverInv, N
<1>. QED
  BY <1>1, <1>2, <1>3, <1>4, <1>5, <1>6, <1>7, <1>8, <1>9, <1>10, <1>11, <1>12, <1>13
  DEF Next, Main

(* The file a child reads was written for its source. *)
LEMMA InputWritten ==
  ASSUME DriverInv
  PROVE  InputIsOwn
<1>1. SUFFICES ASSUME pc = "child", Input(Phase) # ""
               PROVE  wrote[NameOf(Input(Phase))] = i
  BY Zenon DEF InputIsOwn
<1>2. /\ cmd \in CommandLines /\ order \in Seq(Phases) /\ k \in 1..Len(order)
      /\ run_inline \in {"undefined", "no", "yes"} /\ Len(order) \in Nat
      /\ HandOverInv /\ k <= Len(order)
  <2>1. TypeOK /\ RetryInv /\ HandOverInv
    BY DEF DriverInv
  <2>2. /\ cmd \in CommandLines /\ order \in Seq(Phases) /\ k \in 1..(Len(order) + 1)
        /\ run_inline \in {"undefined", "no", "yes"}
    BY <2>1 DEF TypeOK
  <2>3. k <= Len(order)
    BY <1>1, <2>1, Zenon DEF RetryInv
  <2>. QED  BY <2>1, <2>2, <2>3
<1>3. ~ linked /\ i \notin failed
  <2>1. ~ linked
    BY <1>1, <1>2 DEF DriverInv, TypeOK, Input, Phase
  <2>2. Phase # "lister"
    BY <1>1 DEF Input
  <2>3. AtPhase /\ ~ AtLister
    BY <1>1, <1>2, <2>2, Zenon DEF AtPhase, AtLister
  <2>. QED  BY <1>1, <2>1, <2>3, Zenon DEF DriverInv, ErrorInv
<1>4. /\ FedInOrder(order, Source) /\ temp_files \subseteq (Suffixes \cup {"T"}) \X {i}
      /\ \A j \in 1..(k - 1) : Output(order[j]) \in Suffixes /\ ~ Skipped(order[j]) =>
           /\ <<Output(order[j]), i>> \in temp_files
           /\ wrote[<<Output(order[j]), i>>] = i
  BY <1>1, <1>2, <1>3, Zenon DEF HandOverInv
<1>5. PICK j \in 1..(k - 1) : Output(order[j]) = Input(Phase) /\ ~ Skipped(order[j])
  <2>1. CASE Phase = "spin_cc1"
    <3>1. k - 1 \in 1..(k - 1) /\ order[k - 1] = "gcpp"
      BY <1>2, <1>4, <2>1 DEF FedInOrder, Phase
    <3>. QED  BY SMTT(30), <2>1, <3>1 DEF Output, Input, Skipped
  <2>2. CASE Phase = "wgen"
    <3>1. k - 1 \in 1..(k - 1) /\ order[k - 1] = "spin_cc1"
      BY <1>2, <1>4, <2>2 DEF FedInOrder, Phase
    <3>. QED  BY <2>2, <3>1 DEF Output, Input, Skipped
  <2>3. CASE Phase = "inline" \/ (Phase = "be" /\ PostFePhase(run_inline) # "inline")
    <3>1. PICK h \in 1..(k - 1) : order[h] \in {"wgen", "f90_fe"}
      BY SMTT(30), <1>2, <1>4, <2>3 DEF FedInOrder, Phase
    <3>. QED  BY <2>3, <3>1, Zenon DEF Output, Input, Skipped
  <2>4. CASE Phase = "be" /\ PostFePhase(run_inline) = "inline"
    <3>1. cmd.inline # "no" /\ run_inline # "no"
      BY SMTT(30), <1>2, <2>4 DEF PostFePhase, HandOverInv
    <3>2. k - 1 \in 1..(k - 1) /\ order[k - 1] = "inline"
      BY <1>2, <1>4, <2>4, <3>1 DEF FedInOrder, Phase
    <3>. QED  BY <2>4, <3>1, <3>2 DEF Output, Input, Skipped
  <2>5. CASE Phase = "gas"
    <3>1. Source # "s"
      BY SMTT(30), <1>1, <2>5 DEF Input
    <3>2. k - 1 \in 1..(k - 1) /\ order[k - 1] = "be" /\ cmd.last # "be"
      BY <1>2, <1>4, <2>5, <3>1 DEF FedInOrder, Phase
    <3>. QED  BY <2>5, <3>1, <3>2 DEF Output, Input, Skipped
  <2>. QED  BY <1>1, <2>1, <2>2, <2>3, <2>4, <2>5, Zenon DEF Input
<1>6. Output(order[j]) \in Suffixes
  BY <1>1, <1>5, ZenonT(30) DEF Output, Suffixes
<1>7. <<Input(Phase), i>> \in temp_files /\ wrote[<<Input(Phase), i>>] = i
  BY <1>4, <1>5, <1>6
<1>. QED  BY <1>4, <1>7, NameIsOwn, Zenon

(* For every set of command lines: the driver's bookkeeping is right; the  *)
(* exit code tells whether a child failed; and no temporary file outlives  *)
(* a driver that came to its end.  This is the inductive invariant that    *)
(* the theorems about the single properties rest on.                       *)
THEOREM DriverIsSound ==
  Spec => [](DriverInv /\ ExitTells /\ NothingLeft)
<1>. DEFINE Inv == DriverInv /\ ExitTells /\ NothingLeft
<1>1. Init => Inv
  BY InitInv
<1>2. Inv /\ [Next]_vars => Inv'
  <2>1. CASE Next /\ ~ OpenFails
    BY <2>1, TypeStep, RetryStep, FileStep, ErrorStep, HandOverStep DEF DriverInv
  <2>2. CASE UNCHANGED vars
    <3>. USE <2>2 DEF vars, errs, files, ghosts, N, AtPhase, AtLister, Phase, HasErrors
    <3>1. TypeOK /\ ListerFollows(order) => TypeOK' /\ ListerFollows(order)'
      BY DEF TypeOK, ListerFollows
    <3>2. ErrorInv /\ RetryInv => ErrorInv' /\ RetryInv'
      BY SMTT(30) DEF ErrorInv, RetryInv
    <3>3. FileInv /\ NothingLeft => FileInv' /\ NothingLeft'
      BY DEF FileInv, NothingLeft, Skipped
    <3>4. ExitTells => ExitTells'
      BY DEF ExitTells, ExitCode
    <3>5. HandOverInv => HandOverInv'
      <4>1. FedInOrder(order, Source)' <=> FedInOrder(order, Source)
        BY Zenon DEF FedInOrder, Source
      <4>2. Unnamed(Phase)' = Unnamed(Phase)
        BY DEF Unnamed, Input, Output, IsNamed, PostFePhase, Source
      <4>3. HandedOver' <=> HandedOver
        BY DEF HandedOver, Output, Skipped
      <4>. QED  BY <4>1, <4>2, <4>3, Zenon DEF HandOverInv, HandedOver
    <3>. QED  BY SMTT(30), <3>1, <3>2, <3>3, <3>4, <3>5 DEF DriverInv
  <2>. QED  BY <2>1, <2>2 DEF OpenFails
<1>. QED  BY <1>1, <1>2, PTL DEF Spec

(* The driver's bookkeeping of errors, tries, files and what the phases    *)
(* hand over to one another is right at every step.                        *)
THEOREM BookkeepingHolds == Spec => []DriverInv
BY DriverIsSound, PTL

(* The driver exits with 0 exactly when it came to its end and no child    *)
(* failed.                                                                 *)
THEOREM ExitCodeTells == Spec => []ExitTells
BY DriverIsSound, PTL

(* An error is charged to the source it comes from, also that of a Fortran *)
(* front end which was put aside while the lister ran.                     *)
THEOREM ErrorsStayWithTheirSource == Spec => []ErrorsAreOwn
<1>1. DriverInv => ErrorsAreOwn
  BY DEF DriverInv, ErrorInv, ErrorsAreOwn, AtLister, AtPhase
<1>. QED  BY <1>1, DriverIsSound, PTL

(* Every phase reads a file that an earlier phase wrote for the same       *)
(* source, whichever of the inliner's file and the front end's the back    *)
(* end is given.                                                           *)
THEOREM PhasesReadTheirOwnInput == Spec => []InputIsOwn
<1>1. DriverInv => InputIsOwn
  BY InputWritten
<1>. QED  BY <1>1, DriverIsSound, PTL

(* No temporary file outlives a driver that came to its end, and one that  *)
(* was stopped leaves at most the objects and two files.                   *)
THEOREM TemporariesAreRemoved == Spec => []NothingLeft
BY DriverIsSound, PTL

(* A back end that ran into its limits is tried twice, and never more. *)
THEOREM BackEndIsRetriedOnce == Spec => []RetriedOnce
<1>1. DriverInv => RetriedOnce
  BY DEF DriverInv, RetryInv, TypeOK, RetriedOnce
<1>. QED  BY <1>1, DriverIsSound, PTL

-----------------------------------------------------------------------------
(***************************************************************************)
(* The memory pools: no memory is held twice.                              *)
(***************************************************************************)
CONSTANTS Pools, Cells
VARIABLE held

Pool == INSTANCE PoolSpec

(* A step that leaves every level a subset of what it was, or adds levels  *)
(* that hold nothing, keeps the levels apart.                              *)
LEMMA FewerCells ==
  ASSUME Pool!Exclusive, Pool!TypeOK, Pool!TypeOK',
         \A q \in Pools : \A l \in DOMAIN held'[q] :
           \A c \in held'[q][l] : Pool!HeldAt(q, l, c)
  PROVE  Pool!Exclusive'
<1>. SUFFICES ASSUME NEW p \in Pools, NEW q \in Pools,
                     NEW l \in DOMAIN held'[p], NEW m \in DOMAIN held'[q],
                     NEW c, c \in held'[p][l], c \in held'[q][m]
              PROVE  p = q /\ l = m
  BY DEF Pool!Exclusive
<1>. QED  BY SMTT(30) DEF Pool!Exclusive, Pool!HeldAt

(* The pools hold sets of cells. *)
LEMMA StackTypes ==
  ASSUME Pool!TypeOK, [Pool!Next]_held
  PROVE  Pool!TypeOK'
<1>1. CASE UNCHANGED held
  BY <1>1 DEF Pool!TypeOK
<1>2. ASSUME NEW p \in Pools, Pool!Initialize(p)  PROVE Pool!TypeOK'
  <2>1. <<{}>> \in Seq(SUBSET Cells)
    OBVIOUS
  <2>. QED  BY <1>2, <2>1 DEF Pool!TypeOK, Pool!Initialize
<1>3. ASSUME NEW p \in Pools, Pool!Push(p)  PROVE Pool!TypeOK'
  <2>1. Append(held[p], {}) \in Seq(SUBSET Cells)
    BY DEF Pool!TypeOK
  <2>. QED  BY <1>3, <2>1 DEF Pool!TypeOK, Pool!Push
<1>4. ASSUME NEW p \in Pools, Pool!Pop(p)  PROVE Pool!TypeOK'
  <2>1. <<{}>> \in Seq(SUBSET Cells) /\ held[p] \in Seq(SUBSET Cells)
    BY DEF Pool!TypeOK
  <2>2. Len(held[p]) # 1 => SubSeq(held[p], 1, Len(held[p]) - 1) \in Seq(SUBSET Cells)
    BY <2>1, <1>4, SubSeqProperties DEF Pool!Pop, Pool!Initialized
  <2>. QED  BY ZenonT(30), <1>4, <2>1, <2>2 DEF Pool!TypeOK, Pool!Pop
<1>5. ASSUME NEW p \in Pools, Pool!Delete(p)  PROVE Pool!TypeOK'
  <2>1. <<>> \in Seq(SUBSET Cells)
    OBVIOUS
  <2>. QED  BY <1>5, <2>1 DEF Pool!TypeOK, Pool!Delete
<1>6. ASSUME NEW p \in Pools, NEW top, Pool!Use(p, top)  PROVE Pool!TypeOK'
  <2>1. held[p] \in Seq(SUBSET Cells) /\ Len(held[p]) \in 1..Len(held[p])
    BY <1>6 DEF Pool!TypeOK, Pool!Use, Pool!Initialized
  <2>2. top \in SUBSET Cells
    BY <1>6, <2>1 DEF Pool!Use
  <2>3. [held[p] EXCEPT ![Len(held[p])] = top] \in Seq(SUBSET Cells)
    BY <2>1, <2>2
  <2>. QED  BY <1>6, <2>3 DEF Pool!TypeOK, Pool!Use
<1>. QED  BY <1>1, <1>2, <1>3, <1>4, <1>5, <1>6 DEF Pool!Next

(* No step of the pools makes two levels hold the same cell. *)
LEMMA StaysExclusive ==
  ASSUME Pool!TypeOK, Pool!Exclusive, Pool!TypeOK', [Pool!Next]_held
  PROVE  Pool!Exclusive'
<1>1. CASE UNCHANGED held
  BY <1>1 DEF Pool!Exclusive
<1>2. ASSUME NEW p \in Pools, Pool!Initialize(p) \/ Pool!Push(p) \/ Pool!Pop(p) \/ Pool!Delete(p)
      PROVE  Pool!Exclusive'
  <2>1. ASSUME NEW q \in Pools, NEW l \in DOMAIN held'[q], NEW c \in held'[q][l]
        PROVE  Pool!HeldAt(q, l, c)
    <3>1. held[q] \in Seq(SUBSET Cells)
      BY DEF Pool!TypeOK
    <3>2. CASE q # p
      BY <1>2, <2>1, <3>2 DEF Pool!Initialize, Pool!Push, Pool!Pop, Pool!Delete, Pool!TypeOK, Pool!HeldAt
    <3>3. CASE q = p /\ (Pool!Initialize(p) \/ Pool!Delete(p))
      BY <2>1, <3>3 DEF Pool!Initialize, Pool!Delete, Pool!TypeOK
    <3>4. CASE q = p /\ Pool!Push(p)
      BY <2>1, <3>1, <3>4 DEF Pool!Push, Pool!TypeOK, Pool!HeldAt
    <3>5. CASE q = p /\ Pool!Pop(p)
      BY <2>1, <3>1, <3>5 DEF Pool!Pop, Pool!TypeOK, Pool!HeldAt, Pool!Initialized
    <3>. QED  BY SMTT(30), <1>2, <3>2, <3>3, <3>4, <3>5
  <2>. QED  BY SMTT(30), <2>1, FewerCells
<1>3. ASSUME NEW p \in Pools, NEW top, Pool!Use(p, top)
      PROVE  Pool!Exclusive'
  <2>1. held[p] \in Seq(SUBSET Cells) /\ Len(held[p]) \in 1..Len(held[p])
    BY <1>3 DEF Pool!TypeOK, Pool!Use, Pool!Initialized
  <2>. DEFINE n == Len(held[p])
  <2>2. ASSUME NEW q \in Pools, NEW l \in DOMAIN held'[q]
        PROVE  /\ l \in DOMAIN held[q]
               /\ held'[q][l] = IF q = p /\ l = n THEN top ELSE held[q][l]
    BY <1>3, <2>1, <2>2 DEF Pool!Use, Pool!TypeOK
  <2>. SUFFICES ASSUME NEW q \in Pools, NEW r \in Pools,
                       NEW l \in DOMAIN held'[q], NEW m \in DOMAIN held'[r],
                       NEW c, c \in held'[q][l], c \in held'[r][m]
                PROVE  q = r /\ l = m
    BY DEF Pool!Exclusive
  <2>3. l \in DOMAIN held[q] /\ m \in DOMAIN held[r]
    BY SMTT(30), <2>2
  <2>4. CASE c \in held[p][n]
    BY <2>1, <2>2, <2>3, <2>4 DEF Pool!Exclusive
  <2>5. CASE c \notin held[p][n]
    BY <1>3, <2>2, <2>3, <2>5 DEF Pool!Exclusive, Pool!Use, Pool!HeldAt
  <2>. QED  BY <2>4, <2>5
<1>. QED  BY <1>1, <1>2, <1>3 DEF Pool!Next

(* Memory is held once: by one pool and at one level, so that a pop frees  *)
(* nothing that an object of another level or pool lives in.               *)
THEOREM HeldOnce == Pool!Spec => [](Pool!TypeOK /\ Pool!Exclusive)
<1>1. Pool!Init => Pool!TypeOK /\ Pool!Exclusive
  BY DEF Pool!Init, Pool!TypeOK, Pool!Exclusive
<1>2. Pool!TypeOK /\ Pool!Exclusive /\ [Pool!Next]_held => Pool!TypeOK' /\ Pool!Exclusive'
  BY StackTypes, StaysExclusive
<1>. QED  BY <1>1, <1>2, PTL DEF Pool!Spec
=============================================================================
