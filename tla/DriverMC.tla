------------------------------ MODULE DriverMC ------------------------------
(* Command lines for Driver. *)
EXTENDS Driver

Line(fs, missing, last, inline, listing, stdin) ==
  [files |-> fs, missing |-> missing, last |-> last, inline |-> inline,
   listing |-> listing, stdin |-> stdin]

MCCommandLines ==
  { Line(<<"c">>, {}, "ld", "undefined", FALSE, FALSE),
    Line(<<"c">>, {}, "be", "yes", FALSE, FALSE),
    Line(<<"c">>, {}, "ld", "no", FALSE, TRUE),
    Line(<<"c", "c">>, {}, "ld", "undefined", FALSE, FALSE),
    Line(<<"f90", "f90">>, {}, "as", "undefined", TRUE, FALSE),
    Line(<<"s", "c", "f90">>, {}, "ld", "undefined", FALSE, FALSE),
    Line(<<"c", "c", "c">>, {}, "ld", "undefined", FALSE, FALSE),
    Line(<<"f90", "c", "f90">>, {}, "ld", "undefined", TRUE, FALSE),
    Line(<<"f90", "s", "s">>, {2}, "ld", "no", TRUE, FALSE) }
=============================================================================
