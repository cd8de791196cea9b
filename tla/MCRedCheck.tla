----------------------------- MODULE MCRedCheck ------------------------------
(* A small instance of RedCheck for TLC. *)
EXTENDS RedCheck, TLC

CONSTANTS n1, n2, o1, f1, f2

MCFileOf == [t \in Test |-> IF t = n1 THEN f1 ELSE f2]

Res(tag, typ, msg, missing) == [tag |-> tag, typ |-> typ, msg |-> msg, missing |-> missing]
Passes  == Res("pass", "none", "empty", FALSE)
Skips   == Res("skipped", "none", "empty", FALSE)
Asserts == Res("failure", "none", "assert", FALSE)
Expects == Res("failure", "none", "expect", FALSE)
Crashes == Res("failure", "exception", "exception", FALSE)
Lacks   == Res("failure", "none", "exception", TRUE)
Vague   == Res("failure", "other", "other", TRUE)
Breaks  == Res("error", "none", "exception", FALSE)
Unknown == Res("error", "none", "exception", TRUE)

\* One new test may do anything on the base; the others tell the reports apart.
MCMay == [i \in Id |->
  CASE i = n1 -> [head |-> {Passes}, base |-> {Passes, Asserts, Lacks, Vague}]
    [] i = n2 -> [head |-> {Passes, Skips}, base |-> {Expects}]
    [] i = o1 -> [head |-> {Passes, Crashes}, base |-> {Passes}]
    [] OTHER  -> [head |-> {Breaks}, base |-> {Breaks, Unknown}]]

On(s, b, p) == [setting |-> s, binary |-> b, problems |-> p]
MCMachines ==
  {On("auto", "found", {"sees processes"}), On("auto", "none", {}), On("bwrap", "found", {})}
=============================================================================
