---------------------------- MODULE MCMethodCall ----------------------------
(* TLC instance of MethodCall with result records: one proxy construction *)
(* and two method calls, as model values.  The method returns a string, a *)
(* variant and an integer; consumers make up to two copies of a result.   *)
EXTENDS MethodCallResult, TLC

CONSTANTS p1, m1, m2, str, var, int

MCProxyCalls == {p1}

MCMethodCalls == {m1, m2}

MCFields == {str, var, int}

MCKind == (str :> "dup") @@ (var :> "ref") @@ (int :> "plain")
=============================================================================
