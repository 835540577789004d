---------------------------- MODULE MCCpuStatShm ----------------------------
(* CpuStatShm on a machine of two CPUs, with floats of six bits: the sums   *)
(* 99, 173 and 210, and the busy sum 103, are rounded.                      *)
EXTENDS CpuStatShm

TwoTicks == {33, 70}

\* Rounding to the nearest, and to an even one if there are two.
SixBits ==
    [n \in 0 .. 210 |->
       LET ulp == IF n < 64 THEN 1 ELSE IF n < 128 THEN 2 ELSE 4
           down == n \div ulp
           rest == 2 * (n % ulp)
       IN  ulp * IF rest < ulp \/ (rest = ulp /\ down % 2 = 0) THEN down ELSE down + 1]
==============================================================================
