----------------------------- MODULE Workbench ------------------------------
(***************************************************************************)
(* One run may look at several components that do not interact: `tool`     *)
(* says which one a behaviour is about, and the registers are the          *)
(* variables of that component, its first in r1 and so on.                 *)
(***************************************************************************)
EXTENDS Naturals

VARIABLES tool, r1, r2, r3, r4, r5, r6, r7, r8, r9, r10,
          r11, r12, r13, r14, r15, r16, r17, r18, r19, r20

registers == <<r1, r2, r3, r4, r5, r6, r7, r8, r9, r10,
               r11, r12, r13, r14, r15, r16, r17, r18, r19, r20>>

\* The registers after the first n are not used.
Unused(n) ==
  /\ IF n < 1 THEN r1 = 0 ELSE TRUE
  /\ IF n < 2 THEN r2 = 0 ELSE TRUE
  /\ IF n < 3 THEN r3 = 0 ELSE TRUE
  /\ IF n < 4 THEN r4 = 0 ELSE TRUE
  /\ IF n < 5 THEN r5 = 0 ELSE TRUE
  /\ IF n < 6 THEN r6 = 0 ELSE TRUE
  /\ IF n < 7 THEN r7 = 0 ELSE TRUE
  /\ IF n < 8 THEN r8 = 0 ELSE TRUE
  /\ IF n < 9 THEN r9 = 0 ELSE TRUE
  /\ IF n < 10 THEN r10 = 0 ELSE TRUE
  /\ IF n < 11 THEN r11 = 0 ELSE TRUE
  /\ IF n < 12 THEN r12 = 0 ELSE TRUE
  /\ IF n < 13 THEN r13 = 0 ELSE TRUE
  /\ IF n < 14 THEN r14 = 0 ELSE TRUE
  /\ IF n < 15 THEN r15 = 0 ELSE TRUE
  /\ IF n < 16 THEN r16 = 0 ELSE TRUE
  /\ IF n < 17 THEN r17 = 0 ELSE TRUE
  /\ IF n < 18 THEN r18 = 0 ELSE TRUE
  /\ IF n < 19 THEN r19 = 0 ELSE TRUE
  /\ IF n < 20 THEN r20 = 0 ELSE TRUE

\* ... and stay as they are.
StillUnused(n) ==
  /\ IF n < 1 THEN r1' = r1 ELSE TRUE
  /\ IF n < 2 THEN r2' = r2 ELSE TRUE
  /\ IF n < 3 THEN r3' = r3 ELSE TRUE
  /\ IF n < 4 THEN r4' = r4 ELSE TRUE
  /\ IF n < 5 THEN r5' = r5 ELSE TRUE
  /\ IF n < 6 THEN r6' = r6 ELSE TRUE
  /\ IF n < 7 THEN r7' = r7 ELSE TRUE
  /\ IF n < 8 THEN r8' = r8 ELSE TRUE
  /\ IF n < 9 THEN r9' = r9 ELSE TRUE
  /\ IF n < 10 THEN r10' = r10 ELSE TRUE
  /\ IF n < 11 THEN r11' = r11 ELSE TRUE
  /\ IF n < 12 THEN r12' = r12 ELSE TRUE
  /\ IF n < 13 THEN r13' = r13 ELSE TRUE
  /\ IF n < 14 THEN r14' = r14 ELSE TRUE
  /\ IF n < 15 THEN r15' = r15 ELSE TRUE
  /\ IF n < 16 THEN r16' = r16 ELSE TRUE
  /\ IF n < 17 THEN r17' = r17 ELSE TRUE
  /\ IF n < 18 THEN r18' = r18 ELSE TRUE
  /\ IF n < 19 THEN r19' = r19 ELSE TRUE
  /\ IF n < 20 THEN r20' = r20 ELSE TRUE
=============================================================================
