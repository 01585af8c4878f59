------------------------------- MODULE MCPmp -------------------------------
(***************************************************************************)
(* A scaled memory map: CLINT 0..7, UART 8..15, kernel text 16..23, user   *)
(* text 24..31, data and heap 32..63, and a device window above.           *)
(***************************************************************************)
EXTENDS Pmp

MCConfig(regions) ==
  [i \in TaskEntry |-> IF i - 3 \in DOMAIN regions THEN regions[i - 3] ELSE NoRegion]

R(base, size, perm) == [base |-> base, size |-> size, perm |-> perm]

CodeRegion == R(24, 8, {"R", "X"})
Uart == R(8, 8, {"R", "W"})

\* idle without regions, the two tasks of kmain, and one with enough windows
\* to use entries of pmpcfg2.
MCRegions ==
  [t \in Tasks |->
     CASE t = "idle"      -> MCConfig(<<>>)
       [] t = "echo"      -> MCConfig(<<CodeRegion, R(40, 8, {"R", "W"}), Uart>>)
       [] t = "violation" -> MCConfig(<<CodeRegion, R(48, 16, {"R", "W"})>>)
       [] t = "wide"      -> MCConfig(<<CodeRegion, R(32, 8, {"R", "W"}), Uart,
                                       R(0, 8, {"R", "W"}), R(72, 8, {"R", "W"}),
                                       R(64, 16, {"R", "W"})>>)]

MCClint == {0, 4}
=============================================================================
