---------------------------- MODULE MCTimedWait -----------------------------
(***************************************************************************)
(* TimedWait for TLC.  A second is 1000 ms; the timeouts are those the     *)
(* code asks for (fmi2FreeInstance 1, read 5, getMessage 10, serverSend    *)
(* 20), and on Linux one above a second; waits start at the ends of a      *)
(* second, and on macOS of a useconds_t, which is scaled down to 3000.     *)
(***************************************************************************)
EXTENDS TimedWait

BothPlatforms == {"linux", "macos"}
OnlyLinux == {"linux"}

ShortTimeouts == {1, 5, 10, 20}
AllTimeouts ==
    [p \in Platforms |-> IF p = "macos" THEN ShortTimeouts ELSE ShortTimeouts \cup {1500}]
TestTimeouts == [p \in Platforms |-> {10}]

StartsInSecond == {0, 1, 500} \cup 975..1003
StartsAtEnds ==
    [p \in Platforms |-> StartsInSecond \cup IF p = "macos" THEN 2975..3003 ELSE {}]
=============================================================================
