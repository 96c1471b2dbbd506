-------------------------------- MODULE Motions --------------------------------
(***************************************************************************)
(* The timed motions, the fork and the test motions of src/src/movement.cpp, *)
(* called one after the other as closely as a script allows.  A test runs    *)
(* until the middle button is pressed; a person presses it.                  *)
(*                                                                          *)
(* A tick is 50 ms.  What powers a motion sets is left out, only which it is. *)
(***************************************************************************)
EXTENDS Integers

CONSTANTS
    Times,    \* how long the timed motions are asked to last, in ticks
    MaxHold   \* bounds the ticks a finger stays on the button

ASSUME MotionsAssumption == Times \subseteq Nat /\ MaxHold \in Nat \ {0}

VARIABLES
    call,     \* the function that runs, "none" between calls
    stopped,  \* it is a test that has been stopped and waits for the finger
    clock,    \* ticks left of the Sleep it is in
    motion,   \* what the motors do
    held,     \* ticks the button has been down, counting the first; 0 when up
    obeyed    \* this press has stopped a test already

motionVars == <<call, stopped, clock, motion, held, obeyed>>

MotionOf == [fwd_time |-> {"forward"}, bck_time |-> {"backward"},
             rot_time |-> {"left", "right"},
             raise_fork |-> {"raise"}, lower_fork |-> {"lower"},
             fwd_tst |-> {"forward"}, bck_tst |-> {"backward"},
             rot_tst |-> {"left", "right"}]
Tests == {"fwd_tst", "bck_tst", "rot_tst"}
Timed == DOMAIN MotionOf \ Tests

\* The Sleep that gives time to remove the finger from the button.
FingerSleep_None(test) == 0
FingerSleep(test) == IF test = "fwd_tst" THEN 5 ELSE 4

MotionsInit ==
    /\ call = "none" /\ stopped = FALSE /\ clock = 0 /\ motion = "off"
    /\ held = 0 /\ obeyed = FALSE

Polling == call \in Tests /\ ~stopped

\* A motion begins: SetPower, and Sleep( time ) unless the button is to end it.
Begin(fn) ==
    /\ call = "none" /\ call' = fn
    /\ motion' \in MotionOf[fn]
    /\ clock' \in IF fn \in Tests THEN {0} ELSE Times
    /\ UNCHANGED <<stopped, held, obeyed>>

\* MiddlePressed() ends the loop of a test: motors off, then the Sleep.
StopTest ==
    /\ Polling /\ held > 0
    /\ stopped' = TRUE /\ motion' = "off" /\ clock' = FingerSleep(call)
    /\ obeyed' = TRUE
    /\ UNCHANGED <<call, held>>

EndTimed ==
    /\ call \in Timed /\ clock = 0
    /\ call' = "none" /\ motion' = "off"
    /\ UNCHANGED <<stopped, clock, held, obeyed>>

\* fwd_tst then logs into bot->journal, which nothing in the program sets: it
\* follows an uninitialised pointer and may not come back.
EndTest ==
    /\ stopped /\ clock = 0
    /\ call' \in {"none"} \cup (IF call = "fwd_tst" THEN {"astray"} ELSE {})
    /\ stopped' = FALSE
    /\ UNCHANGED <<clock, motion, held, obeyed>>

Press ==
    /\ held = 0 /\ held' = 1 /\ obeyed' = FALSE
    /\ UNCHANGED <<call, stopped, clock, motion>>

Release ==
    /\ held > 0 /\ held' = 0
    /\ UNCHANGED <<call, stopped, clock, motion, obeyed>>

\* Time passes when the program has nothing to do but wait, and the finger leaves
\* the button in time.
MotionsTick ==
    /\ call = "none" \/ clock > 0 \/ (Polling /\ held = 0)
    /\ held < MaxHold
    /\ clock' = IF clock > 0 THEN clock - 1 ELSE 0
    /\ held' = IF held > 0 THEN held + 1 ELSE 0
    /\ UNCHANGED <<call, stopped, motion, obeyed>>

MotionsNext ==
    \/ \E fn \in DOMAIN MotionOf : Begin(fn)
    \/ StopTest \/ EndTimed \/ EndTest \/ Press \/ Release \/ MotionsTick

-------------------------------------------------------------------------------
\* Every variable has its type, and nothing moves between two calls.
MotionsTypeOK ==
    /\ call \in DOMAIN MotionOf \cup {"none", "astray"}
    /\ stopped \in BOOLEAN /\ obeyed \in BOOLEAN /\ held \in 0..MaxHold
    /\ clock \in Nat
    /\ (call \in Timed \/ Polling) <=> (motion # "off")

\* "Give time to remove finger from button" (movement.cpp 303, 624, 945): a press
\* that has stopped one test motion never stops the next, however soon the next
\* is called.
OnePressPerTest == [][StopTest => ~obeyed]_motionVars
===============================================================================
