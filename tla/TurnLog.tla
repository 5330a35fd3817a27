------------------------------ MODULE TurnLog ------------------------------
(***************************************************************************)
(* What the chat history promises: a session is opened, perhaps with a     *)
(* first message, grows by whole turns of a question and an answer, and    *)
(* disappears with everything in it.  It knows its own size.  A caller who *)
(* is told that a turn was saved is told the truth.                        *)
(***************************************************************************)
EXTENDS Naturals

CONSTANTS Sessions, Turns, SessionOf

VARIABLES status,  \* status[s]: "none", "open" or "gone"
          log,     \* log[s]: the messages of s
          size,    \* size[s]: how many they are, as s has it
          told     \* the turns whose caller was told they were saved

vars == <<status, log, size, told>>

\* A message is known by the call that wrote it and its role.
First(s) == {<<s, "user">>}
Both(t) == {<<t, "user">>, <<t, "assistant">>}

Init ==
    /\ status = [s \in Sessions |-> "none"]
    /\ log = [s \in Sessions |-> {}]
    /\ size = [s \in Sessions |-> 0]
    /\ told = {}

\* A session is opened, empty or with its first message.
Open(s) ==
    /\ status[s] = "none"
    /\ status' = [status EXCEPT ![s] = "open"]
    /\ \/ UNCHANGED <<log, size>>
       \/ log' = [log EXCEPT ![s] = First(s)] /\ size' = [size EXCEPT ![s] = 1]
    /\ UNCHANGED told

\* A turn is added once, and its caller may or may not learn of it.
Append(t) ==
    LET s == SessionOf[t] IN
    /\ status[s] = "open"
    /\ Both(t) \cap log[s] = {}
    /\ log' = [log EXCEPT ![s] = @ \cup Both(t)]
    /\ size' = [size EXCEPT ![s] = @ + 2]
    /\ told' \in {told, told \cup {t}}
    /\ UNCHANGED status

Remove(s) ==
    /\ status[s] = "open"
    /\ status' = [status EXCEPT ![s] = "gone"]
    /\ log' = [log EXCEPT ![s] = {}]
    /\ size' = [size EXCEPT ![s] = 0]
    /\ UNCHANGED told

Next == \/ \E s \in Sessions : Open(s) \/ Remove(s)
        \/ \E t \in Turns : Append(t)

Spec == Init /\ [][Next]_vars
=============================================================================
