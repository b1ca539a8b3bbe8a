------------------------------ MODULE ScriptMap ------------------------------
(***************************************************************************)
(* What the script registry promises its clients: a map from script ids to *)
(* scripts.  A call takes effect in one instant between its start and its  *)
(* answer; a call that fails has taken effect once, or not at all.         *)
(***************************************************************************)
CONSTANTS Clients, Scripts, Contents, None  \* None is no script

Values == Contents \union {None}

(* A call that stores content under an id, or deletes the id (None).       *)
Pending(s, v, done) == [script |-> s, content |-> v, applied |-> done]
NoCall == Pending(None, None, FALSE)

VARIABLES
  map,   \* the script of each id, or None
  call   \* what each client is waiting for

vars == << map, call >>

TypeOK == /\ map \in [Scripts -> Values]
          /\ call \in [Clients -> [script: Scripts \union {None}, content: Values,
                                  applied: BOOLEAN]]

Init == /\ map = [s \in Scripts |-> None]
        /\ call = [c \in Clients |-> NoCall]

Begin(c, s, v) ==
  /\ call[c] = NoCall
  /\ call' = [call EXCEPT ![c] = Pending(s, v, FALSE)]
  /\ UNCHANGED map

Apply(c) ==
  /\ call[c] # NoCall /\ ~call[c].applied
  /\ map' = [map EXCEPT ![call[c].script] = call[c].content]
  /\ call' = [call EXCEPT ![c] = Pending(@.script, @.content, TRUE)]

End(c) ==
  /\ call[c].applied
  /\ call' = [call EXCEPT ![c] = NoCall]
  /\ UNCHANGED map

Fail(c) ==
  /\ call[c] # NoCall
  /\ call' = [call EXCEPT ![c] = NoCall]
  /\ UNCHANGED map

Next ==
  \E c \in Clients :
    \/ \E s \in Scripts, v \in Values : Begin(c, s, v)
    \/ Apply(c) \/ End(c) \/ Fail(c)

Spec == Init /\ [][Next]_vars

=============================================================================
