--------------------------- MODULE ResidentService ---------------------------
(***************************************************************************)
(* What litmoe's runtime promises its callers, with no lock, queue, thread *)
(* or task in it: one engine process at a time, one caller served at a     *)
(* time, by a process of the model it asked for, which nobody else         *)
(* replaces while it is served; and nothing is started once the gateway    *)
(* has closed.  A process may exit by itself at any time.                  *)
(***************************************************************************)
CONSTANTS Request, Proc, Model, ModelOf, Nobody, Nothing

VARIABLES
  resident,   \* the engine process that is alive, or Nothing
  client,     \* the caller being served, or Nobody
  wish,       \* the model it asked for, or Nothing
  closed      \* the gateway has shut its engine down

vars == <<resident, client, wish, closed>>

Init == resident = Nothing /\ client = Nobody /\ wish = Nothing /\ closed = FALSE

Load(p) ==
  /\ ~closed /\ client = Nobody /\ resident = Nothing
  /\ resident' = p
  /\ UNCHANGED <<client, wish, closed>>

Unload ==
  /\ client = Nobody
  /\ resident' = Nothing
  /\ UNCHANGED <<client, wish, closed>>

(* A caller is served only by a live process of the model it asked for.    *)
Serve(r, m) ==
  /\ ~closed /\ client = Nobody
  /\ resident # Nothing /\ ModelOf[resident] = m
  /\ client' = r /\ wish' = m
  /\ UNCHANGED <<resident, closed>>

(* The service ends; its process may have to be stopped with it.           *)
EndService ==
  /\ client # Nobody
  /\ client' = Nobody /\ wish' = Nothing
  /\ resident' \in {resident, Nothing}
  /\ UNCHANGED closed

Exit == resident' = Nothing /\ UNCHANGED <<client, wish, closed>>

(* The gateway closes; the stop of the last process may have failed.       *)
Close ==
  /\ client = Nobody
  /\ closed' = TRUE
  /\ resident' \in {resident, Nothing}
  /\ UNCHANGED <<client, wish>>

Next ==
  \/ \E p \in Proc : Load(p)
  \/ Unload
  \/ \E r \in Request, m \in Model : Serve(r, m)
  \/ EndService
  \/ Exit
  \/ Close

Spec == Init /\ [][Next]_vars

============================================================================
