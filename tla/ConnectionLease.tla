--------------------------- MODULE ConnectionLease ---------------------------
(***************************************************************************)
(* What the connection pool promises the protocol adapters, without its    *)
(* lists, counters, lock and sweeper.  A connection is absent, spare,      *)
(* leased or stray.  A task gets a lease on a connection to its own        *)
(* target, one lease per target at a time; it gives the connection back    *)
(* for the next task, ends it, or walks away from it, after which nobody   *)
(* ever leases it again.  A device may break a connection at any time.     *)
(* Module ConnectionPool implements this specification.                    *)
(***************************************************************************)
CONSTANTS Calls, Keys, KeyOf, Conns, NoConn

VARIABLES
  state,   \* of each connection
  target,  \* the key a connection that is not absent leads to
  lease    \* the connection each task holds

vars == <<state, target, lease>>

Init ==
  /\ state = [x \in Conns |-> "absent"]
  /\ target \in [Conns -> Keys]
  /\ lease = [c \in Calls |-> NoConn]

\* Nobody who addresses the target of c holds a connection.
TargetIsFree(c) == \A d \in Calls : KeyOf[d] = KeyOf[c] => lease[d] = NoConn

\* c gets a connection that was just established.
Open(c, x) ==
  /\ TargetIsFree(c)
  /\ state[x] = "absent"
  /\ \A d \in Calls : lease[d] # x
  /\ state'  = [state EXCEPT ![x] = "leased"]
  /\ target' = [target EXCEPT ![x] = KeyOf[c]]
  /\ lease'  = [lease EXCEPT ![c] = x]

\* c gets a connection an earlier task gave back.
Reuse(c, x) ==
  /\ TargetIsFree(c)
  /\ state[x] = "spare"
  /\ target[x] = KeyOf[c]
  /\ state' = [state EXCEPT ![x] = "leased"]
  /\ lease' = [lease EXCEPT ![c] = x]
  /\ UNCHANGED target

\* The lease of c ends; its connection, unless a device broke it before,
\* becomes spare, absent or stray.
Return(c) ==
  LET x == lease[c] IN
  /\ x # NoConn
  /\ lease' = [lease EXCEPT ![c] = NoConn]
  /\ \/ state[x] # "leased" /\ UNCHANGED state
     \/ state[x] = "leased" /\ \E s \in {"spare", "absent", "stray"} :
                                 state' = [state EXCEPT ![x] = s]
  /\ UNCHANGED target

\* Connections are broken by their device, or spare ones are retired.
Break(S) ==
  /\ state' = [x \in Conns |-> IF x \in S THEN "absent" ELSE state[x]]
  /\ UNCHANGED <<target, lease>>

Next ==
  \/ \E c \in Calls, x \in Conns : Open(c, x) \/ Reuse(c, x)
  \/ \E c \in Calls : Return(c)
  \/ \E x \in Conns : Break({x})
  \/ \E S \in SUBSET {x \in Conns : state[x] = "spare"} : Break(S)

Spec == Init /\ [][Next]_vars
=============================================================================
