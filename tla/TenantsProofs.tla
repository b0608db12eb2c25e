---------------------------- MODULE TenantsProofs ----------------------------
(***************************************************************************)
(* Proofs about Tenants, for any tenants, subdomains, requests and bounds. *)
(*                                                                         *)
(* Under the lock an operation has changed the row and not yet the map:    *)
(* Locked says, for each kind of operation, in which entry the map differs *)
(* from the table.  A row never goes away and keeps its subdomain, so that *)
(* a name leads to the tenant whose row has it, now or in any later state. *)
(***************************************************************************)
EXTENDS Tenants, FiniteSetTheorems, TLAPS

SameOn(T) == \A t \in T : status[t] = row[t]

(* What the map lacks while somebody holds the lock, but for the rows the  *)
(* last load could not read: those stay as they are till the next one.     *)
Locked ==
    /\ unloaded \subseteq Live
    /\ holder.op \in {"nothing", "insert"} => listed = Known /\ SameOn(listed)
    /\ holder.op = "insert" => holder.on \notin listed
    /\ holder.op = "list" =>
          /\ row[holder.on] = "active" /\ holder.on \notin unloaded
          /\ listed = Known \ {holder.on} /\ SameOn(listed)
    /\ holder.op \in {"active", "suspended"} =>
          /\ holder.on \in listed /\ row[holder.on] = holder.op
          /\ listed = Known /\ SameOn(listed \ {holder.on})
    /\ holder.op = "deleted" =>
          /\ row[holder.on] = "deleted"
          /\ listed = Known \cup {holder.on} /\ SameOn(Known)

NamesDiffer ==
    \A t, u \in Tenant :
        row[t] # "none" /\ row[u] # "none" /\ name[t] = name[u] => t = u

(* The tenants a name has ever led to, the default one aside.              *)
Bears(t, x) == row[t] # "none" /\ name[t] = x

Routed ==
    /\ \A r \in Request : requests[r].at \in {"resolved", "serving"} =>
          requests[r].on = Default \/ Bears(requests[r].on, requests[r].name)
    /\ \A x \in Name : \A t \in served[x] : t = Default \/ Bears(t, x)

TenantInv == TypeOK /\ Locked /\ NamesDiffer /\ Routed

-----------------------------------------------------------------------------
(* The operation that holds the lock, its tenant and its subdomain.        *)
LEMMA HolderFields ==
  ASSUME TypeOK
  PROVE  /\ holder.op \in {"nothing", "insert", "list", "active", "suspended", "deleted"}
         /\ holder = Nobody <=> holder.op = "nothing"
         /\ holder.op # "nothing" => holder.on \in Tenant
         /\ holder.op \in {"insert", "list"} =>
               /\ holder.name \in Name
               /\ holder = [op |-> holder.op, on |-> holder.on, name |-> holder.name]
  BY DEF TypeOK, HolderType, Nobody

(* An answer of the look-up leads to a tenant, for the name it was for.    *)
LEMMA RequestFields ==
  ASSUME TypeOK, NEW r \in Request
  PROVE  /\ requests[r] = Idle => requests[r].at = "idle"
         /\ requests[r].at \in {"idle", "missed", "resolved", "serving"}
         /\ requests[r].at = "missed" => requests[r].name \in Name
         /\ requests[r].at \in {"resolved", "serving"} =>
               /\ requests[r].name \in Name /\ requests[r].on \in Tenant
               /\ requests[r] = [at |-> requests[r].at, name |-> requests[r].name,
                                 on |-> requests[r].on]
  BY DEF TypeOK, Idle

(* A failure counts up to the bound.                                       *)
LEMMA FaultTypes == TypeOK /\ (Fault \/ UNCHANGED faults) => faults' \in 0 .. MaxFaults
  BY TenantAssumption DEF TypeOK, Fault

(* What the operations under the lock change keeps the types.              *)
LEMMA OperationTypes ==
  ASSUME TypeOK,
         \/ \E t \in Tenant : Create(t) \/ Suspend(t) \/ Activate(t) \/ Delete(t)
         \/ Insert \/ List \/ Undo \/ SetEntry \/ DropEntry
  PROVE  TypeOK'
  <1> USE DEF table, map, users, bounds
  <1>1. ASSUME NEW t \in Tenant, Create(t) PROVE TypeOK'
    <2>1. PICK x \in Name : holder' = [op |-> "insert", on |-> t, name |-> x]
      BY <1>1 DEF Create, Prepare
    <2>2. holder' \in HolderType
      BY <2>1 DEF HolderType
    <2> QED
      BY <1>1, <2>2 DEF Create, Prepare, TypeOK
  <1>2. ASSUME NEW t \in Tenant, Suspend(t) \/ Activate(t) \/ Delete(t) PROVE TypeOK'
    <2>1. PICK value \in {"active", "suspended", "deleted"} : SetRow(t, value)
      BY <1>2 DEF Suspend, Activate, Delete
    <2>2. holder' \in HolderType
      BY <2>1 DEF SetRow, HolderType
    <2> QED
      BY <2>1, <2>2 DEF SetRow, TypeOK
  <1>3. CASE Insert
    <2>1. holder.on \in Tenant /\ holder.name \in Name
          /\ holder = [op |-> "insert", on |-> holder.on, name |-> holder.name]
      BY <1>3, HolderFields DEF Insert
    <2>2. holder' = [op |-> "list", on |-> holder.on, name |-> holder.name]
      BY <1>3, <2>1 DEF Insert
    <2>3. holder' \in HolderType
      BY <2>1, <2>2 DEF HolderType
    <2> QED
      BY <1>3, <2>1, <2>3 DEF Insert, TypeOK
  <1>4. CASE List \/ SetEntry \/ DropEntry
    <2>1. /\ holder.on \in Tenant /\ holder' = Nobody
          /\ UNCHANGED <<row, name, unloaded, data, requests, served, faults, crashes>>
      BY <1>4, HolderFields DEF List, SetEntry, DropEntry
    <2>2. listed' \subseteq Tenant
      BY <1>4, <2>1 DEF List, SetEntry, DropEntry, TypeOK
    <2>3. status' \in [Tenant -> {"none", "active", "suspended", "deleted"}]
      BY <1>4, <2>1 DEF List, SetEntry, DropEntry, TypeOK
    <2> QED
      BY <2>1, <2>2, <2>3 DEF TypeOK
  <1>5. CASE Undo
    <2>1. Fault \/ UNCHANGED faults
      BY <1>5 DEF Undo
    <2> QED
      BY <1>5, <2>1, FaultTypes DEF Undo, TypeOK
  <1> QED
    BY <1>1, <1>2, <1>3, <1>4, <1>5

(* What the middleware changes keeps the types.                            *)
LEMMA RequestTypes ==
  ASSUME TypeOK, NEW r \in Request,
         \/ \E x \in Name : Resolve(r, x)
         \/ UseDefault(r) \/ Admit(r) \/ Reject(r) \/ Serve(r)
  PROVE  TypeOK'
  <1> USE DEF table, map, users, bounds
  <1> DEFINE Requests == {Idle} \cup [at : {"missed"}, name : Name]
                \cup [at : {"resolved", "serving"}, name : Name, on : Tenant]
  <1>1. UNCHANGED <<row, name, listed, unloaded, status, holder, faults, crashes>>
    BY DEF Resolve, UseDefault, Admit, Reject, Serve
  <1>2. PICK q : q \in Requests /\ requests' = [requests EXCEPT ![r] = q]
    <2>1. ASSUME NEW x \in Name, Resolve(r, x)
          PROVE  \E q \in Requests : requests' = [requests EXCEPT ![r] = q]
      <3>1. CASE \E t \in Named(x) : requests' =
                    [requests EXCEPT ![r] = [at |-> "resolved", name |-> x, on |-> t]]
        BY <3>1 DEF Named, TypeOK
      <3>2. CASE requests' = [requests EXCEPT ![r] = [at |-> "missed", name |-> x]]
        BY <3>2
      <3> QED
        BY <2>1, <3>1, <3>2 DEF Resolve
    <2>2. ASSUME UseDefault(r)
          PROVE  \E q \in Requests : requests' = [requests EXCEPT ![r] = q]
      <3>1. requests[r].name \in Name
        BY <2>2, RequestFields DEF UseDefault
      <3>2. Default \in listed => Default \in Tenant
        BY DEF TypeOK
      <3>3. requests' = [requests EXCEPT ![r] =
                IF Default \in listed
                THEN [at |-> "resolved", name |-> requests[r].name, on |-> Default]
                ELSE Idle]
        BY <2>2 DEF UseDefault
      <3> QED
        BY <3>1, <3>2, <3>3
    <2>3. ASSUME Admit(r)
          PROVE  \E q \in Requests : requests' = [requests EXCEPT ![r] = q]
      <3>1. /\ requests[r].name \in Name /\ requests[r].on \in Tenant
            /\ requests[r] = [at |-> "resolved", name |-> requests[r].name,
                              on |-> requests[r].on]
        BY <2>3, RequestFields DEF Admit
      <3>2. requests' = [requests EXCEPT ![r] =
                [at |-> "serving", name |-> requests[r].name, on |-> requests[r].on]]
        <4>1. requests' = [requests EXCEPT ![r] = [requests[r] EXCEPT !.at = "serving"]]
          BY <2>3 DEF Admit
        <4>2. [requests[r] EXCEPT !.at = "serving"] =
                [at |-> "serving", name |-> requests[r].name, on |-> requests[r].on]
          BY <3>1
        <4> QED
          BY <4>1, <4>2
      <3> QED
        BY <3>1, <3>2
    <2>4. ASSUME Reject(r) \/ Serve(r)
          PROVE  \E q \in Requests : requests' = [requests EXCEPT ![r] = q]
      BY <2>4 DEF Reject, Serve
    <2> QED
      BY <2>1, <2>2, <2>3, <2>4
  <1>3. requests' \in [Request -> Requests]
    BY <1>2 DEF TypeOK
  <1>4. /\ data' \in [Tenant -> {"none", "empty", "written"}]
        /\ served' \in [Name -> SUBSET Tenant]
    <2>1. CASE Serve(r)
      <3>1. requests[r].name \in Name /\ requests[r].on \in Tenant
        BY <2>1, RequestFields DEF Serve
      <3>2. \/ /\ data' = [data EXCEPT ![requests[r].on] = "written"]
               /\ served' = [served EXCEPT ![requests[r].name] =
                                served[requests[r].name] \cup {requests[r].on}]
            \/ UNCHANGED <<data, served>>
        BY <2>1 DEF Serve
      <3>3. served[requests[r].name] \cup {requests[r].on} \in SUBSET Tenant
        BY <3>1 DEF TypeOK
      <3> QED
        BY <3>2, <3>3 DEF TypeOK
    <2>2. CASE ~Serve(r)
      BY <2>2 DEF Resolve, UseDefault, Admit, Reject, TypeOK
    <2> QED
      BY <2>1, <2>2
  <1> QED
    BY <1>1, <1>3, <1>4 DEF TypeOK

(* Every step keeps the types.                                             *)
LEMMA NextTypeOK == TypeOK /\ [Next]_vars => TypeOK'
  <1> SUFFICES ASSUME TypeOK, [Next]_vars PROVE TypeOK'
    OBVIOUS
  <1> USE DEF table, map, users, bounds
  <1>1. CASE Restart
    <2>1. PICK part \in SUBSET Live : Load(part)
      BY <1>1 DEF Restart
    <2>2. faults' \in 0 .. MaxFaults
      BY <2>1, FaultTypes DEF Load
    <2> QED
      BY <1>1, <2>1, <2>2, TenantAssumption DEF Restart, Load, Live, TypeOK
  <1>2. CASE UNCHANGED vars
    BY <1>2 DEF vars, TypeOK
  <1> QED
    BY <1>1, <1>2, OperationTypes, RequestTypes DEF Next

-----------------------------------------------------------------------------
(* The tenants that are not deleted, and those the map should have.        *)
LEMMA LiveRows ==
  /\ \A t : t \in Live <=> t \in Tenant /\ row[t] \in {"active", "suspended"}
  /\ \A t : t \in Known <=> t \in Live /\ t \notin unloaded
  BY DEF Live, Known

(* The operations keep what is said about the lock.                        *)
LEMMA OperationLocked ==
  ASSUME TypeOK, Locked,
         \/ \E t \in Tenant : Create(t) \/ Suspend(t) \/ Activate(t) \/ Delete(t)
         \/ Insert \/ List \/ Undo \/ SetEntry \/ DropEntry
  PROVE  Locked'
  <1> USE DEF table, map, users, bounds, Free
  <1>1. /\ listed \subseteq Tenant /\ DOMAIN row = Tenant /\ DOMAIN status = Tenant
        /\ unloaded \subseteq Live /\ Known = Live \ unloaded
    BY DEF TypeOK, Locked, Known
  <1>2. holder = Nobody => listed = Known /\ \A t \in listed : status[t] = row[t]
    BY DEF Locked, SameOn, Nobody
  <1>3. ASSUME NEW t \in Tenant, Create(t) PROVE Locked'
    <2>1. PICK x \in Name : holder' = [op |-> "insert", on |-> t, name |-> x]
      BY <1>3 DEF Create, Prepare
    <2>2. holder'.op = "insert" /\ holder'.on = t
      BY <2>1
    <2>3. UNCHANGED <<row, name, listed, unloaded, status>> /\ holder = Nobody
          /\ t \notin listed
      BY <1>3 DEF Create, Prepare
    <2>4. Live' = Live /\ Known' = Known
      BY <2>3 DEF Live, Known
    <2> QED
      BY <1>1, <1>2, <2>2, <2>3, <2>4 DEF Locked, SameOn
  <1>4. ASSUME NEW t \in Tenant, Suspend(t) \/ Activate(t) \/ Delete(t)
        PROVE  Locked'
    <2>1. PICK value \in {"active", "suspended", "deleted"} : SetRow(t, value)
      BY <1>4 DEF Suspend, Activate, Delete
    <2>2. holder' = [op |-> value, on |-> t] /\ holder'.op = value /\ holder'.on = t
      BY <2>1 DEF SetRow
    <2>3. /\ UNCHANGED <<name, listed, unloaded, status>> /\ holder = Nobody
          /\ t \in listed /\ row' = [row EXCEPT ![t] = value]
      BY <2>1 DEF SetRow
    <2>4. row'[t] = value /\ \A u \in Tenant \ {t} : row'[u] = row[u]
      BY <1>1, <2>3
    <2>5. t \in Live /\ t \notin unloaded /\ listed = Known
      BY <1>1, <1>2, <2>3
    <2>6. /\ value # "deleted" => Live' = Live
          /\ value = "deleted" => Live' = Live \ {t}
      BY <1>1, <2>4, <2>5 DEF Live
    <2>7. /\ value # "deleted" => Known' = Known
          /\ value = "deleted" => Known' = Known \ {t}
      BY <2>3, <2>6 DEF Known
    <2>8. /\ unloaded' \subseteq Live'
          /\ \A u \in listed \ {t} : status'[u] = row'[u]
      BY <1>1, <1>2, <2>3, <2>4, <2>5, <2>6
    <2>9. CASE value = "deleted"
      <3>1. listed' = Known' \cup {t} /\ \A u \in Known' : status'[u] = row'[u]
        BY <2>3, <2>5, <2>7, <2>8, <2>9
      <3> QED
        BY <2>2, <2>4, <2>8, <2>9, <3>1 DEF Locked, SameOn
    <2>10. CASE value # "deleted"
      <3>1. listed' = Known' /\ t \in listed'
        BY <2>3, <2>5, <2>7, <2>10
      <3> QED
        BY <2>2, <2>3, <2>4, <2>8, <2>10, <3>1 DEF Locked, SameOn
    <2> QED
      BY <2>9, <2>10
  <1>5. CASE Insert
    <2>1. /\ holder.op = "insert" /\ holder.on \in Tenant
          /\ holder = [op |-> "insert", on |-> holder.on, name |-> holder.name]
      BY <1>5, HolderFields DEF Insert
    <2>2. holder'.op = "list" /\ holder'.on = holder.on
      BY <1>5, <2>1 DEF Insert
    <2>3. /\ UNCHANGED <<listed, unloaded, status>>
          /\ row' = [row EXCEPT ![holder.on] = "active"] /\ row[holder.on] = "none"
      BY <1>5 DEF Insert, Insertable
    <2>4. /\ listed = Known /\ \A u \in listed : status[u] = row[u]
          /\ holder.on \notin listed /\ holder.on \notin Live
      BY <2>1, <2>3, LiveRows DEF Locked, SameOn
    <2>5. row'[holder.on] = "active"
          /\ \A u \in Tenant \ {holder.on} : row'[u] = row[u]
      BY <1>1, <2>1, <2>3
    <2>6. Live' = Live \cup {holder.on} /\ holder.on \notin unloaded
      BY <1>1, <2>1, <2>4, <2>5 DEF Live
    <2>7. Known' = Known \cup {holder.on}
      BY <2>3, <2>6 DEF Known
    <2>8. \A u \in listed : status'[u] = row'[u]
      BY <1>1, <2>3, <2>4, <2>5
    <2> QED
      BY <1>1, <2>2, <2>3, <2>4, <2>5, <2>6, <2>7, <2>8 DEF Locked, SameOn
  <1>6. CASE List
    <2>1. /\ UNCHANGED <<row, unloaded>> /\ holder' = Nobody /\ holder.on \in Tenant
          /\ listed' = listed \cup {holder.on}
          /\ status' = [status EXCEPT ![holder.on] = "active"]
      BY <1>6, HolderFields DEF List
    <2>2. /\ row[holder.on] = "active" /\ listed = Known \ {holder.on}
          /\ holder.on \notin unloaded /\ \A u \in listed : status[u] = row[u]
      BY <1>6 DEF List, Locked, SameOn
    <2>3. Live' = Live /\ Known' = Known /\ holder'.op = "nothing"
      BY <2>1 DEF Live, Known, Nobody
    <2>4. listed' = Known'
      BY <2>1, <2>2, <2>3, LiveRows
    <2>5. \A u \in Known : status'[u] = row'[u]
      BY <1>1, <2>1, <2>2, LiveRows
    <2> QED
      BY <1>1, <2>1, <2>3, <2>4, <2>5 DEF Locked, SameOn
  <1>7. CASE Undo
    <2>1. /\ holder.op = "insert" /\ holder' = Nobody
          /\ UNCHANGED <<row, listed, unloaded, status>>
      BY <1>7 DEF Undo
    <2>2. Live' = Live /\ Known' = Known /\ holder'.op = "nothing"
      BY <2>1 DEF Live, Known, Nobody
    <2> QED
      BY <1>1, <2>1, <2>2 DEF Locked, SameOn
  <1>8. CASE SetEntry
    <2>1. /\ UNCHANGED <<row, listed, unloaded>> /\ holder' = Nobody
          /\ holder.on \in Tenant
          /\ status' = [status EXCEPT ![holder.on] = holder.op]
      BY <1>8, HolderFields DEF SetEntry
    <2>2. /\ row[holder.on] = holder.op /\ listed = Known
          /\ \A u \in listed \ {holder.on} : status[u] = row[u]
      BY <1>8 DEF SetEntry, Locked, SameOn
    <2>3. Live' = Live /\ Known' = Known /\ holder'.op = "nothing"
      BY <2>1 DEF Live, Known, Nobody
    <2>4. \A u \in listed : status'[u] = row'[u]
      BY <1>1, <2>1, <2>2
    <2> QED
      BY <1>1, <2>1, <2>2, <2>3, <2>4 DEF Locked, SameOn
  <1>9. CASE DropEntry
    <2>1. /\ UNCHANGED <<row, unloaded, status>> /\ holder' = Nobody
          /\ listed' = listed \ {holder.on}
      BY <1>9 DEF DropEntry
    <2>2. /\ row[holder.on] = "deleted" /\ listed = Known \cup {holder.on}
          /\ \A u \in Known : status[u] = row[u]
      BY <1>9 DEF DropEntry, Locked, SameOn
    <2>3. Live' = Live /\ Known' = Known /\ holder'.op = "nothing"
      BY <2>1 DEF Live, Known, Nobody
    <2>4. listed' = Known'
      BY <2>1, <2>2, <2>3, LiveRows
    <2> QED
      BY <1>1, <2>1, <2>2, <2>3, <2>4 DEF Locked, SameOn
  <1> QED
    BY <1>3, <1>4, <1>5, <1>6, <1>7, <1>8, <1>9

(* So does every other step: the middleware changes neither the table nor  *)
(* the map, and a restart loads what it can read of the table.             *)
LEMMA NextLocked ==
  ASSUME TypeOK, Locked, [Next]_vars
  PROVE  Locked'
  <1> USE DEF table, map, users, bounds
  <1>1. ASSUME UNCHANGED <<row, listed, unloaded, status, holder>> PROVE Locked'
    <2>1. Live' = Live /\ Known' = Known
      BY <1>1 DEF Live, Known
    <2> QED
      BY <1>1, <2>1 DEF Locked, SameOn
  <1>2. CASE Restart
    <2>1. PICK part \in SUBSET Live : Load(part)
      BY <1>2 DEF Restart
    <2>2. /\ UNCHANGED row /\ listed' = part /\ unloaded' = Live \ part
          /\ status' = row /\ holder' = Nobody
      BY <1>2, <2>1 DEF Restart, Load
    <2>3. Live' = Live /\ Known' = part /\ holder'.op = "nothing"
      BY <2>2 DEF Live, Known, Nobody
    <2> QED
      BY <2>2, <2>3 DEF Locked, SameOn
  <1>3. ASSUME NEW r \in Request,
               \/ \E x \in Name : Resolve(r, x)
               \/ UseDefault(r) \/ Admit(r) \/ Reject(r) \/ Serve(r)
        PROVE  UNCHANGED <<row, listed, unloaded, status, holder>>
    BY <1>3 DEF Resolve, UseDefault, Admit, Reject, Serve
  <1> QED
    BY <1>1, <1>2, <1>3, OperationLocked DEF Next, vars

-----------------------------------------------------------------------------
(* A row does not go away, and keeps its subdomain.                        *)
LEMMA BearsKept ==
  ASSUME TypeOK, [Next]_vars, NEW t \in Tenant, NEW x, Bears(t, x)
  PROVE  Bears(t, x)'
  <1> USE DEF table, map, users, bounds
  <1>1. CASE Insert
    <2>1. t # holder.on
      BY <1>1 DEF Insert, Insertable, Bears
    <2> QED
      BY <1>1, <2>1 DEF Insert, Bears, TypeOK
  <1>2. ASSUME NEW u \in Tenant, Suspend(u) \/ Activate(u) \/ Delete(u)
        PROVE  Bears(t, x)'
    BY <1>2 DEF Suspend, Activate, Delete, SetRow, Bears, TypeOK
  <1>3. CASE UNCHANGED <<row, name>>
    BY <1>3 DEF Bears
  <1>4. \/ Insert \/ \E u \in Tenant : Suspend(u) \/ Activate(u) \/ Delete(u)
        \/ UNCHANGED <<row, name>>
    BY DEF Next, vars, Create, Prepare, List, Undo, SetEntry, DropEntry, Resolve,
           UseDefault, Admit, Reject, Serve, Restart
  <1> QED
    BY <1>1, <1>2, <1>3, <1>4

(* A new row has a subdomain that no other row has, deleted ones included. *)
LEMMA NextNamesDiffer ==
  ASSUME TypeOK, Locked, NamesDiffer, [Next]_vars
  PROVE  NamesDiffer'
  <1> USE DEF table, map, users, bounds
  <1>1. CASE Insert
    <2>1. /\ holder.on \in Tenant
          /\ row'[holder.on] = "active" /\ name'[holder.on] = holder.name
          /\ \A t \in Tenant \ {holder.on} : row'[t] = row[t] /\ name'[t] = name[t]
          /\ \A t \in Tenant : row[t] # "none" => name[t] # holder.name
      BY <1>1, HolderFields DEF Insert, Insertable, TypeOK
    <2> QED
      BY <2>1 DEF NamesDiffer
  <1>2. CASE ~Insert
    <2>1. UNCHANGED name
      BY <1>2 DEF Next, vars, Create, Prepare, Suspend, Activate, Delete, SetRow, List,
                  Undo, SetEntry, DropEntry, Resolve, UseDefault, Admit, Reject, Serve,
                  Restart
    <2>2. \A t \in Tenant : row'[t] # "none" => row[t] # "none"
      <3>1. ASSUME NEW u \in Tenant, Suspend(u) \/ Activate(u) \/ Delete(u)
            PROVE  \A t \in Tenant : row'[t] # "none" => row[t] # "none"
        <4>1. u \in listed /\ holder = Nobody
          BY <3>1 DEF Suspend, Activate, Delete, SetRow, Free
        <4>2. row[u] # "none"
          BY <4>1, LiveRows DEF Locked, Nobody
        <4> QED
          BY <3>1, <4>2 DEF Suspend, Activate, Delete, SetRow, TypeOK
      <3> QED
        BY <1>2, <3>1 DEF Next, vars, Create, Prepare, List, Undo, SetEntry, DropEntry,
               Resolve, UseDefault, Admit, Reject, Serve, Restart
    <2> QED
      BY <2>1, <2>2 DEF NamesDiffer
  <1> QED
    BY <1>1, <1>2

(* A look-up leads to the tenant that has the name, or to the default one; *)
(* whatever happens to the row before the request is served, it stays the  *)
(* row of that name.                                                       *)
LEMMA NextRouted ==
  ASSUME TypeOK, Locked, Routed, [Next]_vars
  PROVE  Routed'
  <1> USE DEF table, map, users, bounds
  <1> DEFINE Stays(t, x) == row'[t] # "none" /\ name'[t] = x
  <1>1. \A t \in Tenant : \A x : Bears(t, x) => Stays(t, x)
    BY BearsKept DEF Bears
  <1>2. /\ DOMAIN requests = Request /\ DOMAIN served = Name
        /\ \A x \in Name : served[x] \subseteq Tenant
    BY DEF TypeOK
  <1>3. \A x \in Name : \A t \in served[x] : t = Default \/ Stays(t, x)
    BY <1>1, <1>2 DEF Routed, Bears
  <1>4. \A r \in Request : requests[r].at \in {"resolved", "serving"} =>
           /\ requests[r].name \in Name /\ requests[r].on \in Tenant
           /\ requests[r].on = Default \/ Stays(requests[r].on, requests[r].name)
    BY <1>1, RequestFields DEF Routed
  <1>5. ASSUME NEW r \in Request, NEW x \in Name, Resolve(r, x) PROVE Routed'
    <2>1. UNCHANGED served /\ \A p \in Request \ {r} : requests'[p] = requests[p]
      BY <1>2, <1>5 DEF Resolve
    <2>2. CASE \E t \in Named(x) : requests' =
                  [requests EXCEPT ![r] = [at |-> "resolved", name |-> x, on |-> t]]
      <3>1. PICK t \in Named(x) : requests'[r] = [at |-> "resolved", name |-> x, on |-> t]
        BY <1>2, <2>2
      <3>2. t \in Live /\ name[t] = x
        BY <1>5 DEF Resolve, Free, Locked, Nobody, Named, Known
      <3>3. Stays(t, x)
        BY <1>1, <3>2, LiveRows DEF Bears
      <3>4. requests'[r].on = t /\ requests'[r].name = x
        BY <3>1
      <3> QED
        BY <1>3, <1>4, <2>1, <3>3, <3>4 DEF Routed, Bears
    <2>3. CASE requests' = [requests EXCEPT ![r] = [at |-> "missed", name |-> x]]
      <3>1. requests'[r] = [at |-> "missed", name |-> x]
        BY <1>2, <2>3
      <3>2. requests'[r].at = "missed"
        BY <3>1
      <3> QED
        BY <1>3, <1>4, <2>1, <3>2 DEF Routed, Bears
    <2> QED
      BY <1>5, <2>2, <2>3 DEF Resolve
  <1>6. ASSUME NEW r \in Request, UseDefault(r) PROVE Routed'
    <2>1. UNCHANGED served /\ \A p \in Request \ {r} : requests'[p] = requests[p]
      BY <1>2, <1>6 DEF UseDefault
    <2>2. \/ requests'[r] = [at |-> "resolved", name |-> requests[r].name, on |-> Default]
          \/ requests'[r] = Idle
      BY <1>2, <1>6 DEF UseDefault
    <2>3. requests'[r].at = "idle" \/ requests'[r].on = Default
      BY <2>2 DEF Idle
    <2> QED
      BY <1>3, <1>4, <2>1, <2>3 DEF Routed, Bears
  <1>7. ASSUME NEW r \in Request, Admit(r) PROVE Routed'
    <2>1. UNCHANGED served /\ \A p \in Request \ {r} : requests'[p] = requests[p]
      BY <1>2, <1>7 DEF Admit
    <2>2. requests'[r] = [requests[r] EXCEPT !.at = "serving"]
      BY <1>2, <1>7 DEF Admit
    <2>3. /\ requests[r].at = "resolved"
          /\ requests[r] = [at |-> requests[r].at, name |-> requests[r].name,
                            on |-> requests[r].on]
      BY <1>7, RequestFields DEF Admit
    <2>4. requests'[r].on = requests[r].on /\ requests'[r].name = requests[r].name
      BY <2>2, <2>3
    <2> QED
      BY <1>3, <1>4, <2>1, <2>3, <2>4 DEF Routed, Bears
  <1>8. ASSUME NEW r \in Request, Reject(r) \/ Serve(r) PROVE Routed'
    <2>1. \A p \in Request \ {r} : requests'[p] = requests[p]
      BY <1>2, <1>8 DEF Reject, Serve
    <2>2. requests'[r].at = "idle"
      BY <1>2, <1>8 DEF Reject, Serve, Idle
    <2>3. \A x \in Name : \A t \in served'[x] : t = Default \/ Stays(t, x)
      <3>1. CASE UNCHANGED served
        BY <1>3, <3>1
      <3>2. CASE ~UNCHANGED served
        <4>1. /\ requests[r].at = "serving"
              /\ served' = [served EXCEPT ![requests[r].name] =
                                served[requests[r].name] \cup {requests[r].on}]
          BY <1>8, <3>2 DEF Reject, Serve
        <4>2. requests[r].name \in Name
              /\ (requests[r].on = Default \/ Stays(requests[r].on, requests[r].name))
          BY <1>4, <4>1
        <4>3. \A x \in Name : \A t \in served'[x] :
                 t \in served[x] \/ (x = requests[r].name /\ t = requests[r].on)
          BY <1>2, <4>1, <4>2
        <4> QED
          BY <1>3, <4>2, <4>3
      <3> QED
        BY <3>1, <3>2
    <2> QED
      BY <1>4, <2>1, <2>2, <2>3 DEF Routed, Bears
  <1>9. CASE Restart
    <2>1. UNCHANGED served /\ \A r \in Request : requests'[r].at = "idle"
      BY <1>9 DEF Restart, Idle
    <2> QED
      BY <1>3, <2>1 DEF Routed, Bears
  <1>10. CASE UNCHANGED <<requests, served>>
    BY <1>3, <1>4, <1>10 DEF Routed, Bears
  <1>11. ASSUME \/ \E t \in Tenant : Create(t) \/ Suspend(t) \/ Activate(t) \/ Delete(t)
                \/ Insert \/ List \/ Undo \/ SetEntry \/ DropEntry \/ UNCHANGED vars
         PROVE  UNCHANGED <<requests, served>>
    BY <1>11 DEF Create, Prepare, Suspend, Activate, Delete, SetRow, Insert, List, Undo,
                 SetEntry, DropEntry, vars
  <1> QED
    BY <1>5, <1>6, <1>7, <1>8, <1>9, <1>10, <1>11 DEF Next

-----------------------------------------------------------------------------
(* The tables start empty.                                                 *)
LEMMA InitInv == Init => TenantInv
  <1> SUFFICES ASSUME Init PROVE TenantInv
    OBVIOUS
  <1>1. TypeOK
    BY TenantAssumption DEF Init, TypeOK
  <1>2. Live = {} /\ Known = {} /\ listed = {} /\ unloaded = {}
        /\ holder.op = "nothing"
    BY DEF Init, Live, Known, Nobody
  <1>3. Locked
    BY <1>2 DEF Locked, SameOn
  <1>4. NamesDiffer /\ Routed
    BY DEF Init, Idle, NamesDiffer, Routed
  <1> QED
    BY <1>1, <1>3, <1>4 DEF TenantInv

(* The inductive invariant holds in every state.                           *)
THEOREM TenantInvariant == Spec => []TenantInv
  <1>1. TenantInv /\ [Next]_vars => TenantInv'
    BY NextTypeOK, NextLocked, NextNamesDiffer, NextRouted DEF TenantInv
  <1> QED
    BY <1>1, InitInv, PTL DEF Spec

(* When no operation holds the lock, the map is the table but for what the *)
(* last load could not read, whatever statements failed and wherever the   *)
(* process ended before.                                                   *)
THEOREM MapFollowsTable == Spec => []Consistent
  <1>1. TenantInv => Consistent
    BY DEF TenantInv, Consistent, MapIsTable, Free, Locked, SameOn, Nobody
  <1> QED
    BY <1>1, TenantInvariant, PTL

(* At most one tenant's data a name has led to, the default one aside.     *)
OneServed == \A x \in Name : Cardinality(served[x] \ {Default}) <= 1

LEMMA ServedOne == TenantInv => OneServed
  <1> SUFFICES ASSUME TenantInv, NEW x \in Name
               PROVE  Cardinality(served[x] \ {Default}) <= 1
    BY DEF OneServed
  <1> DEFINE S == served[x] \ {Default}
  <1>1. S \subseteq Tenant /\ \A t \in S : Bears(t, x)
    BY DEF TenantInv, Routed, TypeOK
  <1>2. \A t, u \in S : t = u
    BY <1>1 DEF TenantInv, NamesDiffer, Bears
  <1>3. CASE S = {}
    BY <1>3, FS_EmptySet
  <1>4. CASE S # {}
    <2>1. PICK t : S = {t}
      BY <1>2, <1>4
    <2> QED
      BY <2>1, FS_Singleton
  <1> QED
    BY <1>3, <1>4

(* A look-up that finds nobody: none of the tenants it could have found    *)
(* has the name.                                                           *)
LEMMA MissedNobody ==
  ASSUME TenantInv, [Next]_vars, NEW r \in Request,
         requests'[r].at = "missed", requests[r].at # "missed", NEW t \in Known
  PROVE  name[t] # requests'[r].name
  <1> USE DEF table, map, users, bounds
  <1>1. DOMAIN requests = Request
    BY DEF TenantInv, TypeOK
  <1>2. PICK p \in Request, x \in Name : Resolve(p, x)
    <2>1. ASSUME NEW p \in Request, UseDefault(p) \/ Admit(p) \/ Reject(p) \/ Serve(p)
          PROVE  FALSE
      <3>1. PICK q : requests' = [requests EXCEPT ![p] = q] /\ q.at # "missed"
        <4>1. CASE UseDefault(p)
          BY <4>1 DEF UseDefault, Idle
        <4>2. CASE Admit(p)
          <5>1. requests' = [requests EXCEPT ![p] = [requests[p] EXCEPT !.at = "serving"]]
            BY <4>2 DEF Admit
          <5>2. [requests[p] EXCEPT !.at = "serving"].at = "serving"
            BY <4>2, RequestFields DEF Admit, TenantInv
          <5> QED
            BY <5>1, <5>2
        <4>3. CASE Reject(p) \/ Serve(p)
          BY <4>3 DEF Reject, Serve, Idle
        <4> QED
          BY <2>1, <4>1, <4>2, <4>3
      <3>2. CASE p = r
        BY <1>1, <3>1, <3>2
      <3>3. CASE p # r
        BY <1>1, <3>1, <3>3
      <3> QED
        BY <3>2, <3>3
    <2>2. ASSUME UNCHANGED requests PROVE FALSE
      BY <2>2
    <2>3. ASSUME Restart PROVE FALSE
      BY <2>3 DEF Restart, Idle
    <2>4. ASSUME \/ \E u \in Tenant : Create(u) \/ Suspend(u) \/ Activate(u) \/ Delete(u)
                 \/ Insert \/ List \/ Undo \/ SetEntry \/ DropEntry \/ UNCHANGED vars
          PROVE  UNCHANGED requests
      BY <2>4 DEF Create, Prepare, Suspend, Activate, Delete, SetRow, Insert, List, Undo,
                  SetEntry, DropEntry, vars
    <2> QED
      BY <2>1, <2>2, <2>3, <2>4 DEF Next
  <1>3. p = r
    BY <1>1, <1>2 DEF Resolve
  <1>4. Named(x) = {} /\ requests'[r] = [at |-> "missed", name |-> x]
    <2>1. CASE \E u \in Named(x) : requests' =
                  [requests EXCEPT ![p] = [at |-> "resolved", name |-> x, on |-> u]]
      <3>1. PICK u : requests'[r] = [at |-> "resolved", name |-> x, on |-> u]
        BY <1>1, <1>3, <2>1
      <3>2. requests'[r].at = "resolved"
        BY <3>1
      <3> QED
        BY <3>2
    <2> QED
      BY <1>1, <1>2, <1>3, <2>1 DEF Resolve
  <1>5. listed = Known
    BY <1>2 DEF Resolve, Free, TenantInv, Locked, Nobody
  <1> QED
    BY <1>4, <1>5 DEF Named

(* A name that leads to one tenant, the default one aside, leads to no     *)
(* other: not after its deletion, later creations or restarts either; and  *)
(* the default one is looked for only while nobody it knows has the name.  *)
THEOREM NameLeadsToOne == Spec => NameIsOneTenant
  <1> DEFINE Names ==
        /\ \A x \in Name : Cardinality(served'[x] \ {Default}) <= 1
        /\ \A r \in Request :
              requests'[r].at = "missed" /\ requests[r].at # "missed" =>
                 \A t \in Known : name[t] # requests'[r].name
  <1>1. TenantInv /\ [Next]_vars /\ OneServed' => [Names]_vars
    <2> SUFFICES ASSUME TenantInv, [Next]_vars, OneServed' PROVE Names
      OBVIOUS
    <2>1. \A x \in Name : Cardinality(served'[x] \ {Default}) <= 1
      BY DEF OneServed
    <2>2. \A r \in Request :
             requests'[r].at = "missed" /\ requests[r].at # "missed" =>
                \A t \in Known : name[t] # requests'[r].name
      BY MissedNobody
    <2> QED
      BY <2>1, <2>2
  <1> QED
    BY <1>1, ServedOne, TenantInvariant, PTL DEF Spec, NameIsOneTenant

(* No attempt to create a tenant that fails, nor any other step, takes     *)
(* away the directory of a tenant that is neither deleted nor unknown, or  *)
(* what is written in it.                                                  *)
THEOREM LiveDataStays == Spec => LiveKeepsData
  <1>1. TenantInv /\ [Next]_vars =>
           [\A t \in Known : /\ data[t] # "none" => data'[t] # "none"
                             /\ data[t] = "written" => data'[t] = "written"]_vars
    <2> SUFFICES ASSUME TenantInv, [Next]_vars, vars' # vars, NEW t \in Known
                 PROVE  /\ data[t] # "none" => data'[t] # "none"
                        /\ data[t] = "written" => data'[t] = "written"
      OBVIOUS
    <2> USE DEF table, map, users, bounds
    <2>1. t \in Tenant /\ DOMAIN data = Tenant
      BY DEF TenantInv, TypeOK, Known, Live
    <2>2. CASE Undo
      <3>1. t # holder.on
        BY <2>2 DEF Undo, TenantInv, Locked
      <3> QED
        BY <2>1, <2>2, <3>1 DEF Undo
    <2>3. ASSUME NEW u \in Tenant, Create(u)
          PROVE  /\ data[t] # "none" => data'[t] # "none"
                 /\ data[t] = "written" => data'[t] = "written"
      BY <2>1, <2>3 DEF Create, Prepare
    <2>4. ASSUME NEW r \in Request, Serve(r)
          PROVE  /\ data[t] # "none" => data'[t] # "none"
                 /\ data[t] = "written" => data'[t] = "written"
      BY <2>1, <2>4 DEF Serve
    <2>5. \/ Undo \/ (\E u \in Tenant : Create(u)) \/ (\E r \in Request : Serve(r))
          \/ UNCHANGED data
      BY DEF Next, vars, Suspend, Activate, Delete, SetRow, Insert, List, SetEntry,
             DropEntry, Resolve, UseDefault, Admit, Reject, Restart
    <2> QED
      BY <2>2, <2>3, <2>4, <2>5
  <1> QED
    BY <1>1, TenantInvariant, PTL DEF Spec, LiveKeepsData
=============================================================================
