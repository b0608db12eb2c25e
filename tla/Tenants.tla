------------------------------- MODULE Tenants -------------------------------
(***************************************************************************)
(* The tenants of v2/pkg/tenant: a row of the global database, an entry of *)
(* the manager's map and a directory of databases for each, changed one    *)
(* after the other under the manager's lock; the middleware that finds the *)
(* tenant of a request takes the lock only for the look-up.                *)
(*                                                                         *)
(* Deletion is soft: the row stays, and so does the directory.  A crash    *)
(* may come between any two of the three, and the next process reads the   *)
(* table into the map without a word about what it could not read.         *)
(* Requests are routed by subdomain; what they do is to write into the     *)
(* databases.                                                              *)
(***************************************************************************)
EXTENDS FiniteSets, Naturals

CONSTANTS
    Tenant, NoTenant,
    Name,        \* subdomains, the empty one included
    NoName,      \* stands for "no row, no subdomain"
    Default,     \* Config.DefaultTenant: a tenant, or NoTenant
    Request,
    MaxFaults,   \* bound: failed statements and directories
    MaxCrashes   \* bound: crashes of the process

ASSUME TenantAssumption ==
    /\ NoTenant \notin Tenant /\ Default \in Tenant \cup {NoTenant}
    /\ NoName \notin Name
    /\ MaxFaults \in Nat /\ MaxCrashes \in Nat

VARIABLES
    row,      \* tenants.status of each row, or "none"
    name,     \* tenants.subdomain
    listed,   \* Manager.tenants
    unloaded, \* history: the rows loadTenants should have listed, and did not
    status,   \* Tenant.Status of the entry, kept by those who hold it
    data,     \* the directory: "none", "empty" or "written"
    holder,   \* the operation that holds the lock
    requests, \* where each request is
    served,   \* history: the tenants whose data a name has led to
    faults, crashes  \* counters of the bounds

table  == <<row, name>>
map    == <<listed, unloaded, status>>
users  == <<requests, served>>
bounds == <<faults, crashes>>
vars   == <<table, map, data, holder, users, bounds>>

Nobody == [op |-> "nothing"]
Free   == holder = Nobody
Fault  == faults < MaxFaults /\ faults' = faults + 1

Idle == [at |-> "idle"]

Live == {t \in Tenant : row[t] \in {"active", "suspended"}}

Init ==
    /\ row    = [t \in Tenant |-> "none"]
    /\ name   = [t \in Tenant |-> NoName]
    /\ listed = {} /\ unloaded = {}
    /\ status = [t \in Tenant |-> "none"]
    /\ data   = [t \in Tenant |-> "none"]
    /\ holder = Nobody
    /\ requests = [r \in Request |-> Idle]
    /\ served = [x \in Name |-> {}]
    /\ faults = 0 /\ crashes = 0

-----------------------------------------------------------------------------
(* Create, under the lock from Create to List or Undo.                     *)

Prepare(t) ==
    /\ Free
    /\ \E x \in Name : holder' = [op |-> "insert", on |-> t, name |-> x]
    /\ data' = [data EXCEPT ![t] = IF @ = "none" THEN "empty" ELSE @]
    /\ UNCHANGED <<table, map, users, bounds>>

\* without the look into the map
CreateUnchecked(t) == Prepare(t)

\* the directory of a soft-deleted tenant is taken as it is
Create(t) == t \notin listed /\ Prepare(t)

\* the primary key and UNIQUE count deleted rows, too
Insertable ==
    /\ row[holder.on] = "none"
    /\ \A t \in Tenant : row[t] # "none" => name[t] # holder.name

Insert ==
    /\ holder.op = "insert" /\ Insertable
    /\ row'  = [row EXCEPT ![holder.on] = "active"]
    /\ name' = [name EXCEPT ![holder.on] = holder.name]
    /\ holder' = [holder EXCEPT !.op = "list"]
    /\ UNCHANGED <<map, data, users, bounds>>

List ==
    /\ holder.op = "list"
    /\ listed' = listed \cup {holder.on}
    /\ status' = [status EXCEPT ![holder.on] = "active"]
    /\ holder' = Nobody
    /\ UNCHANGED <<table, unloaded, data, users, bounds>>

\* the databases could not be made, or the row not be inserted
Undo ==
    /\ holder.op = "insert"
    /\ \/ ~Insertable /\ UNCHANGED faults
       \/ Fault
    /\ data' = [data EXCEPT ![holder.on] = "none"]
    /\ holder' = Nobody
    /\ UNCHANGED <<table, map, users, crashes>>

-----------------------------------------------------------------------------
(* Suspend, Activate and Delete: the row, then the map.  A statement that  *)
(* fails changes nothing.                                                  *)

SetRow(t, value) ==
    /\ Free /\ t \in listed
    /\ row' = [row EXCEPT ![t] = value]
    /\ holder' = [op |-> value, on |-> t]
    /\ UNCHANGED <<name, map, data, users, bounds>>

\* takes the row out of the table
RemoveRow(t) ==
    /\ Free /\ t \in listed
    /\ row' = [row EXCEPT ![t] = "none"]
    /\ holder' = [op |-> "deleted", on |-> t]
    /\ UNCHANGED <<name, map, data, users, bounds>>

\* the map first, whatever becomes of the statement
SuspendMapFirst(t) ==
    /\ Free /\ t \in listed
    /\ status' = [status EXCEPT ![t] = "suspended"]
    /\ \/ row' = [row EXCEPT ![t] = "suspended"] /\ UNCHANGED faults
       \/ Fault /\ UNCHANGED row
    /\ UNCHANGED <<name, listed, unloaded, data, holder, users, crashes>>

Suspend(t)  == SetRow(t, "suspended")
Activate(t) == SetRow(t, "active")
Delete(t)   == SetRow(t, "deleted")

SetEntry ==
    /\ holder.op \in {"active", "suspended"}
    /\ status' = [status EXCEPT ![holder.on] = holder.op]
    /\ holder' = Nobody
    /\ UNCHANGED <<table, listed, unloaded, data, users, bounds>>

\* whoever holds the entry sees no change
DropEntry ==
    /\ holder.op = "deleted"
    /\ listed' = listed \ {holder.on}
    /\ holder' = Nobody
    /\ UNCHANGED <<table, unloaded, status, data, users, bounds>>

-----------------------------------------------------------------------------
(* Middleware.                                                             *)

Named(x) == {t \in listed : name[t] = x}

Resolve(r, x) ==
    /\ requests[r] = Idle /\ Free
    /\ \/ \E t \in Named(x) :
            requests' = [requests EXCEPT ![r] = [at |-> "resolved", name |-> x, on |-> t]]
       \/ /\ Named(x) = {} /\ Default # NoTenant
          /\ requests' = [requests EXCEPT ![r] = [at |-> "missed", name |-> x]]
    /\ UNCHANGED <<table, map, data, holder, served, bounds>>

\* a second look-up, under the lock again; with no default there is no answer
UseDefault(r) ==
    /\ requests[r].at = "missed" /\ Free
    /\ requests' = [requests EXCEPT ![r] =
          IF Default \in listed
          THEN [at |-> "resolved", name |-> @.name, on |-> Default] ELSE Idle]
    /\ UNCHANGED <<table, map, data, holder, served, bounds>>

\* without the lock; what is read in the middle of a change is not "active"
Admit(r) ==
    /\ requests[r].at = "resolved" /\ status[requests[r].on] = "active"
    /\ requests' = [requests EXCEPT ![r].at = "serving"]
    /\ UNCHANGED <<table, map, data, holder, served, bounds>>

Reject(r) ==
    /\ requests[r].at = "resolved"
    /\ status[requests[r].on] # "active" \/ holder.op \in {"active", "suspended"}
    /\ requests' = [requests EXCEPT ![r] = Idle]
    /\ UNCHANGED <<table, map, data, holder, served, bounds>>

\* an open of a database whose directory is gone fails
Serve(r) ==
    /\ requests[r].at = "serving"
    /\ LET q == requests[r]
       IN  IF data[q.on] # "none"
           THEN /\ data' = [data EXCEPT ![q.on] = "written"]
                /\ served' = [served EXCEPT ![q.name] = @ \cup {q.on}]
           ELSE UNCHANGED <<data, served>>
    /\ requests' = [requests EXCEPT ![r] = Idle]
    /\ UNCHANGED <<table, map, holder, bounds>>

-----------------------------------------------------------------------------
(* The end of the process, and NewManager with loadTenants: a query that   *)
(* fails and rows that cannot be scanned are passed over, and whoever reads *)
(* the rest is told nothing.                                               *)

Load(part) ==
    /\ \/ part = Live /\ UNCHANGED faults
       \/ Fault
    /\ listed' = part /\ unloaded' = Live \ part
    /\ status' = row

Restart ==
    /\ crashes < MaxCrashes /\ crashes' = crashes + 1
    /\ \E part \in SUBSET Live : Load(part)
    /\ holder' = Nobody
    /\ requests' = [r \in Request |-> Idle]
    /\ UNCHANGED <<table, data, served>>

Next ==
    \/ \E t \in Tenant : Create(t) \/ Suspend(t) \/ Activate(t) \/ Delete(t)
    \/ Insert \/ List \/ Undo \/ SetEntry \/ DropEntry
    \/ \E r \in Request, x \in Name : Resolve(r, x)
    \/ \E r \in Request : UseDefault(r) \/ Admit(r) \/ Reject(r) \/ Serve(r)
    \/ Restart

Spec == Init /\ [][Next]_vars

-----------------------------------------------------------------------------
HolderType ==
    [op : {"insert", "list"}, on : Tenant, name : Name]
      \cup [op : {"active", "suspended", "deleted"}, on : Tenant]

TypeOK ==
    /\ row \in [Tenant -> {"none", "active", "suspended", "deleted"}]
    /\ name \in [Tenant -> Name \cup {NoName}]
    /\ listed \subseteq Tenant /\ unloaded \subseteq Tenant
    /\ status \in [Tenant -> {"none", "active", "suspended", "deleted"}]
    /\ data \in [Tenant -> {"none", "empty", "written"}]
    /\ holder \in HolderType \cup {Nobody}
    /\ requests \in [Request -> {Idle} \cup [at : {"missed"}, name : Name]
          \cup [at : {"resolved", "serving"}, name : Name, on : Tenant]]
    /\ served \in [Name -> SUBSET Tenant]
    /\ faults \in 0 .. MaxFaults /\ crashes \in 0 .. MaxCrashes

(* When no operation is under way, the map is the table, but for the rows  *)
(* the last load could not read: failed statements and crashes between row *)
(* and entry leave no other difference behind.                             *)
Known == Live \ unloaded

MapIsTable ==
    Free => listed = Known /\ \A t \in listed : status[t] = row[t]

(* The types, and the map as the table says.                               *)
Consistent == TypeOK /\ MapIsTable

(* No failed attempt to create a tenant, and no other step either, takes   *)
(* the directory of a tenant that is not deleted and that the last load    *)
(* has read, or what was written there.                                    *)
LiveKeepsData ==
    [][\A t \in Known :
          /\ data[t] # "none" => data'[t] # "none"
          /\ data[t] = "written" => data'[t] = "written"]_vars

(* A subdomain never leads to the data of two tenants, not even over       *)
(* deletions, later creations and restarts.  The default tenant is aside:  *)
(* it gets every request whose look-up found nobody, and a look-up finds   *)
(* nobody only if no tenant that is not deleted has the name, except for   *)
(* those the last load could not read.                                     *)
NameIsOneTenant ==
    [][/\ \A x \in Name : Cardinality(served'[x] \ {Default}) <= 1
       /\ \A r \in Request :
             requests'[r].at = "missed" /\ requests[r].at # "missed" =>
                \A t \in Known : name[t] # requests'[r].name]_vars

(* Create looks for a duplicate and refuses a tenant that exists: whatever *)
(* comes of it, the directory of a tenant that is not deleted stays.  A    *)
(* process whose load failed finds no duplicate, fails at the primary key  *)
(* and removes the directory.                                              *)
ExistingStays ==
    [][\A t \in Live : data[t] # "none" => data'[t] # "none"]_vars
=============================================================================
