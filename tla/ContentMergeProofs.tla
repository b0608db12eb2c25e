-------------------------- MODULE ContentMergeProofs --------------------------
(***************************************************************************)
(* Proofs about ContentMerge and ConflictResolution: what the merger       *)
(* relies on when it has found no conflict, why it is right to, and why    *)
(* the resolver leaves it so.                                              *)
(***************************************************************************)
EXTENDS ConflictResolution, WellFoundedInduction, NaturalsInduction, TLAPS

Table(Row) == UNION {[D -> Row] : D \in SUBSET Block}

TxType == [on : Session, draft : Table(Stored), todo : Seq(ChangeType)]

Types ==
    /\ content \in Table(Stored)
    /\ rows \in [Session -> Table(Edited)]
    /\ deps \in [Session -> Table(Text)]
    /\ journal \in [Session -> Seq(ChangeType)]
    /\ stage \in [Session -> {"open", "queued", "merging", "merged", "failed"}]
    /\ calls \subseteq CallType
    /\ tx = NoTx \/ tx \in TxType
    /\ torn \subseteq Session \X Block
    /\ made \in 0 .. MaxCalls

Entries(q)   == {q[i] : i \in 1 .. Len(q)}
Change(op, b) == [op |-> op, block |-> b]

\* a deletion of the block that no insertion follows
EndsDeleted(q, b) ==
    \E j \in 1 .. Len(q) :
        q[j] = Change("delete", b) /\ \A i \in 1 .. Len(q) : i > j => q[i] # Change("insert", b)

\* calls of session s on block b that are at one of the given places
Calling(s, b, at) == \E c \in calls : c.on = s /\ c.block = b /\ c.at \in at

-----------------------------------------------------------------------------
(* The inductive invariant.                                                *)

\* calls that overlap put the block in doubt for good
Overlaps ==
    \A c, d \in calls :
        c # d /\ c.on = d.on /\ c.block = d.block => <<c.on, c.block>> \in torn

\* a copy that has only its hash to write has not been edited
Copies ==
    \A c \in calls : c.at \in {"read", "copied"} =>
        /\ c.block \in DOMAIN content
        /\ c.at = "copied" /\ stage[c.on] = "open" /\ <<c.on, c.block>> \notin torn =>
               c.block \in DOMAIN rows[c.on] /\ rows[c.on][c.block].base = c.row

\* the merger sees what each row began with: its hash, or an insertion
Known ==
    \A s \in Session : \A b \in DOMAIN rows[s] :
        /\ \/ <<s, b>> \in torn \/ Calling(s, b, {"copied", "insert"})
           \/ b \in DOMAIN deps[s] /\ deps[s][b] = rows[s][b].base.text
           \/ Change("insert", b) \in Entries(journal[s])
        /\ rows[s][b].dirty \/ b \in DOMAIN content

\* as InDoubt, for good
Lost(s, b) ==
    \/ <<s, b>> \in torn
    \/ stage[s] # "open" /\ \E c \in calls : c.on = s /\ c.block = b

Rooted ==
    \A b \in DOMAIN content :
        LET p == content[b].parent
        IN  p = NoBlock \/ p \in DOMAIN content \/ \E s \in Session : Lost(s, p)

\* what Accept has checked of session s
Checked(s) ==
    /\ \A b \in DOMAIN deps[s] : b \in DOMAIN content /\ content[b].text = deps[s][b]
    /\ \A b \in DOMAIN rows[s] :
          LET p == rows[s][b].parent
          IN  ~rows[s][b].dirty \/ p = NoBlock \/ p \in DOMAIN content \/ p \in DOMAIN rows[s]

\* the draft has the text of session s
SameText(s, draft, b) ==
    /\ b \in DOMAIN rows[s]
    /\ draft[b].text = rows[s][b].text /\ draft[b].layout = rows[s][b].layout

\* what the draft of session s makes of a block of content.db
Redrawn(s, draft, b) ==
    /\ b \in DOMAIN draft
    /\ draft[b].parent = content[b].parent
    /\ content[b].deleted => draft[b].deleted
    /\ draft[b].deleted =>
          content[b].deleted \/ Change("delete", b) \in Entries(journal[s])
    /\ \/ SameText(s, draft, b)
       \/ draft[b].text = content[b].text /\ draft[b].layout = content[b].layout
    /\ (\A e \in Entries(journal[s]) : e.block # b) => draft[b] = content[b]

\* a block that the draft of session s adds
Added(s, draft, b) ==
    /\ SameText(s, draft, b) /\ draft[b].parent = rows[s][b].parent
    /\ draft[b].deleted => Change("delete", b) \in Entries(journal[s])

\* what has been replayed of the journal of session s is in the draft
Replayed(s, draft, todo) ==
    \A b \in Block :
        /\ Change("insert", b) \in Entries(journal[s]) \ Entries(todo) =>
              b \in DOMAIN draft \ DOMAIN content /\ SameText(s, draft, b)
        /\ Change("update", b) \in Entries(journal[s]) \ Entries(todo) /\ b \in DOMAIN draft =>
              SameText(s, draft, b)
        /\ EndsDeleted(journal[s], b) =>
              \/ EndsDeleted(todo, b)
              \/ /\ Change("insert", b) \notin Entries(todo)
                 /\ b \in DOMAIN draft => draft[b].deleted

Merging ==
    tx # NoTx =>
        /\ stage[tx.on] = "merging"
        /\ Checked(tx.on)
        /\ Entries(tx.todo) \subseteq Entries(journal[tx.on])
        /\ \A b \in DOMAIN content : Redrawn(tx.on, tx.draft, b)
        /\ \A b \in DOMAIN tx.draft \ DOMAIN content : Added(tx.on, tx.draft, b)
        /\ Replayed(tx.on, tx.draft, tx.todo)

MergeInv == Types /\ Overlaps /\ Copies /\ Known /\ Rooted /\ Merging

\* what a session shows of a block is what its journal says (the resolver
\* breaks this: it changes rows without a change in the journal)
Shown ==
    /\ \A s \in Session : \A b \in DOMAIN rows[s] :
          /\ rows[s][b].base.deleted => b \in DOMAIN content /\ content[b].deleted
          /\ ~rows[s][b].new =>
                b \in DOMAIN content /\ rows[s][b].parent = content[b].parent
    /\ \A c \in calls : c.at \in {"read", "copied"} =>
          /\ c.block \in DOMAIN content /\ c.row.parent = content[c.block].parent
          /\ c.row.deleted => content[c.block].deleted
    /\ \A s \in Session : \A b \in DOMAIN rows[s] : <<s, b>> \notin torn =>
          /\ rows[s][b].new =>
                Calling(s, b, {"insert"}) \/ Change("insert", b) \in Entries(journal[s])
          /\ rows[s][b].dirty /\ ~rows[s][b].deleted =>
                \/ Calling(s, b, {"insert", "update"})
                \/ Change("insert", b) \in Entries(journal[s])
                \/ Change("update", b) \in Entries(journal[s])
          /\ rows[s][b].deleted =>
                \/ rows[s][b].base.deleted \/ Calling(s, b, {"delete"})
                \/ EndsDeleted(journal[s], b)
          /\ Calling(s, b, {"delete"}) => rows[s][b].deleted
          /\ Calling(s, b, {"insert"}) => ~rows[s][b].deleted

ShownInv == MergeInv /\ Shown

DoingType ==
    \/ doing = Nothing
    \/ doing \in [does : {"keep_session", "keep_content"}, on : Session,
                  block : Block, row : Stored]
    \/ doing \in [does : {"discard", "discard_deps"}, on : Session, block : Block]

\* nothing is left in the journal of what was discarded
Discards ==
    /\ doing.does = "keep_content" => doing.block \in DOMAIN content
    /\ doing.does \in {"discard", "discard_deps"} =>
          stage[doing.on] # "open" /\ doing.block \notin DOMAIN rows[doing.on]
    /\ doing.does = "discard_deps" =>
          \A e \in Entries(journal[doing.on]) : e.block # doing.block
    /\ \A s \in Session, b \in Block : <<s, b>> \in dropped =>
          stage[s] # "open" /\ \A e \in Entries(journal[s]) : e.block # b

RInv ==
    /\ MergeInv /\ DoingType /\ Discards
    /\ dropped \subseteq Session \X Block /\ choices \in 0 .. MaxChoices

-----------------------------------------------------------------------------
(* Journals.                                                               *)

(* One more entry at the end.                                              *)
LEMMA AppendEntries ==
  ASSUME NEW T, NEW q \in Seq(T), NEW e \in T
  PROVE  Append(q, e) \in Seq(T) /\ Entries(Append(q, e)) = Entries(q) \cup {e}
  BY DEF Entries

(* The first entry and the others.                                         *)
LEMMA TailEntries ==
  ASSUME NEW T, NEW q \in Seq(T), q # <<>>
  PROVE  /\ Head(q) \in T /\ Tail(q) \in Seq(T)
         /\ Entries(q) = Entries(Tail(q)) \cup {Head(q)}
  BY DEF Entries

(* What is appended after a deletion leaves the block deleted unless it is *)
(* an insertion; and a deletion does so itself.                            *)
LEMMA AppendDeleted ==
  ASSUME NEW T, NEW q \in Seq(T), NEW e \in T, NEW b
  PROVE  /\ EndsDeleted(q, b) /\ e # Change("insert", b) => EndsDeleted(Append(q, e), b)
         /\ e = Change("delete", b) => EndsDeleted(Append(q, e), b)
  <1>1. /\ Len(Append(q, e)) = Len(q) + 1 /\ Len(q) \in Nat
        /\ \A i \in 1 .. Len(q) : Append(q, e)[i] = q[i]
        /\ Append(q, e)[Len(q) + 1] = e
    OBVIOUS
  <1>2. ASSUME EndsDeleted(q, b), e # Change("insert", b)
        PROVE  EndsDeleted(Append(q, e), b)
    <2>1. PICK j \in 1 .. Len(q) :
             q[j] = Change("delete", b)
             /\ \A i \in 1 .. Len(q) : i > j => q[i] # Change("insert", b)
      BY <1>2 DEF EndsDeleted
    <2>2. j \in 1 .. Len(q) + 1 /\ Append(q, e)[j] = Change("delete", b)
      BY <1>1, <2>1
    <2>3. \A i \in 1 .. Len(q) + 1 : i > j => Append(q, e)[i] # Change("insert", b)
      BY <1>1, <1>2, <2>1
    <2> QED
      BY <1>1, <2>2, <2>3 DEF EndsDeleted
  <1>3. ASSUME e = Change("delete", b) PROVE EndsDeleted(Append(q, e), b)
    <2>1. Len(q) + 1 \in 1 .. Len(q) + 1
          /\ \A i \in 1 .. Len(q) + 1 : ~(i > Len(q) + 1)
      BY <1>1
    <2> QED
      BY <1>1, <1>3, <2>1 DEF EndsDeleted
  <1> QED
    BY <1>2, <1>3

(* A block that a sequence leaves deleted is left so by what follows the   *)
(* first entry, or by the first entry alone.                               *)
LEMMA TailDeleted ==
  ASSUME NEW T, NEW q \in Seq(T), q # <<>>, NEW b, EndsDeleted(q, b)
  PROVE  \/ EndsDeleted(Tail(q), b)
         \/ Head(q) = Change("delete", b) /\ Change("insert", b) \notin Entries(Tail(q))
  <1>1. /\ Len(q) \in Nat /\ Len(q) > 0 /\ Len(Tail(q)) = Len(q) - 1
        /\ \A i \in 1 .. Len(Tail(q)) : Tail(q)[i] = q[i + 1]
        /\ Head(q) = q[1]
    OBVIOUS
  <1>2. PICK j \in 1 .. Len(q) :
           q[j] = Change("delete", b)
           /\ \A i \in 1 .. Len(q) : i > j => q[i] # Change("insert", b)
    BY DEF EndsDeleted
  <1>3. CASE j = 1
    <2>1. \A i \in 1 .. Len(Tail(q)) : Tail(q)[i] # Change("insert", b)
      BY <1>1, <1>2, <1>3
    <2> QED
      BY <1>1, <1>2, <1>3, <2>1 DEF Entries
  <1>4. CASE j # 1
    <2>1. j - 1 \in 1 .. Len(Tail(q)) /\ Tail(q)[j - 1] = Change("delete", b)
      BY <1>1, <1>2, <1>4
    <2>2. \A i \in 1 .. Len(Tail(q)) : i > j - 1 => Tail(q)[i] # Change("insert", b)
      BY <1>1, <1>2
    <2> QED
      BY <2>1, <2>2 DEF EndsDeleted
  <1> QED
    BY <1>3, <1>4

(* A set of numbers with 0 and every successor has them all.               *)
LEMMA Counting ==
  ASSUME NEW S, S \subseteq Nat, 0 \in S, \A n \in S : n + 1 \in S
  PROVE  S = Nat
  <1> SUFFICES ASSUME Nat \ S # {} PROVE FALSE
    OBVIOUS
  <1>1. \E m \in Nat \ S : \A n \in Nat \ S : <<n, m>> \notin OpToRel(<, Nat)
    <2>1. Nat \ S \subseteq Nat
      OBVIOUS
    <2> QED
      BY <2>1, NatLessThanWellFounded, WFMin
  <1>2. \A t, m \in Nat : t < m => <<t, m>> \in OpToRel(<, Nat)
    BY Zenon DEF OpToRel
  <1>3. PICK m \in Nat \ S : \A n \in Nat \ S : ~(n < m)
    BY <1>1, <1>2, Zenon
  <1>4. m # 0 /\ m - 1 \in Nat /\ m - 1 < m /\ (m - 1) + 1 = m
    BY <1>3
  <1> QED
    BY <1>3, <1>4

(* How the changes of the other blocks are gathered.                       *)
LEMMA WithoutStep ==
  ASSUME NEW T, NEW q \in Seq(T), NEW b
  PROVE  \E f : /\ Without(q, b) = f[Len(q)] /\ f[0] = <<>>
                /\ \A i \in 1 .. Len(q) :
                     f[i] = IF q[i].block = b THEN f[i - 1] ELSE Append(f[i - 1], q[i])
  <1> DEFINE Is(f, n) == f = [i \in 0 .. n |-> IF i = 0 THEN <<>>
                                ELSE IF q[i].block = b THEN f[i - 1] ELSE Append(f[i - 1], q[i])]
             S == {n \in Nat : \E f : Is(f, n)}
  <1>1. 0 \in S
    <2>1. Is([i \in 0 .. 0 |-> <<>>], 0)
      OBVIOUS
    <2> QED
      BY <2>1
  <1>2. ASSUME NEW n \in S PROVE n + 1 \in S
    <2>1. PICK f : Is(f, n)
      OBVIOUS
    <2> DEFINE g == [i \in 0 .. n + 1 |->
                        IF i = n + 1 THEN IF q[i].block = b THEN f[i - 1] ELSE Append(f[i - 1], q[i]) ELSE f[i]]
    <2>2. \A i \in 0 .. n : g[i] = f[i]
      OBVIOUS
    <2>3. ASSUME NEW i \in 0 .. n + 1
          PROVE  g[i] = IF i = 0 THEN <<>>
                        ELSE IF q[i].block = b THEN g[i - 1] ELSE Append(g[i - 1], q[i])
      <3>1. CASE i = n + 1
        <4>1. g[i - 1] = f[i - 1] /\ i # 0
          BY <3>1
        <4> QED
          BY <3>1, <4>1
      <3>2. CASE i \in 0 .. n
        <4>1. g[i] = f[i] /\ (i # 0 => g[i - 1] = f[i - 1])
          BY <3>2
        <4>2. f[i] = IF i = 0 THEN <<>>
                     ELSE IF q[i].block = b THEN f[i - 1] ELSE Append(f[i - 1], q[i])
          BY <2>1, <3>2
        <4> QED
          BY <4>1, <4>2
      <3> QED
        BY <3>1, <3>2
    <2>4. Is(g, n + 1)
      <3> g = [i \in 0 .. n + 1 |-> g[i]]
        OBVIOUS
      <3> HIDE DEF g
      <3> QED
        BY <2>3
    <2> HIDE DEF Is
    <2> QED
      BY <2>4
  <1>3. S = Nat
    <2> HIDE DEF S
    <2>1. S \subseteq Nat
      BY DEF S
    <2> QED
      BY <1>1, <1>2, <2>1, Counting
  <1>4. \E f : Is(f, Len(q))
    BY <1>3
  <1> DEFINE F == CHOOSE f : Is(f, Len(q))
  <1>5. Is(F, Len(q))
    <2> HIDE DEF Is
    <2> QED
      BY <1>4
  <1>6. Without(q, b) = F[Len(q)]
    BY DEF Without
  <1> HIDE DEF F
  <1>7. Len(q) \in Nat
    OBVIOUS
  <1> DEFINE Value(i) == IF i = 0 THEN <<>>
                         ELSE IF q[i].block = b THEN F[i - 1] ELSE Append(F[i - 1], q[i])
  <1>8. F = [i \in 0 .. Len(q) |-> Value(i)]
    BY <1>5
  <1>9. \A i \in 0 .. Len(q) : F[i] = Value(i)
    <2> HIDE DEF Value
    <2> QED
      BY <1>8
  <1>10. F[0] = <<>>
    BY <1>7, <1>9
  <1>11. ASSUME NEW i \in 1 .. Len(q)
        PROVE  F[i] = IF q[i].block = b THEN F[i - 1] ELSE Append(F[i - 1], q[i])
    <2>1. i \in 0 .. Len(q) /\ i # 0
      BY <1>7
    <2> QED
      BY <1>9, <2>1
  <1> HIDE DEF Is
  <1> QED
    BY <1>6, <1>10, <1>11

(* The changes of the other blocks, and no others.                         *)
LEMMA WithoutKeeps ==
  ASSUME NEW T, NEW q \in Seq(T), NEW b
  PROVE  /\ Without(q, b) \in Seq(T)
         /\ Entries(Without(q, b)) = {e \in Entries(q) : e.block # b}
  <1>1. PICK f : /\ Without(q, b) = f[Len(q)] /\ f[0] = <<>>
                 /\ \A i \in 1 .. Len(q) :
                     f[i] = IF q[i].block = b THEN f[i - 1] ELSE Append(f[i - 1], q[i])
    BY WithoutStep
  <1> DEFINE Good(i) == /\ f[i] \in Seq(T)
                        /\ Entries(f[i]) = {e \in {q[j] : j \in 1 .. i} : e.block # b}
             S == {i \in Nat : i \in 0 .. Len(q) => Good(i)}
  <1>2. 0 \in S
    <2>1. f[0] \in Seq(T) /\ Entries(f[0]) = {}
      BY <1>1 DEF Entries
    <2>2. {q[j] : j \in 1 .. 0} = {}
      OBVIOUS
    <2> QED
      BY <2>1, <2>2
  <1>3. ASSUME NEW i \in S PROVE i + 1 \in S
    <2> SUFFICES ASSUME i + 1 \in 0 .. Len(q) PROVE Good(i + 1)
      OBVIOUS
    <2>1. i \in Nat /\ Good(i) /\ i + 1 \in 1 .. Len(q)
      OBVIOUS
    <2>2. f[i + 1] = IF q[i + 1].block = b THEN f[i] ELSE Append(f[i], q[i + 1])
      BY <1>1, <2>1
    <2>3. {q[j] : j \in 1 .. i + 1} = {q[j] : j \in 1 .. i} \cup {q[i + 1]}
      BY <2>1
    <2>4. q[i + 1] \in T
      BY <2>1
    <2>5. Append(f[i], q[i + 1]) \in Seq(T) /\ Entries(Append(f[i], q[i + 1])) = Entries(f[i]) \cup {q[i + 1]}
      BY <2>1, <2>4, AppendEntries
    <2> QED
      BY <2>1, <2>2, <2>3, <2>5
  <1>4. S = Nat
    <2> HIDE DEF S
    <2>1. S \subseteq Nat
      BY DEF S
    <2> QED
      BY <1>2, <1>3, <2>1, Counting
  <1>5. Good(Len(q))
    <2>1. Len(q) \in Nat
      OBVIOUS
    <2> HIDE DEF Good
    <2> QED
      BY <1>4, <2>1
  <1> QED
    BY <1>1, <1>5 DEF Entries

-----------------------------------------------------------------------------
(* Tables.                                                                 *)

(* What a table holds.                                                     *)
LEMMA TableRows ==
  ASSUME NEW Row, NEW f
  PROVE  /\ f \in Table(Row) <=> IsTable(f, Row)
         /\ f \in Table(Row) => \A b \in DOMAIN f : b \in Block /\ f[b] \in Row
  BY DEF Table, IsTable

(* A row written into a table.                                             *)
LEMMA PutRow ==
  ASSUME NEW Row, NEW f \in Table(Row), NEW b \in Block, NEW r \in Row
  PROVE  /\ Put(f, b, r) \in Table(Row)
         /\ DOMAIN Put(f, b, r) = DOMAIN f \cup {b}
         /\ Put(f, b, r)[b] = r
         /\ \A c \in DOMAIN f \ {b} : Put(f, b, r)[c] = f[c]
  <1>1. DOMAIN f \cup {b} \subseteq Block /\ \A c \in DOMAIN f : f[c] \in Row
    BY TableRows
  <1>2. DOMAIN Put(f, b, r) = DOMAIN f \cup {b} /\ Put(f, b, r)[b] = r
        /\ \A c \in DOMAIN f \ {b} : Put(f, b, r)[c] = f[c]
    BY DEF Put
  <1>3. Put(f, b, r) \in [DOMAIN f \cup {b} -> Row]
    BY <1>1 DEF Put
  <1>4. Put(f, b, r) \in Table(Row)
    BY <1>1, <1>3 DEF Table
  <1> QED
    BY <1>2, <1>4

(* A table in which a row that is there is written over.                   *)
LEMMA TableEdit ==
  ASSUME NEW Row, NEW f, f \in Table(Row), NEW b \in DOMAIN f, NEW r
  PROVE  [f EXCEPT ![b] = r] = Put(f, b, r)
  <1>1. f = [c \in DOMAIN f |-> f[c]]
    BY TableRows DEF IsTable
  <1>2. DOMAIN f = DOMAIN f \cup {b}
    OBVIOUS
  <1> QED
    BY <1>1, <1>2 DEF Put

\* row b of session s becomes r
SetRow(s, b, r) == rows' = [rows EXCEPT ![s] = Put(@, b, r)]

(* What becomes of the other rows.                                         *)
LEMMA RowSet ==
  ASSUME Types, NEW s \in Session, NEW b \in Block, NEW r \in Edited, SetRow(s, b, r)
  PROVE  /\ rows' \in [Session -> Table(Edited)]
         /\ DOMAIN rows'[s] = DOMAIN rows[s] \cup {b} /\ rows'[s][b] = r
         /\ \A c \in DOMAIN rows[s] \ {b} : rows'[s][c] = rows[s][c]
         /\ \A z \in Session \ {s} : rows'[z] = rows[z]
  <1>1. rows \in [Session -> Table(Edited)] /\ rows[s] \in Table(Edited)
    BY DEF Types
  <1>2. Put(rows[s], b, r) \in Table(Edited)
    BY <1>1, PutRow
  <1>3. /\ rows'[s] = Put(rows[s], b, r) /\ rows' \in [Session -> Table(Edited)]
        /\ \A z \in Session \ {s} : rows'[z] = rows[z]
    BY <1>1, <1>2 DEF SetRow
  <1> QED
    BY <1>1, <1>3, PutRow

(* The fields of a row.                                                    *)
LEMMA RowFields ==
  ASSUME Types, NEW s \in Session, NEW b \in DOMAIN rows[s]
  PROVE  /\ b \in Block /\ rows[s][b] \in Edited /\ rows[s] \in Table(Edited)
         /\ rows[s][b].base \in Stored /\ rows[s][b].parent \in Block \cup {NoBlock}
  <1>1. rows[s] \in Table(Edited)
    BY DEF Types
  <1>2. b \in Block /\ rows[s][b] \in Edited
    BY <1>1, TableRows
  <1> QED
    BY <1>1, <1>2 DEF Edited

-----------------------------------------------------------------------------
(* What the steps do.                                                      *)

(* A change of a row, and the call that has yet to write it into the       *)
(* journal.                                                                *)
Edits(s, b, at) ==
    /\ Start([at |-> at, on |-> s, block |-> b])
    /\ UNCHANGED <<content, deps, journal, stage, tx>>
    /\ \/ UNCHANGED rows /\ b \notin DOMAIN rows[s] /\ at # "insert"
       \/ \E r \in Edited :
             /\ SetRow(s, b, r) /\ r.dirty
             /\ IF at = "insert"
                THEN b \notin DOMAIN rows[s] /\ r.new /\ ~r.deleted /\ ~r.base.deleted
                ELSE /\ b \in DOMAIN rows[s] /\ r.base = rows[s][b].base
                     /\ r.new = rows[s][b].new /\ r.parent = rows[s][b].parent
             /\ at = "update" => r.deleted = rows[s][b].deleted
             /\ at = "delete" => r.deleted

(* The three operations of the editor are such changes.                    *)
LEMMA EditSteps ==
  ASSUME Types, NEW s \in Session, NEW b \in Block
  PROVE  /\ UpdateBlock(s, b) => Edits(s, b, "update")
         /\ DeleteBlock(s, b) => Edits(s, b, "delete")
         /\ InsertBlock(s, b) => Edits(s, b, "insert")
  <1>1. rows \in [Session -> Table(Edited)] /\ rows[s] \in Table(Edited)
    BY DEF Types
  <1>2. ASSUME UpdateBlock(s, b) PROVE Edits(s, b, "update")
    <2>1. PICK t \in Text, l \in Layout :
             rows' = IF b \in DOMAIN rows[s]
                     THEN [rows EXCEPT ![s][b].text = t, ![s][b].layout = l,
                                       ![s][b].dirty = TRUE]
                     ELSE rows
      BY <1>2 DEF UpdateBlock
    <2> DEFINE r == [rows[s][b] EXCEPT !.text = t, !.layout = l, !.dirty = TRUE]
    <2>2. CASE b \in DOMAIN rows[s]
      <3>1. rows[s][b] \in Edited
        BY <2>2, RowFields
      <3>2. /\ r \in Edited /\ r.dirty /\ r.base = rows[s][b].base
            /\ r.deleted = rows[s][b].deleted
            /\ r.new = rows[s][b].new /\ r.parent = rows[s][b].parent
        BY <3>1 DEF Edited
      <3>3. rows' = [rows EXCEPT ![s] = [rows[s] EXCEPT ![b] = r]]
        BY <1>1, <2>1, <2>2
      <3> HIDE DEF r
      <3>4. SetRow(s, b, r)
        <4>1. [rows[s] EXCEPT ![b] = r] = Put(rows[s], b, r)
          BY <1>1, <2>2, TableEdit
        <4> QED
          BY <3>3, <4>1 DEF SetRow
      <3> QED
        BY <1>2, <2>2, <3>2, <3>4 DEF Edits, UpdateBlock
    <2>3. CASE b \notin DOMAIN rows[s]
      BY <1>2, <2>1, <2>3 DEF Edits, UpdateBlock
    <2> QED
      BY <2>2, <2>3
  <1>3. ASSUME DeleteBlock(s, b) PROVE Edits(s, b, "delete")
    <2> DEFINE r == [rows[s][b] EXCEPT !.deleted = TRUE, !.dirty = TRUE]
    <2>1. CASE b \in DOMAIN rows[s]
      <3>1. rows[s][b] \in Edited
        BY <2>1, RowFields
      <3>2. /\ r \in Edited /\ r.dirty /\ r.base = rows[s][b].base /\ r.deleted
            /\ r.new = rows[s][b].new /\ r.parent = rows[s][b].parent
        BY <3>1 DEF Edited
      <3>3. rows' = [rows EXCEPT ![s] = [rows[s] EXCEPT ![b] = r]]
        BY <1>1, <1>3, <2>1 DEF DeleteBlock
      <3> HIDE DEF r
      <3>4. SetRow(s, b, r)
        <4>1. [rows[s] EXCEPT ![b] = r] = Put(rows[s], b, r)
          BY <1>1, <2>1, TableEdit
        <4> QED
          BY <3>3, <4>1 DEF SetRow
      <3> QED
        BY <1>3, <2>1, <3>2, <3>4 DEF Edits, DeleteBlock
    <2>2. CASE b \notin DOMAIN rows[s]
      BY <1>3, <2>2 DEF Edits, DeleteBlock
    <2> QED
      BY <2>1, <2>2
  <1>4. ASSUME InsertBlock(s, b) PROVE Edits(s, b, "insert")
    <2>1. PICK p \in Block \cup {NoBlock} :
             SetRow(s, b, EditedRow([First EXCEPT !.parent = p], TRUE, TRUE, First))
      BY <1>4 DEF InsertBlock, SetRow
    <2> DEFINE r == EditedRow([First EXCEPT !.parent = p], TRUE, TRUE, First)
    <2>2. r \in Edited /\ r.dirty /\ r.new /\ ~r.deleted /\ ~r.base.deleted
      BY ContentAssumption DEF EditedRow, First, Edited, Stored, Layout
    <2> HIDE DEF r
    <2>3. SetRow(s, b, r)
      BY <2>1 DEF r
    <2> QED
      BY <1>4, <2>2, <2>3 DEF Edits, InsertBlock
  <1> QED
    BY <1>2, <1>3, <1>4

(* The fields of a call.                                                   *)
LEMMA CallFields ==
  ASSUME Types, NEW c \in calls
  PROVE  /\ c.on \in Session /\ c.block \in Block
         /\ c.at \in {"read", "copied", "insert", "update", "delete"}
         /\ c.at \in {"read", "copied"} =>
               /\ c.row \in Stored
               /\ c \in [at : {"read", "copied"}, on : Session, block : Block, row : Stored]
  BY DEF Types, CallType

(* A call starts in an open session; if another is at the block, that is   *)
(* in doubt.                                                               *)
LEMMA StartsCall ==
  ASSUME NEW call, Start(call)
  PROVE  /\ stage[call.on] = "open" /\ calls' = calls \cup {call}
         /\ torn \subseteq torn' /\ torn' \subseteq torn \cup {<<call.on, call.block>>}
         /\ \A c \in calls : c.on = call.on /\ c.block = call.block =>
               <<call.on, call.block>> \in torn'
         /\ made' = made + 1 /\ made < MaxCalls
  BY DEF Start

\* call c writes the row it has read
CopiesRow(c) ==
    /\ c.at = "read" /\ stage[c.on] = "open"
    /\ \E d \in CallType :
          /\ d.at = "copied" /\ d.on = c.on /\ d.block = c.block /\ d.row = c.row
          /\ calls' = (calls \ {c}) \cup {d}
    /\ \E r \in Edited :
          /\ SetRow(c.on, c.block, r) /\ ~r.dirty /\ ~r.new
          /\ r.base = c.row /\ r.deleted = c.row.deleted /\ r.parent = c.row.parent
    /\ UNCHANGED <<content, deps, journal, stage, tx, torn, made>>

(* The second step of a copy.                                              *)
LEMMA CopySteps ==
  ASSUME Types, CopyRow
  PROVE  \E c \in calls : CopiesRow(c)
  <1>1. PICK c \in calls :
           /\ c.at = "read" /\ stage[c.on] = "open"
           /\ SetRow(c.on, c.block, EditedRow(c.row, FALSE, FALSE, c.row))
           /\ calls' = (calls \ {c}) \cup {[c EXCEPT !.at = "copied"]}
           /\ UNCHANGED <<content, deps, journal, stage, tx, torn, made>>
    BY DEF CopyRow, SetRow
  <1>2. c \in [at : {"read", "copied"}, on : Session, block : Block, row : Stored]
    BY <1>1, CallFields
  <1> DEFINE d == [c EXCEPT !.at = "copied"]
             r == EditedRow(c.row, FALSE, FALSE, c.row)
  <1>3. d \in CallType /\ d.at = "copied" /\ d.on = c.on /\ d.block = c.block /\ d.row = c.row
    BY <1>2 DEF CallType
  <1>4. /\ r \in Edited /\ ~r.dirty /\ ~r.new
        /\ r.base = c.row /\ r.deleted = c.row.deleted /\ r.parent = c.row.parent
    <2>1. c.row \in Stored
      BY <1>2
    <2> QED
      BY <2>1 DEF EditedRow, Edited, Stored
  <1>5. SetRow(c.on, c.block, r) /\ calls' = (calls \ {c}) \cup {d}
    BY <1>1
  <1> HIDE DEF d, r
  <1> QED
    BY <1>1, <1>3, <1>4, <1>5 DEF CopiesRow

(* Steps that change no session: calls end, but not as they should, and    *)
(* no session is opened.                                                   *)
Ends ==
    /\ UNCHANGED <<rows, deps, journal, made>>
    /\ calls' \subseteq calls /\ torn \subseteq torn'
    /\ torn' \subseteq torn \cup {<<c.on, c.block>> : c \in calls}
    /\ \A c \in calls \ calls' :
          (c.at = "read" /\ stage[c.on] = "open") \/ <<c.on, c.block>> \in torn'
    /\ \A s \in Session : stage'[s] = "open" => stage[s] = "open"

\* the steps of the merger, in one
Merges ==
    \/ \E s \in Session : Accept(s) \/ Refuse(s)
    \/ ApplyInsert \/ ApplyUpdate \/ ApplyDelete \/ Rollback \/ Commit

(* The merger, the queue and the ends of calls and of the process.         *)
LEMMA EndSteps ==
  ASSUME Types
  PROVE  /\ Merges => Ends
         /\ (\E s \in Session : Submit(s)) => Ends
         /\ CutShort => Ends
         /\ ScanFails => Ends
         /\ Crash => Ends
         /\ UNCHANGED vars => Ends
  <1>1. ASSUME Merges PROVE Ends
    BY <1>1 DEF Ends, Merges, Types, Accept, Refuse, ApplyInsert, ApplyUpdate, ApplyDelete,
                Replay, Rollback, Commit, NoTx, TxType
  <1>2. ASSUME NEW s \in Session, Submit(s) PROVE Ends
    BY <1>2 DEF Ends, Types, Submit
  <1>3. ASSUME CutShort PROVE Ends
    BY <1>3 DEF Ends, CutShort
  <1>4. ASSUME Crash PROVE Ends
    BY <1>4 DEF Ends, Crash, Types
  <1>5. ASSUME UNCHANGED vars PROVE Ends
    BY <1>5 DEF Ends, vars
  <1>6. ASSUME ScanFails PROVE Ends
    BY <1>6 DEF Ends, ScanFails
  <1> QED
    BY <1>1, <1>2, <1>3, <1>4, <1>5, <1>6

(* The steps of a session and of the merger, by what they do.              *)
LEMMA StepKinds ==
  ASSUME Types, [Next]_vars
  PROVE  \/ \E s \in Session, b \in Block : CopyBlock(s, b)
         \/ \E s \in Session, b \in Block, at \in {"insert", "update", "delete"} : Edits(s, b, at)
         \/ \E c \in calls : CopiesRow(c)
         \/ CopyDeps \/ LogChange \/ Ends
  <1>1. CASE \E s \in Session, b \in Block : SessionStep(s, b)
    BY <1>1, EditSteps DEF SessionStep
  <1>2. CASE CallStep
    BY <1>2, CopySteps, EndSteps DEF CallStep
  <1>3. CASE MergerStep
    BY <1>3, EndSteps DEF MergerStep, Merges
  <1>4. CASE (\E s \in Session : Submit(s)) \/ Crash \/ UNCHANGED vars
    BY <1>4, EndSteps
  <1> QED
    BY <1>1, <1>2, <1>3, <1>4 DEF Next

-----------------------------------------------------------------------------
(* Types.                                                                  *)

(* The variables keep their types in every step of a session.              *)
LEMMA SessionTypes ==
  ASSUME Types, NEW s \in Session, NEW b \in Block, NEW at \in {"insert", "update", "delete"},
         CopyBlock(s, b) \/ Edits(s, b, at)
  PROVE  Types'
  <1>1. ASSUME NEW call \in CallType, Start(call), call.on = s, call.block = b
        PROVE  /\ calls' \subseteq CallType /\ torn' \subseteq Session \X Block
               /\ made' \in 0 .. MaxCalls
    <2>1. made' = made + 1 /\ made < MaxCalls /\ calls' = calls \cup {call}
          /\ torn' \subseteq torn \cup {<<s, b>>}
      BY <1>1, StartsCall
    <2> QED
      BY <2>1, ContentAssumption DEF Types
  <1>2. CASE CopyBlock(s, b)
    <2>1. content[b] \in Stored /\ Start([at |-> "read", on |-> s, block |-> b, row |-> content[b]])
      BY <1>2, TableRows DEF CopyBlock, Types
    <2>2. [at |-> "read", on |-> s, block |-> b, row |-> content[b]] \in CallType
      BY <2>1 DEF CallType
    <2>3. calls' \subseteq CallType /\ torn' \subseteq Session \X Block /\ made' \in 0 .. MaxCalls
      BY <1>1, <2>1, <2>2
    <2> QED
      BY <1>2, <2>3 DEF CopyBlock, Types
  <1>3. CASE Edits(s, b, at)
    <2>1. [at |-> at, on |-> s, block |-> b] \in CallType
      BY DEF CallType
    <2>2. calls' \subseteq CallType /\ torn' \subseteq Session \X Block /\ made' \in 0 .. MaxCalls
      BY <1>1, <1>3, <2>1 DEF Edits
    <2>3. rows' \in [Session -> Table(Edited)]
      BY <1>3, RowSet DEF Edits, Types
    <2> QED
      BY <1>3, <2>2, <2>3 DEF Edits, Types
  <1> QED
    BY <1>2, <1>3

(* And of a call.                                                          *)
LEMMA CallTypes ==
  ASSUME Types, (\E c \in calls : CopiesRow(c)) \/ CopyDeps \/ LogChange
  PROVE  Types'
  <1>1. ASSUME NEW c \in calls, CopiesRow(c) PROVE Types'
    <2>1. c.on \in Session /\ c.block \in Block
      BY CallFields
    <2>2. rows' \in [Session -> Table(Edited)] /\ calls' \subseteq CallType
      BY <1>1, <2>1, RowSet DEF CopiesRow, Types
    <2> QED
      BY <1>1, <2>2 DEF CopiesRow, Types
  <1>2. CASE CopyDeps
    <2>1. PICK c \in calls :
             /\ c.at = "copied" /\ deps' = [deps EXCEPT ![c.on] = Put(@, c.block, c.row.text)]
             /\ calls' = calls \ {c}
      BY <1>2 DEF CopyDeps
    <2>2. c.on \in Session /\ c.block \in Block /\ c.row.text \in Text
      BY <2>1, CallFields DEF Stored
    <2>3. deps[c.on] \in Table(Text)
      BY <2>2 DEF Types
    <2>4. Put(deps[c.on], c.block, c.row.text) \in Table(Text)
      BY <2>2, <2>3, PutRow
    <2>5. deps' \in [Session -> Table(Text)]
      BY <2>1, <2>2, <2>4 DEF Types
    <2> QED
      BY <1>2, <2>1, <2>5 DEF CopyDeps, Types
  <1>3. CASE LogChange
    <2>1. PICK c \in calls :
             /\ c.at \in {"insert", "update", "delete"}
             /\ journal' = [journal EXCEPT ![c.on] =
                               Append(@, [op |-> c.at, block |-> c.block])]
             /\ calls' = calls \ {c}
      BY <1>3 DEF LogChange
    <2>2. c.on \in Session /\ [op |-> c.at, block |-> c.block] \in ChangeType
      BY <2>1, CallFields DEF ChangeType
    <2>3. Append(journal[c.on], [op |-> c.at, block |-> c.block]) \in Seq(ChangeType)
      BY <2>2 DEF Types
    <2>4. journal' \in [Session -> Seq(ChangeType)]
      BY <2>1, <2>2, <2>3 DEF Types
    <2> QED
      BY <1>3, <2>1, <2>4 DEF LogChange, Types
  <1> QED
    BY <1>1, <1>2, <1>3

(* A transaction is not the lack of one.                                   *)
LEMMA TxIsOn == \A t \in TxType : t # NoTx
  <1> SUFFICES ASSUME NEW t \in TxType, t = NoTx PROVE FALSE
    OBVIOUS
  <1>1. "todo" \in DOMAIN t
    BY DEF TxType
  <1>2. "todo" \notin DOMAIN NoTx
    BY DEF NoTx
  <1> QED
    BY <1>1, <1>2

\* one entry of the journal is replayed: operation op on block b
Draws(op, b) ==
    /\ tx \in TxType /\ tx' \in TxType
    /\ tx.todo # <<>> /\ Head(tx.todo) = Change(op, b)
    /\ tx'.on = tx.on /\ tx'.todo = Tail(tx.todo)
    /\ op \in {"insert", "update"} => b \in DOMAIN rows[tx.on]
    /\ \/ b \notin DOMAIN tx.draft /\ op # "insert" /\ tx'.draft = tx.draft
       \/ \E r \in Stored :
             /\ tx'.draft = Put(tx.draft, b, r)
             /\ (b \in DOMAIN tx.draft) = (op # "insert")
             /\ op # "delete" =>
                   r.text = rows[tx.on][b].text /\ r.layout = rows[tx.on][b].layout
             /\ op = "insert" => r.parent = rows[tx.on][b].parent
             /\ op # "insert" =>
                   /\ r.parent = tx.draft[b].parent
                   /\ tx.draft[b].deleted => r.deleted
             /\ op # "delete" /\ r.deleted => b \in DOMAIN tx.draft /\ tx.draft[b].deleted
             /\ op = "delete" =>
                   r.deleted /\ r.text = tx.draft[b].text /\ r.layout = tx.draft[b].layout

(* The three steps of the replay.                                          *)
LEMMA ReplaySteps ==
  ASSUME Types, ApplyInsert \/ ApplyUpdate \/ ApplyDelete
  PROVE  /\ \E b \in Block, op \in {"insert", "update", "delete"} : Draws(op, b)
         /\ UNCHANGED <<content, rows, deps, journal, stage, calls, torn, made>>
  <1>1. tx \in TxType /\ tx.todo # <<>> /\ Head(tx.todo) \in ChangeType
        /\ Tail(tx.todo) \in Seq(ChangeType)
    <2>1. tx \in TxType /\ tx.todo # <<>>
      BY DEF Types, ApplyInsert, ApplyUpdate, ApplyDelete, Replaying
    <2>2. tx.todo \in Seq(ChangeType)
      BY <2>1 DEF TxType
    <2> QED
      BY <2>1, <2>2, TailEntries
  <1> DEFINE s == tx.on
             b == Head(tx.todo).block
             op == Head(tx.todo).op
  <1>2. /\ b \in Block /\ op \in {"insert", "update", "delete"} /\ s \in Session
        /\ Head(tx.todo) = Change(op, b) /\ tx.draft \in Table(Stored)
    BY <1>1 DEF ChangeType, Change, TxType
  <1>3. ASSUME NEW draft \in Table(Stored), Replay(draft)
        PROVE  /\ tx' \in TxType /\ tx'.on = s /\ tx'.todo = Tail(tx.todo)
               /\ tx'.draft = draft
    BY <1>1, <1>3 DEF Replay, TxType
  <1>4. UNCHANGED <<content, rows, deps, journal, stage, calls, torn, made>>
    BY DEF ApplyInsert, ApplyUpdate, ApplyDelete, Replay
  <1> HIDE DEF s, b, op
  <1>5. CASE ApplyInsert
    <2> DEFINE r == [text |-> rows[s][b].text, layout |-> rows[s][b].layout,
                     parent |-> rows[s][b].parent, deleted |-> FALSE]
    <2>1. /\ op = "insert" /\ b \in DOMAIN rows[s] \ DOMAIN tx.draft
          /\ Replay(Put(tx.draft, b, r))
      BY <1>5 DEF ApplyInsert, Replaying, s, b, op
    <2>2. r \in Stored
      BY <1>2, <2>1, RowFields DEF Edited, Stored
    <2>3. /\ r.text = rows[s][b].text /\ r.layout = rows[s][b].layout
          /\ r.parent = rows[s][b].parent /\ ~r.deleted
      OBVIOUS
    <2> HIDE DEF r
    <2>4. Put(tx.draft, b, r) \in Table(Stored)
      BY <1>2, <2>2, PutRow
    <2>5. /\ tx' \in TxType /\ tx'.on = s /\ tx'.todo = Tail(tx.todo)
          /\ tx'.draft = Put(tx.draft, b, r)
      BY <1>3, <2>1, <2>4
    <2>6. Draws(op, b)
      BY <1>1, <1>2, <2>1, <2>2, <2>3, <2>5 DEF Draws, s
    <2> QED
      BY <1>2, <1>4, <2>6
  <1>6. CASE ApplyUpdate
    <2> DEFINE r == [tx.draft[b] EXCEPT !.text = rows[s][b].text, !.layout = rows[s][b].layout]
    <2>1. /\ op = "update" /\ b \in DOMAIN rows[s]
          /\ Replay(IF b \in DOMAIN tx.draft THEN [tx.draft EXCEPT ![b] = r] ELSE tx.draft)
      BY <1>6 DEF ApplyUpdate, Replaying, s, b, op
    <2>2. CASE b \in DOMAIN tx.draft
      <3>1. tx.draft[b] \in Stored /\ rows[s][b].text \in Text /\ rows[s][b].layout \in Layout
        BY <1>2, <2>1, <2>2, TableRows, RowFields DEF Edited
      <3>2. /\ r \in Stored
            /\ r.text = rows[s][b].text /\ r.layout = rows[s][b].layout
            /\ r.parent = tx.draft[b].parent /\ r.deleted = tx.draft[b].deleted
        BY <3>1 DEF Stored
      <3> HIDE DEF r
      <3>3. [tx.draft EXCEPT ![b] = r] = Put(tx.draft, b, r)
        BY <1>2, <2>2, TableEdit
      <3>4. Put(tx.draft, b, r) \in Table(Stored) /\ Replay(Put(tx.draft, b, r))
        BY <1>2, <2>1, <2>2, <3>2, <3>3, PutRow
      <3>5. /\ tx' \in TxType /\ tx'.on = s /\ tx'.todo = Tail(tx.todo)
            /\ tx'.draft = Put(tx.draft, b, r)
        BY <1>3, <3>4
      <3>6. Draws(op, b)
        BY <1>1, <1>2, <2>1, <2>2, <3>2, <3>5 DEF Draws, s
      <3> QED
        BY <1>2, <1>4, <3>6
    <2>3. CASE b \notin DOMAIN tx.draft
      <3>1. /\ tx' \in TxType /\ tx'.on = s /\ tx'.todo = Tail(tx.todo)
            /\ tx'.draft = tx.draft
        BY <1>2, <1>3, <2>1, <2>3
      <3>2. Draws(op, b)
        BY <1>1, <1>2, <2>1, <2>3, <3>1 DEF Draws, s
      <3> QED
        BY <1>2, <1>4, <3>2
    <2> QED
      BY <2>2, <2>3
  <1>7. CASE ApplyDelete
    <2> DEFINE r == [tx.draft[b] EXCEPT !.deleted = TRUE]
    <2>1. /\ op = "delete"
          /\ Replay(IF b \in DOMAIN tx.draft THEN [tx.draft EXCEPT ![b] = r] ELSE tx.draft)
      BY <1>7 DEF ApplyDelete, Replaying, b, op
    <2>2. CASE b \in DOMAIN tx.draft
      <3>1. tx.draft[b] \in Stored
        BY <1>2, <2>2, TableRows
      <3>2. /\ r \in Stored /\ r.deleted
            /\ r.text = tx.draft[b].text /\ r.layout = tx.draft[b].layout
            /\ r.parent = tx.draft[b].parent
        BY <3>1 DEF Stored
      <3> HIDE DEF r
      <3>3. [tx.draft EXCEPT ![b] = r] = Put(tx.draft, b, r)
        BY <1>2, <2>2, TableEdit
      <3>4. Put(tx.draft, b, r) \in Table(Stored) /\ Replay(Put(tx.draft, b, r))
        BY <1>2, <2>1, <2>2, <3>2, <3>3, PutRow
      <3>5. /\ tx' \in TxType /\ tx'.on = s /\ tx'.todo = Tail(tx.todo)
            /\ tx'.draft = Put(tx.draft, b, r)
        BY <1>3, <3>4
      <3>6. Draws(op, b)
        BY <1>1, <1>2, <2>1, <2>2, <3>2, <3>5 DEF Draws, s
      <3> QED
        BY <1>2, <1>4, <3>6
    <2>3. CASE b \notin DOMAIN tx.draft
      <3>1. /\ tx' \in TxType /\ tx'.on = s /\ tx'.todo = Tail(tx.todo)
            /\ tx'.draft = tx.draft
        BY <1>2, <1>3, <2>1, <2>3
      <3>2. Draws(op, b)
        BY <1>1, <1>2, <2>1, <2>3, <3>1 DEF Draws, s
      <3> QED
        BY <1>2, <1>4, <3>2
    <2> QED
      BY <2>2, <2>3
  <1> QED
    BY <1>5, <1>6, <1>7

(* The merger keeps the types.                                             *)
LEMMA MergerTypes ==
  ASSUME Types, Merges
  PROVE  Types'
  <1>1. ASSUME NEW s \in Session, Accept(s) PROVE Types'
    <2>1. tx' \in TxType
      <3>1. journal[s] \in Seq(ChangeType) /\ content \in Table(Stored)
        BY DEF Types
      <3> QED
        BY <1>1, <3>1 DEF Accept, TxType
    <2> QED
      BY <1>1, <2>1 DEF Accept, Types
  <1>2. ASSUME NEW s \in Session, Refuse(s) PROVE Types'
    BY <1>2 DEF Refuse, Types
  <1>3. CASE ApplyInsert \/ ApplyUpdate \/ ApplyDelete
    <2>1. tx' \in TxType
          /\ UNCHANGED <<content, rows, deps, journal, stage, calls, torn, made>>
      BY <1>3, ReplaySteps DEF Draws
    <2> QED
      BY <2>1 DEF Types
  <1>4. CASE Rollback
    BY <1>4 DEF Rollback, Types
  <1>5. CASE Commit
    <2>1. content' \in Table(Stored)
      BY <1>5 DEF Commit, Types, TxType
    <2> QED
      BY <1>5, <2>1 DEF Commit, Types
  <1> QED
    BY <1>1, <1>2, <1>3, <1>4, <1>5 DEF Merges

(* The variables keep their types.                                         *)
LEMMA NextTypes == Types /\ [Next]_vars => Types'
  <1> SUFFICES ASSUME Types, [Next]_vars PROVE Types'
    OBVIOUS
  <1>1. ASSUME NEW s \in Session, NEW b \in Block, SessionStep(s, b) PROVE Types'
    BY <1>1, EditSteps, SessionTypes DEF SessionStep
  <1>2. CASE CopyRow \/ CopyDeps \/ LogChange
    BY <1>2, CopySteps, CallTypes
  <1>3. CASE CutShort
    <2>1. PICK c \in calls : calls' = calls \ {c} /\ torn' = torn \cup {<<c.on, c.block>>}
      BY <1>3 DEF CutShort
    <2>2. c.on \in Session /\ c.block \in Block
      BY CallFields
    <2> QED
      BY <1>3, <2>1, <2>2 DEF CutShort, Types
  <1>4. ASSUME NEW s \in Session, Submit(s) PROVE Types'
    BY <1>4 DEF Submit, Types
  <1>5. CASE Crash
    <2>1. torn' \subseteq Session \X Block
      BY <1>5, CallFields DEF Crash, Types
    <2>2. stage' \in [Session -> {"open", "queued", "merging", "merged", "failed"}]
      BY <1>5 DEF Crash, Types
    <2> QED
      BY <1>5, <2>1, <2>2 DEF Crash, Types
  <1>6. CASE MergerStep
    BY <1>6, MergerTypes DEF MergerStep, Merges
  <1>7. CASE UNCHANGED vars \/ ScanFails
    BY <1>7 DEF vars, ScanFails, Types
  <1> QED
    BY <1>1, <1>2, <1>3, <1>4, <1>5, <1>6, <1>7 DEF Next, CallStep

-----------------------------------------------------------------------------
(* Calls and rows.                                                         *)

(* Two calls at one block have put it in doubt.                            *)
LEMMA NextOverlaps == Types /\ Overlaps /\ [Next]_vars => Overlaps'
  <1> SUFFICES ASSUME Types, Overlaps, [Next]_vars PROVE Overlaps'
    OBVIOUS
  <1>1. ASSUME NEW call, Start(call) PROVE Overlaps'
    BY <1>1, StartsCall DEF Overlaps
  <1>2. ASSUME NEW c \in calls, CopiesRow(c) PROVE Overlaps'
    <2>1. PICK d : d.on = c.on /\ d.block = c.block /\ calls' = (calls \ {c}) \cup {d}
                   /\ torn' = torn
      BY <1>2 DEF CopiesRow
    <2> QED
      BY <2>1 DEF Overlaps
  <1>3. ASSUME calls' \subseteq calls, torn \subseteq torn' PROVE Overlaps'
    BY <1>3 DEF Overlaps
  <1>4. CASE CopyDeps \/ LogChange
    BY <1>3, <1>4 DEF CopyDeps, LogChange
  <1> QED
    BY <1>1, <1>2, <1>3, <1>4, StepKinds DEF CopyBlock, Edits, Ends

\* content.db keeps its blocks, and their parents, and those deleted so
Grows ==
    \A b \in DOMAIN content :
        /\ b \in DOMAIN content' /\ content'[b].parent = content[b].parent
        /\ content[b].deleted => content'[b].deleted

(* Only Commit changes content.db, to what the draft has become.           *)
LEMMA ContentGrows == Types /\ Merging /\ [Next]_vars => Grows /\ (UNCHANGED content \/ Commit)
  <1> SUFFICES ASSUME Types, Merging, [Next]_vars PROVE Grows /\ (UNCHANGED content \/ Commit)
    OBVIOUS
  <1>1. CASE Commit
    <2>1. \A b \in DOMAIN content : Redrawn(tx.on, tx.draft, b)
      BY <1>1 DEF Merging, Commit
    <2> QED
      BY <1>1, <2>1 DEF Grows, Redrawn, Commit
  <1>2. UNCHANGED content \/ Commit
    BY DEF Next, SessionStep, CopyBlock, UpdateBlock, InsertBlock, DeleteBlock, Submit,
           CallStep, ScanFails, CopyRow, CopyDeps, LogChange, CutShort, MergerStep, Accept, Refuse,
           ApplyInsert, ApplyUpdate, ApplyDelete, Replay, Rollback, Crash, vars
  <1> QED
    BY <1>1, <1>2 DEF Grows

(* What a call has copied stays as it was until its hash is written.       *)
LEMMA NextCopies == Types /\ Overlaps /\ Copies /\ Merging /\ [Next]_vars => Copies'
  <1> SUFFICES ASSUME Types, Overlaps, Copies, Merging, [Next]_vars PROVE Copies'
    OBVIOUS
  <1> DEFINE Ok(c) == c.at \in {"read", "copied"} =>
                /\ c.block \in DOMAIN content'
                /\ c.at = "copied" /\ stage'[c.on] = "open" /\ <<c.on, c.block>> \notin torn' =>
                       c.block \in DOMAIN rows'[c.on] /\ rows'[c.on][c.block].base = c.row
  <1>1. Grows
    BY ContentGrows
  <1>2. ASSUME NEW c \in calls, torn \subseteq torn', stage'[c.on] = "open" => stage[c.on] = "open",
               <<c.on, c.block>> \in torn' \/ rows' = rows
               \/ \E s \in Session, b \in Block, r \in Edited :
                      SetRow(s, b, r) /\ (s # c.on \/ b # c.block)
        PROVE  Ok(c)
    <2>1. c.on \in Session /\ c.block \in Block
      BY CallFields
    <2>2. ASSUME c.at = "copied", stage'[c.on] = "open", <<c.on, c.block>> \notin torn'
          PROVE  c.block \in DOMAIN rows'[c.on] /\ rows'[c.on][c.block].base = c.row
      <3>1. c.block \in DOMAIN rows[c.on] /\ rows[c.on][c.block].base = c.row
        BY <1>2, <2>2 DEF Copies
      <3>2. CASE rows' = rows
        BY <3>1, <3>2
      <3>3. ASSUME NEW s \in Session, NEW b \in Block, NEW r \in Edited, SetRow(s, b, r),
                   s # c.on \/ b # c.block
            PROVE  c.block \in DOMAIN rows'[c.on] /\ rows'[c.on][c.block].base = c.row
        BY <2>1, <3>1, <3>3, RowSet
      <3> QED
        BY <1>2, <2>2, <3>2, <3>3
    <2> QED
      BY <1>1, <2>2 DEF Copies, Grows
  <1>3. ASSUME NEW s \in Session, NEW b \in Block, CopyBlock(s, b) PROVE Copies'
    <2> DEFINE call == [at |-> "read", on |-> s, block |-> b, row |-> content[b]]
    <2>1. /\ Start(call) /\ b \in DOMAIN content /\ UNCHANGED <<content, rows, stage>>
      BY <1>3 DEF CopyBlock
    <2>2. call.at = "read" /\ call.block = b
      OBVIOUS
    <2> HIDE DEF call
    <2>3. calls' = calls \cup {call} /\ torn \subseteq torn'
      BY <2>1, StartsCall
    <2>4. \A c \in calls : Ok(c)
      BY <1>2, <2>1, <2>3
    <2>5. Ok(call)
      BY <2>1, <2>2
    <2> HIDE DEF Ok
    <2>6. \A c \in calls' : Ok(c)
      BY <2>3, <2>4, <2>5
    <2> QED
      BY <2>6 DEF Copies, Ok
  <1>4. ASSUME NEW s \in Session, NEW b \in Block, NEW at \in {"insert", "update", "delete"},
               Edits(s, b, at)
        PROVE  Copies'
    <2> DEFINE call == [at |-> at, on |-> s, block |-> b]
    <2>1. Start(call) /\ UNCHANGED stage /\ (rows' = rows \/ \E r \in Edited : SetRow(s, b, r))
      BY <1>4 DEF Edits
    <2>2. call.at \notin {"read", "copied"} /\ call.on = s /\ call.block = b
      OBVIOUS
    <2> HIDE DEF call
    <2>3. /\ calls' = calls \cup {call} /\ torn \subseteq torn'
          /\ \A c \in calls : c.on = s /\ c.block = b => <<s, b>> \in torn'
      BY <2>1, <2>2, StartsCall
    <2>4. \A c \in calls : Ok(c)
      BY <1>2, <2>1, <2>3
    <2>5. Ok(call)
      BY <2>2
    <2> HIDE DEF Ok
    <2>6. \A c \in calls' : Ok(c)
      BY <2>3, <2>4, <2>5
    <2> QED
      BY <2>6 DEF Copies, Ok
  <1>5. ASSUME NEW c \in calls, CopiesRow(c) PROVE Copies'
    <2>1. PICK d : /\ d.on = c.on /\ d.block = c.block /\ d.row = c.row /\ d.at = "copied"
                   /\ calls' = (calls \ {c}) \cup {d} /\ UNCHANGED <<content, torn, stage>>
      BY <1>5 DEF CopiesRow
    <2>2. PICK r \in Edited : SetRow(c.on, c.block, r) /\ r.base = c.row
      BY <1>5 DEF CopiesRow
    <2>3. c.on \in Session /\ c.block \in Block /\ c.at = "read"
      BY <1>5, CallFields DEF CopiesRow
    <2>4. \A e \in calls \ {c} : Ok(e)
      BY <1>2, <2>1, <2>2, <2>3 DEF Overlaps
    <2>5. Ok(d)
      BY <2>1, <2>2, <2>3, RowSet DEF Copies
    <2> HIDE DEF Ok
    <2>6. \A e \in calls' : Ok(e)
      BY <2>1, <2>4, <2>5
    <2> QED
      BY <2>6 DEF Copies, Ok
  <1>6. ASSUME calls' \subseteq calls, torn \subseteq torn', rows' = rows,
               \A s \in Session : stage'[s] = "open" => stage[s] = "open"
        PROVE  Copies'
    <2>1. \A c \in calls : Ok(c)
      BY <1>2, <1>6, CallFields
    <2> HIDE DEF Ok
    <2>2. \A c \in calls' : Ok(c)
      BY <1>6, <2>1
    <2> QED
      BY <2>2 DEF Copies, Ok
  <1>7. CASE CopyDeps \/ LogChange \/ Ends
    BY <1>6, <1>7 DEF CopyDeps, LogChange, Ends
  <1> QED
    BY <1>3, <1>4, <1>5, <1>7, StepKinds

(* The merger sees what every row began with.                              *)
LEMMA NextKnown ==
  Types /\ Overlaps /\ Copies /\ Known /\ Merging /\ [Next]_vars => Known'
  <1> SUFFICES ASSUME Types, Overlaps, Copies, Known, Merging, [Next]_vars PROVE Known'
    OBVIOUS
  <1> DEFINE Seen(s, b) == \/ <<s, b>> \in torn' \/ Calling(s, b, {"copied", "insert"})'
                           \/ b \in DOMAIN deps'[s] /\ deps'[s][b] = rows'[s][b].base.text
                           \/ Change("insert", b) \in Entries(journal'[s])
             Ok(s, b) == Seen(s, b) /\ (rows'[s][b].dirty \/ b \in DOMAIN content')
  <1>1. Grows
    BY ContentGrows
  <1>2. ASSUME NEW s \in Session, NEW b \in DOMAIN rows[s], rows'[s][b].base = rows[s][b].base,
               rows[s][b].dirty => rows'[s][b].dirty,
               torn \subseteq torn', deps'[s] = deps[s], journal'[s] = journal[s],
               \A c \in calls \ calls' : c.on = s /\ c.block = b =>
                   c.at \notin {"copied", "insert"} \/ <<s, b>> \in torn'
        PROVE  Ok(s, b)
    <2>1. rows'[s][b].dirty \/ b \in DOMAIN content'
      BY <1>1, <1>2 DEF Known, Grows
    <2>2. Seen(s, b)
      BY <1>2 DEF Known, Calling
    <2> QED
      BY <2>1, <2>2
  <1> HIDE DEF Ok
  <1>3. ASSUME NEW s \in Session, NEW b \in Block, CopyBlock(s, b) PROVE Known'
    <2>1. calls \subseteq calls' /\ torn \subseteq torn' /\ UNCHANGED <<rows, deps, journal>>
      BY <1>3, StartsCall DEF CopyBlock
    <2>2. \A z \in Session : \A c \in DOMAIN rows[z] : Ok(z, c)
      BY <1>2, <2>1
    <2> QED
      BY <2>1, <2>2 DEF Known, Ok
  <1>4. ASSUME NEW s \in Session, NEW b \in Block, NEW at \in {"insert", "update", "delete"},
               Edits(s, b, at)
        PROVE  Known'
    <2> DEFINE call == [at |-> at, on |-> s, block |-> b]
    <2>1. call.at = at /\ call.on = s /\ call.block = b
      OBVIOUS
    <2>2. Start(call) /\ UNCHANGED <<deps, journal>>
      BY <1>4 DEF Edits
    <2> HIDE DEF call
    <2>3. calls' = calls \cup {call} /\ torn \subseteq torn'
      BY <2>2, StartsCall
    <2>4. CASE rows' = rows
      <3>1. \A z \in Session : \A c \in DOMAIN rows[z] : Ok(z, c)
        BY <1>2, <2>2, <2>3, <2>4
      <3> QED
        BY <2>4, <3>1 DEF Known, Ok
    <2>5. ASSUME NEW r \in Edited, SetRow(s, b, r), r.dirty,
                 at # "insert" => b \in DOMAIN rows[s] /\ r.base = rows[s][b].base
          PROVE  Known'
      <3>1. /\ DOMAIN rows'[s] = DOMAIN rows[s] \cup {b} /\ rows'[s][b] = r
            /\ \A c \in DOMAIN rows[s] \ {b} : rows'[s][c] = rows[s][c]
            /\ \A z \in Session \ {s} : rows'[z] = rows[z]
        BY <2>5, RowSet
      <3>2. Ok(s, b)
        <4>1. CASE at = "insert"
          BY <2>1, <2>3, <2>5, <3>1, <4>1 DEF Ok, Calling
        <4>2. CASE at # "insert"
          BY <1>2, <2>2, <2>3, <2>5, <3>1, <4>2
        <4> QED
          BY <4>1, <4>2
      <3>3. \A c \in DOMAIN rows[s] \ {b} : Ok(s, c)
        BY <1>2, <2>2, <2>3, <3>1
      <3>4. \A z \in Session \ {s} : \A c \in DOMAIN rows[z] : Ok(z, c)
        BY <1>2, <2>2, <2>3, <3>1
      <3>5. \A z \in Session : \A c \in DOMAIN rows'[z] : Ok(z, c)
        BY <3>1, <3>2, <3>3, <3>4
      <3> QED
        BY <3>5 DEF Known, Ok
    <2> QED
      BY <1>4, <2>4, <2>5 DEF Edits
  <1>5. ASSUME NEW e \in calls, CopiesRow(e) PROVE Known'
    <2>1. PICK d : /\ d.on = e.on /\ d.block = e.block /\ d.at = "copied"
                   /\ calls' = (calls \ {e}) \cup {d}
                   /\ UNCHANGED <<content, deps, journal, torn>>
      BY <1>5 DEF CopiesRow
    <2>2. PICK r \in Edited : SetRow(e.on, e.block, r)
      BY <1>5 DEF CopiesRow
    <2>3. e.on \in Session /\ e.block \in Block /\ e.at = "read" /\ e.block \in DOMAIN content
      BY <1>5, CallFields DEF CopiesRow, Copies
    <2>4. /\ DOMAIN rows'[e.on] = DOMAIN rows[e.on] \cup {e.block}
          /\ \A c \in DOMAIN rows[e.on] \ {e.block} : rows'[e.on][c] = rows[e.on][c]
          /\ \A z \in Session \ {e.on} : rows'[z] = rows[z]
      BY <2>2, <2>3, RowSet
    <2>5. Ok(e.on, e.block)
      BY <2>1, <2>3 DEF Ok, Calling
    <2>6. \A c \in DOMAIN rows[e.on] \ {e.block} : Ok(e.on, c)
      BY <1>2, <2>1, <2>3, <2>4
    <2>7. \A z \in Session \ {e.on} : \A c \in DOMAIN rows[z] : Ok(z, c)
      BY <1>2, <2>1, <2>3, <2>4
    <2>8. \A z \in Session : \A c \in DOMAIN rows'[z] : Ok(z, c)
      BY <2>4, <2>5, <2>6, <2>7
    <2> QED
      BY <2>8 DEF Known, Ok
  <1>6. CASE CopyDeps
    <2>1. PICK e \in calls :
             /\ e.at = "copied" /\ stage[e.on] = "open"
             /\ deps' = [deps EXCEPT ![e.on] = Put(@, e.block, e.row.text)]
             /\ calls' = calls \ {e} /\ UNCHANGED <<content, rows, journal, torn>>
      BY <1>6 DEF CopyDeps
    <2>2. e.on \in Session /\ e.block \in Block /\ e.row.text \in Text
      BY <2>1, CallFields DEF Stored
    <2>3. deps \in [Session -> Table(Text)] /\ deps[e.on] \in Table(Text)
      BY <2>2 DEF Types
    <2>4. /\ e.block \in DOMAIN deps'[e.on] /\ deps'[e.on][e.block] = e.row.text
          /\ \A c \in DOMAIN deps[e.on] \ {e.block} :
                c \in DOMAIN deps'[e.on] /\ deps'[e.on][c] = deps[e.on][c]
          /\ \A z \in Session \ {e.on} : deps'[z] = deps[z]
      <3> DEFINE X == Put(deps[e.on], e.block, e.row.text)
      <3>1. deps' = [deps EXCEPT ![e.on] = X]
        BY <2>1
      <3>2. /\ DOMAIN X = DOMAIN deps[e.on] \cup {e.block} /\ X[e.block] = e.row.text
            /\ \A c \in DOMAIN deps[e.on] \ {e.block} : X[c] = deps[e.on][c]
        BY DEF Put
      <3> HIDE DEF X
      <3>3. deps'[e.on] = X /\ \A z \in Session \ {e.on} : deps'[z] = deps[z]
        BY <2>2, <2>3, <3>1
      <3> QED
        BY <3>2, <3>3
    <2>5. e.block \in DOMAIN rows[e.on] => Ok(e.on, e.block)
      <3>1. <<e.on, e.block>> \in torn \/ rows[e.on][e.block].base = e.row
        BY <2>1 DEF Copies
      <3>2. e.block \in DOMAIN content
        BY <2>1 DEF Copies
      <3> QED
        BY <2>1, <2>4, <3>1, <3>2 DEF Ok
    <2>6. \A c \in DOMAIN rows[e.on] \ {e.block} : Ok(e.on, c)
      <3> SUFFICES ASSUME NEW c \in DOMAIN rows[e.on] \ {e.block} PROVE Ok(e.on, c)
        OBVIOUS
      <3>1. Calling(e.on, c, {"copied", "insert"}) => Calling(e.on, c, {"copied", "insert"})'
        BY <2>1 DEF Calling
      <3>2. c \in DOMAIN deps[e.on] => c \in DOMAIN deps'[e.on] /\ deps'[e.on][c] = deps[e.on][c]
        BY <2>4
      <3>3. rows'[e.on][c].dirty \/ c \in DOMAIN content'
        BY <2>1, <2>2 DEF Known
      <3>4. \/ <<e.on, c>> \in torn \/ Calling(e.on, c, {"copied", "insert"})
            \/ c \in DOMAIN deps[e.on] /\ deps[e.on][c] = rows[e.on][c].base.text
            \/ Change("insert", c) \in Entries(journal[e.on])
        BY <2>2 DEF Known
      <3>5. Seen(e.on, c)
        BY <2>1, <3>1, <3>2, <3>4
      <3> QED
        BY <3>3, <3>5 DEF Ok
    <2>7. ASSUME NEW z \in Session \ {e.on}, NEW c \in DOMAIN rows[z] PROVE Ok(z, c)
      <3>1. deps'[z] = deps[z] /\ \A f \in calls \ calls' : f.on # z
        BY <2>1, <2>4
      <3> QED
        BY <1>2, <2>1, <3>1
    <2>8. \A z \in Session : \A c \in DOMAIN rows'[z] : Ok(z, c)
      BY <2>1, <2>5, <2>6, <2>7
    <2> QED
      BY <2>8 DEF Known, Ok
  <1>7. CASE LogChange
    <2>1. PICK e \in calls :
             /\ e.at \in {"insert", "update", "delete"}
             /\ journal' = [journal EXCEPT ![e.on] = Append(@, Change(e.at, e.block))]
             /\ calls' = calls \ {e} /\ UNCHANGED <<content, rows, deps, torn>>
      BY <1>7 DEF LogChange, Change
    <2>2. e.on \in Session /\ Change(e.at, e.block) \in ChangeType
      BY <2>1, CallFields DEF ChangeType, Change
    <2>3. journal \in [Session -> Seq(ChangeType)] /\ journal[e.on] \in Seq(ChangeType)
      BY <2>2 DEF Types
    <2>4. /\ Entries(journal'[e.on]) = Entries(journal[e.on]) \cup {Change(e.at, e.block)}
          /\ \A z \in Session \ {e.on} : journal'[z] = journal[z]
      BY <2>1, <2>2, <2>3, AppendEntries
    <2>5. \A z \in Session : \A c \in DOMAIN rows[z] : Ok(z, c)
      <3> SUFFICES ASSUME NEW z \in Session, NEW c \in DOMAIN rows[z] PROVE Ok(z, c)
        OBVIOUS
      <3>1. rows[z][c].dirty \/ c \in DOMAIN content
        BY DEF Known
      <3>2. CASE Calling(z, c, {"copied", "insert"})
        <4>1. PICK f \in calls : f.on = z /\ f.block = c /\ f.at \in {"copied", "insert"}
          BY <3>2 DEF Calling
        <4>2. CASE f = e
          BY <2>1, <2>4, <3>1, <4>1, <4>2 DEF Ok
        <4>3. CASE f # e
          BY <2>1, <3>1, <4>1, <4>3 DEF Ok, Calling
        <4> QED
          BY <4>2, <4>3
      <3>3. CASE ~Calling(z, c, {"copied", "insert"})
        <4>1. Entries(journal[z]) \subseteq Entries(journal'[z])
          BY <2>4
        <4> QED
          BY <2>1, <3>1, <3>3, <4>1 DEF Known, Ok
      <3> QED
        BY <3>2, <3>3
    <2> QED
      BY <2>1, <2>5 DEF Known, Ok
  <1>8. CASE Ends
    <2>1. \A z \in Session : \A c \in DOMAIN rows[z] : Ok(z, c)
      BY <1>2, <1>8 DEF Ends
    <2> QED
      BY <1>8, <2>1 DEF Known, Ok, Ends
  <1> QED
    BY <1>3, <1>4, <1>5, <1>6, <1>7, <1>8, StepKinds

-----------------------------------------------------------------------------
(* The merger.                                                             *)

(* Nobody else changes what the merger has checked.                        *)
LEMMA MergingKept ==
  ASSUME Merging, UNCHANGED <<tx, content>>,
         tx # NoTx => /\ stage'[tx.on] = stage[tx.on] /\ rows'[tx.on] = rows[tx.on]
                      /\ deps'[tx.on] = deps[tx.on] /\ journal'[tx.on] = journal[tx.on]
  PROVE  Merging'
  <1> SUFFICES ASSUME tx # NoTx PROVE Merging'
    BY DEF Merging
  <1>1. Checked(tx.on)'
    BY DEF Merging, Checked
  <1>2. (\A b \in DOMAIN content : Redrawn(tx.on, tx.draft, b))'
    BY DEF Merging, Redrawn, SameText
  <1>3. (\A b \in DOMAIN tx.draft \ DOMAIN content : Added(tx.on, tx.draft, b))'
    BY DEF Merging, Added, SameText
  <1>4. Replayed(tx.on, tx.draft, tx.todo)'
    BY DEF Merging, Replayed, SameText
  <1> QED
    BY <1>1, <1>2, <1>3, <1>4 DEF Merging

(* What Accept finds.                                                      *)
LEMMA AcceptMerging ==
  ASSUME Types, NEW s \in Session, Accept(s)
  PROVE  Merging'
  <1>1. /\ tx' = [on |-> s, draft |-> content, todo |-> journal[s]]
        /\ stage' = [stage EXCEPT ![s] = "merging"]
        /\ UNCHANGED <<content, rows, deps, journal>>
        /\ ContentConflicts(s) = {} /\ StructureConflicts(s) = {}
    BY DEF Accept
  <1>2. tx'.on = s /\ tx'.draft = content /\ tx'.todo = journal[s] /\ stage'[s] = "merging"
    BY <1>1 DEF Types
  <1>3. Checked(tx.on)'
    <2>1. \A b \in DOMAIN deps[s] : b \in DOMAIN content /\ content[b].text = deps[s][b]
      BY <1>1 DEF ContentConflicts
    <2>2. ASSUME NEW b \in DOMAIN rows[s]
          PROVE  \/ ~rows[s][b].dirty \/ rows[s][b].parent = NoBlock
                 \/ rows[s][b].parent \in DOMAIN content \/ rows[s][b].parent \in DOMAIN rows[s]
      BY <1>1 DEF StructureConflicts
    <2> QED
      BY <1>1, <1>2, <2>1, <2>2 DEF Checked
  <1>4. (\A b \in DOMAIN content : Redrawn(tx.on, tx.draft, b))'
    BY <1>1, <1>2 DEF Redrawn
  <1>5. Replayed(tx.on, tx.draft, tx.todo)'
    BY <1>1, <1>2 DEF Replayed
  <1> QED
    BY <1>1, <1>2, <1>3, <1>4, <1>5 DEF Merging

(* What the draft owes to the journal after one more entry.                *)
LEMMA ReplayMerging ==
  ASSUME Types, Merging, NEW b \in Block, NEW op \in {"insert", "update", "delete"}, Draws(op, b),
         UNCHANGED <<content, rows, deps, journal, stage>>
  PROVE  Merging'
  <1> DEFINE s == tx.on
             d == tx.draft
             D == tx'.draft
             q == tx.todo
             Q == tx'.todo
             J == Entries(journal[s])
  <1>1. /\ stage[s] = "merging" /\ Checked(s) /\ Entries(q) \subseteq J
        /\ \A c \in DOMAIN content : Redrawn(s, d, c)
        /\ \A c \in DOMAIN d \ DOMAIN content : Added(s, d, c)
        /\ Replayed(s, d, q)
    BY TxIsOn DEF Merging, Draws
  <1>2. d \in Table(Stored) /\ q \in Seq(ChangeType) /\ q # <<>> /\ Q = Tail(q) /\ tx'.on = s
        /\ Head(q) = Change(op, b)
    BY DEF Draws, TxType
  <1>3. Entries(q) = Entries(Q) \cup {Change(op, b)}
    BY <1>2, TailEntries
  <1>4. /\ op \in {"insert", "update"} => b \in DOMAIN rows[s]
        /\ \/ b \notin DOMAIN d /\ op # "insert" /\ D = d
           \/ \E r \in Stored :
                 /\ D = Put(d, b, r)
                 /\ (b \in DOMAIN d) = (op # "insert")
                 /\ op # "delete" =>
                       r.text = rows[s][b].text /\ r.layout = rows[s][b].layout
                 /\ op = "insert" => r.parent = rows[s][b].parent
                 /\ op # "insert" => r.parent = d[b].parent /\ (d[b].deleted => r.deleted)
                 /\ op # "delete" /\ r.deleted => b \in DOMAIN d /\ d[b].deleted
                 /\ op = "delete" =>
                       r.deleted /\ r.text = d[b].text /\ r.layout = d[b].layout
    BY DEF Draws
  <1> HIDE DEF s, d, D, q, Q
  <1>5. /\ DOMAIN d \subseteq DOMAIN D /\ DOMAIN D \subseteq DOMAIN d \cup {b}
        /\ \A c \in DOMAIN d \ {b} : D[c] = d[c]
    <2>1. CASE D = d
      BY <2>1
    <2>2. ASSUME NEW r, D = Put(d, b, r)
          PROVE  /\ DOMAIN d \subseteq DOMAIN D /\ DOMAIN D \subseteq DOMAIN d \cup {b}
                 /\ \A c \in DOMAIN d \ {b} : D[c] = d[c]
      BY <2>2 DEF Put
    <2> QED
      BY <1>4, <2>1, <2>2
  <1>6. /\ op = "insert" => b \notin DOMAIN d /\ b \in DOMAIN D /\ D[b].parent = rows[s][b].parent
        /\ op # "insert" => (b \in DOMAIN D <=> b \in DOMAIN d)
        /\ b \in DOMAIN D /\ op # "delete" => SameText(s, D, b)
        /\ b \in DOMAIN d => /\ op # "insert" /\ D[b].parent = d[b].parent
                             /\ d[b].deleted => D[b].deleted
                             /\ op = "delete" => D[b].text = d[b].text /\ D[b].layout = d[b].layout
        /\ op = "delete" /\ b \in DOMAIN D => D[b].deleted
        /\ b \in DOMAIN D /\ D[b].deleted => op = "delete" \/ (b \in DOMAIN d /\ d[b].deleted)
    <2>1. CASE b \notin DOMAIN d /\ op # "insert" /\ D = d
      BY <2>1
    <2>2. ASSUME NEW r \in Stored, D = Put(d, b, r), (b \in DOMAIN d) = (op # "insert"),
                 op # "delete" => r.text = rows[s][b].text /\ r.layout = rows[s][b].layout,
                 op = "insert" => r.parent = rows[s][b].parent,
                 op # "insert" => r.parent = d[b].parent /\ (d[b].deleted => r.deleted),
                 op # "delete" /\ r.deleted => b \in DOMAIN d /\ d[b].deleted,
                 op = "delete" => r.deleted /\ r.text = d[b].text /\ r.layout = d[b].layout
          PROVE  /\ op = "insert" =>
                       b \notin DOMAIN d /\ b \in DOMAIN D /\ D[b].parent = rows[s][b].parent
                 /\ op # "insert" => (b \in DOMAIN D <=> b \in DOMAIN d)
                 /\ b \in DOMAIN D /\ op # "delete" => SameText(s, D, b)
                 /\ b \in DOMAIN d =>
                       /\ op # "insert" /\ D[b].parent = d[b].parent
                       /\ d[b].deleted => D[b].deleted
                       /\ op = "delete" => D[b].text = d[b].text /\ D[b].layout = d[b].layout
                 /\ op = "delete" /\ b \in DOMAIN D => D[b].deleted
                 /\ b \in DOMAIN D /\ D[b].deleted =>
                       op = "delete" \/ (b \in DOMAIN d /\ d[b].deleted)
      <3>1. b \in DOMAIN D /\ D[b] = r
        BY <2>2 DEF Put
      <3>2. ASSUME D[b].deleted PROVE op = "delete" \/ (b \in DOMAIN d /\ d[b].deleted)
        BY <2>2, <3>1, <3>2
      <3>3. b \in DOMAIN d => op # "insert"
        BY <2>2
      <3>4. op # "delete" => SameText(s, D, b)
        BY <1>4, <2>2, <3>1 DEF SameText
      <3> QED
        BY <2>2, <3>1, <3>2, <3>3, <3>4
    <2> QED
      BY <1>4, <2>1, <2>2
  <1>7. \A c \in DOMAIN content : Redrawn(s, D, c)
    <2> SUFFICES ASSUME NEW c \in DOMAIN content PROVE Redrawn(s, D, c)
      OBVIOUS
    <2>1. Redrawn(s, d, c)
      BY <1>1
    <2>2. CASE c # b
      <3>1. SameText(s, d, c) => SameText(s, D, c)
        BY <1>5, <2>1, <2>2 DEF Redrawn, SameText
      <3> QED
        BY <1>5, <2>1, <2>2, <3>1 DEF Redrawn
    <2>3. CASE c = b
      <3>1. Change(op, b) \in J /\ Change(op, b).block = b
        BY <1>1, <1>3 DEF Change
      <3>2. op = "update" \/ op = "delete"
        BY <1>6, <2>1, <2>3 DEF Redrawn
      <3>3. D[b].deleted => content[b].deleted \/ Change("delete", b) \in J
        BY <1>5, <1>6, <2>1, <2>3, <3>1 DEF Redrawn
      <3>4. \/ SameText(s, D, b)
            \/ D[b].text = content[b].text /\ D[b].layout = content[b].layout
        BY <1>5, <1>6, <2>1, <2>3, <3>2 DEF Redrawn, SameText
      <3> QED
        BY <1>5, <1>6, <2>1, <2>3, <3>1, <3>3, <3>4 DEF Redrawn
    <2> QED
      BY <2>2, <2>3
  <1>8. \A c \in DOMAIN D \ DOMAIN content : Added(s, D, c)
    <2> SUFFICES ASSUME NEW c \in DOMAIN D \ DOMAIN content PROVE Added(s, D, c)
      OBVIOUS
    <2>1. CASE c # b
      BY <1>1, <1>5, <2>1 DEF Added, SameText
    <2>2. CASE c = b
      <3>1. CASE op = "insert"
        BY <1>6, <2>2, <3>1 DEF Added
      <3>2. CASE op # "insert"
        <4>1. b \in DOMAIN d \ DOMAIN content /\ Added(s, d, b)
          BY <1>1, <1>6, <2>2, <3>2
        <4>2. SameText(s, D, b)
          BY <1>6, <2>2, <4>1 DEF Added, SameText
        <4>3. Change(op, b) \in J
          BY <1>1, <1>3
        <4> QED
          BY <1>6, <2>2, <4>1, <4>2, <4>3 DEF Added
      <3> QED
        BY <3>1, <3>2
    <2> QED
      BY <2>1, <2>2
  <1>9. ASSUME NEW c \in DOMAIN d, SameText(s, d, c) PROVE SameText(s, D, c)
    <2>1. CASE c # b
      BY <1>5, <1>9, <2>1 DEF SameText
    <2>2. CASE c = b
      BY <1>5, <1>6, <1>9, <2>2 DEF SameText
    <2> QED
      BY <2>1, <2>2
  <1>10. Replayed(s, D, Q)
    <2> SUFFICES ASSUME NEW c \in Block
                 PROVE  /\ Change("insert", c) \in J \ Entries(Q) =>
                              c \in DOMAIN D \ DOMAIN content /\ SameText(s, D, c)
                        /\ Change("update", c) \in J \ Entries(Q) /\ c \in DOMAIN D =>
                              SameText(s, D, c)
                        /\ EndsDeleted(journal[s], c) =>
                              \/ EndsDeleted(Q, c)
                              \/ /\ Change("insert", c) \notin Entries(Q)
                                 /\ c \in DOMAIN D => D[c].deleted
      BY DEF Replayed
    <2>1. /\ Change("insert", c) \in J \ Entries(q) =>
                c \in DOMAIN d \ DOMAIN content /\ SameText(s, d, c)
          /\ Change("update", c) \in J \ Entries(q) /\ c \in DOMAIN d => SameText(s, d, c)
          /\ EndsDeleted(journal[s], c) =>
                \/ EndsDeleted(q, c)
                \/ /\ Change("insert", c) \notin Entries(q)
                   /\ c \in DOMAIN d => d[c].deleted
      BY <1>1 DEF Replayed
    <2>2. \A o, p : Change(o, c) = Change(p, b) => o = p /\ b = c
      BY DEF Change
    <2>3. ASSUME Change("insert", c) \in J \ Entries(Q)
          PROVE  c \in DOMAIN D \ DOMAIN content /\ SameText(s, D, c)
      <3>1. CASE Change("insert", c) \in Entries(q)
        <4>1. op = "insert" /\ c = b
          BY <1>3, <2>2, <2>3, <3>1
        <4>2. b \notin DOMAIN content
          BY <1>1, <1>6, <4>1 DEF Redrawn
        <4> QED
          BY <1>6, <4>1, <4>2
      <3>2. CASE Change("insert", c) \notin Entries(q)
        BY <1>5, <1>9, <2>1, <2>3, <3>2
      <3> QED
        BY <3>1, <3>2
    <2>4. ASSUME Change("update", c) \in J \ Entries(Q), c \in DOMAIN D
          PROVE  SameText(s, D, c)
      <3>1. CASE Change("update", c) \in Entries(q)
        <4>1. op = "update" /\ c = b
          BY <1>3, <2>2, <2>4, <3>1
        <4> QED
          BY <1>6, <2>4, <4>1
      <3>2. CASE Change("update", c) \notin Entries(q) /\ c \in DOMAIN d
        BY <1>9, <2>1, <2>4, <3>2
      <3>3. CASE c \notin DOMAIN d
        <4>1. c = b /\ op = "insert"
          BY <1>5, <1>6, <2>4, <3>3
        <4> QED
          BY <1>6, <2>4, <4>1
      <3> QED
        BY <3>1, <3>2, <3>3
    <2>5. ASSUME EndsDeleted(journal[s], c)
          PROVE  \/ EndsDeleted(Q, c)
                 \/ /\ Change("insert", c) \notin Entries(Q)
                    /\ c \in DOMAIN D => D[c].deleted
      <3>1. CASE EndsDeleted(q, c)
        <4>1. CASE EndsDeleted(Tail(q), c)
          BY <1>2, <4>1
        <4>2. CASE Head(q) = Change("delete", c) /\ Change("insert", c) \notin Entries(Tail(q))
          <5>1. op = "delete" /\ c = b
            BY <1>2, <2>2, <4>2
          <5> QED
            BY <1>2, <1>6, <4>2, <5>1
        <4> QED
          BY <1>2, <3>1, <4>1, <4>2, TailDeleted
      <3>2. CASE Change("insert", c) \notin Entries(q) /\ (c \in DOMAIN d => d[c].deleted)
        <4>1. Change("insert", c) \notin Entries(Q) /\ (c = b => op # "insert")
          BY <1>3, <3>2
        <4>2. c \in DOMAIN D => D[c].deleted
          BY <1>5, <1>6, <3>2, <4>1
        <4> QED
          BY <4>1, <4>2
      <3> QED
        BY <2>1, <2>5, <3>1, <3>2
    <2> QED
      BY <2>3, <2>4, <2>5
  <1>11. Entries(Q) \subseteq J
    BY <1>1, <1>3
  <1>12. Checked(tx.on)'
    BY <1>1, <1>2 DEF Checked, s
  <1>13. (\A c \in DOMAIN content : Redrawn(tx.on, tx.draft, c))'
    BY <1>2, <1>7 DEF Redrawn, SameText, s, D
  <1>14. (\A c \in DOMAIN tx.draft \ DOMAIN content : Added(tx.on, tx.draft, c))'
    BY <1>2, <1>8 DEF Added, SameText, s, D
  <1>15. Replayed(tx.on, tx.draft, tx.todo)'
    BY <1>2, <1>10 DEF Replayed, SameText, s, D, Q
  <1> QED
    BY <1>1, <1>2, <1>11, <1>12, <1>13, <1>14, <1>15 DEF Merging, s, Q

(* What the merger has checked and written stays so.                       *)
LEMMA NextMerging == Types /\ Merging /\ [Next]_vars => Merging'
  <1> SUFFICES ASSUME Types, Merging, [Next]_vars PROVE Merging'
    OBVIOUS
  <1>1. tx # NoTx => tx.on \in Session /\ stage[tx.on] = "merging"
    BY DEF Types, TxType, Merging
  <1>2. ASSUME NEW s \in Session, NEW b \in Block, CopyBlock(s, b) PROVE Merging'
    BY <1>2, MergingKept DEF CopyBlock
  <1>3. ASSUME NEW s \in Session, NEW b \in Block, NEW at \in {"insert", "update", "delete"},
               Edits(s, b, at)
        PROVE  Merging'
    <2>1. stage[s] = "open" /\ UNCHANGED <<tx, content, deps, journal, stage>>
      BY <1>3 DEF Edits, Start
    <2>2. \A z \in Session \ {s} : rows'[z] = rows[z]
      BY <1>3, RowSet DEF Edits
    <2> QED
      BY <1>1, <2>1, <2>2, MergingKept
  <1>4. ASSUME NEW c \in calls, CopiesRow(c) PROVE Merging'
    <2>1. c.on \in Session /\ c.block \in Block /\ stage[c.on] = "open"
          /\ UNCHANGED <<tx, content, deps, journal, stage>>
      BY <1>4, CallFields DEF CopiesRow
    <2>2. \A z \in Session \ {c.on} : rows'[z] = rows[z]
      BY <1>4, <2>1, RowSet DEF CopiesRow
    <2> QED
      BY <1>1, <2>1, <2>2, MergingKept
  <1>5. CASE CopyDeps
    <2>1. PICK c \in calls : /\ stage[c.on] = "open"
                             /\ deps' = [deps EXCEPT ![c.on] = Put(@, c.block, c.row.text)]
      BY <1>5 DEF CopyDeps
    <2>2. tx # NoTx => deps'[tx.on] = deps[tx.on]
      BY <1>1, <2>1 DEF Types
    <2> QED
      BY <1>5, <2>2, MergingKept DEF CopyDeps
  <1>6. CASE LogChange
    <2>1. PICK c \in calls :
             /\ stage[c.on] = "open"
             /\ journal' = [journal EXCEPT ![c.on] = Append(@, [op |-> c.at, block |-> c.block])]
      BY <1>6 DEF LogChange
    <2>2. tx # NoTx => journal'[tx.on] = journal[tx.on]
      BY <1>1, <2>1 DEF Types
    <2> QED
      BY <1>6, <2>2, MergingKept DEF LogChange
  <1>7. CASE CutShort \/ ScanFails \/ UNCHANGED vars
    BY <1>7, MergingKept DEF CutShort, ScanFails, vars
  <1>8. ASSUME NEW s \in Session, Submit(s) PROVE Merging'
    <2>1. tx # NoTx => stage'[tx.on] = stage[tx.on]
      BY <1>1, <1>8 DEF Submit, Types
    <2> QED
      BY <1>8, <2>1, MergingKept DEF Submit
  <1>9. ASSUME NEW s \in Session, Accept(s) \/ Refuse(s) PROVE Merging'
    <2>1. CASE Refuse(s)
      BY <2>1, MergingKept DEF Refuse
    <2> QED
      BY <1>9, <2>1, AcceptMerging
  <1>10. CASE ApplyInsert \/ ApplyUpdate \/ ApplyDelete
    BY <1>10, ReplaySteps, ReplayMerging
  <1>11. CASE Rollback \/ Commit \/ Crash
    BY <1>11 DEF Rollback, Commit, Crash, Merging
  <1>12. CASE \E s \in Session, b \in Block : SessionStep(s, b)
    BY <1>2, <1>3, <1>12, EditSteps DEF SessionStep
  <1> QED
    BY <1>4, <1>5, <1>6, <1>7, <1>8, <1>9, <1>10, <1>11, <1>12, CopySteps
       DEF Next, CallStep, MergerStep

-----------------------------------------------------------------------------
(* The invariant.                                                          *)

(* A block that is in doubt for good is so after every step.               *)
LEMMA LostStays ==
  ASSUME Types, [Next]_vars, NEW s \in Session, NEW b, Lost(s, b)
  PROVE  Lost(s, b)'
  <1>1. ASSUME NEW call, Start(call), UNCHANGED stage PROVE Lost(s, b)'
    BY <1>1, StartsCall DEF Lost
  <1>2. ASSUME NEW e \in calls, stage[e.on] = "open", torn' = torn, UNCHANGED stage,
               calls \ {e} \subseteq calls'
        PROVE  Lost(s, b)'
    BY <1>2 DEF Lost
  <1>3. CASE Ends
    BY <1>3 DEF Lost, Ends
  <1>4. CASE CopyDeps \/ LogChange
    BY <1>2, <1>4 DEF CopyDeps, LogChange
  <1>5. ASSUME NEW e \in calls, CopiesRow(e) PROVE Lost(s, b)'
    BY <1>2, <1>5 DEF CopiesRow
  <1> QED
    BY <1>1, <1>3, <1>4, <1>5, StepKinds DEF CopyBlock, Edits

(* Where the rows of the session that is merged come from.                 *)
LEMMA RowOrigin ==
  ASSUME Types, Known, Merging, tx # NoTx, NEW b \in DOMAIN rows[tx.on]
  PROVE  \/ Lost(tx.on, b)
         \/ b \in DOMAIN content /\ content[b].text = rows[tx.on][b].base.text
         \/ Change("insert", b) \in Entries(journal[tx.on])
  <1>1. tx.on \in Session /\ stage[tx.on] = "merging"
    BY DEF Types, TxType, Merging
  <1>2. \/ <<tx.on, b>> \in torn \/ Calling(tx.on, b, {"copied", "insert"})
        \/ b \in DOMAIN deps[tx.on] /\ deps[tx.on][b] = rows[tx.on][b].base.text
        \/ Change("insert", b) \in Entries(journal[tx.on])
    BY <1>1 DEF Known
  <1>3. Calling(tx.on, b, {"copied", "insert"}) => Lost(tx.on, b)
    BY <1>1 DEF Calling, Lost
  <1>4. \A c \in DOMAIN deps[tx.on] : c \in DOMAIN content /\ content[c].text = deps[tx.on][c]
    BY DEF Merging, Checked
  <1> QED
    BY <1>2, <1>3, <1>4 DEF Lost

(* When a session is committed, its whole journal is in the draft.         *)
LEMMA CommitState ==
  ASSUME Types, Merging, Commit
  PROVE  /\ tx # NoTx /\ tx.on \in Session /\ stage[tx.on] = "merging"
         /\ content' = tx.draft /\ stage'[tx.on] = "merged"
         /\ \A s \in Session \ {tx.on} : stage'[s] = stage[s]
         /\ UNCHANGED <<rows, calls, torn>>
         /\ Entries(tx.todo) = {} /\ \A b : ~EndsDeleted(tx.todo, b)
         /\ \A b \in DOMAIN content : Redrawn(tx.on, tx.draft, b)
         /\ \A b \in DOMAIN tx.draft \ DOMAIN content : Added(tx.on, tx.draft, b)
         /\ Replayed(tx.on, tx.draft, tx.todo) /\ Checked(tx.on)
  <1>1. tx # NoTx /\ tx \in TxType /\ tx.todo = <<>>
    BY DEF Commit, Types
  <1>2. tx.on \in Session
    BY <1>1 DEF TxType
  <1>3. stage'[tx.on] = "merged" /\ \A s \in Session \ {tx.on} : stage'[s] = stage[s]
    BY <1>2 DEF Commit, Types
  <1>4. Entries(tx.todo) = {} /\ \A b : ~EndsDeleted(tx.todo, b)
    BY <1>1 DEF Entries, EndsDeleted
  <1> QED
    BY <1>1, <1>2, <1>3, <1>4 DEF Commit, Merging

(* No block loses its parent, and none comes without.                      *)
LEMMA NextRooted == Types /\ Known /\ Rooted /\ Merging /\ [Next]_vars => Rooted'
  <1> SUFFICES ASSUME Types, Known, Rooted, Merging, [Next]_vars, NEW b \in DOMAIN content',
                      NEW p, p = content'[b].parent
               PROVE  p = NoBlock \/ p \in DOMAIN content' \/ \E s \in Session : Lost(s, p)'
    BY DEF Rooted, Lost
  <1>1. CASE b \in DOMAIN content
    <2>1. p = content[b].parent /\ DOMAIN content \subseteq DOMAIN content'
      BY <1>1, ContentGrows DEF Grows
    <2>2. p = NoBlock \/ p \in DOMAIN content \/ \E s \in Session : Lost(s, p)
      BY <1>1, <2>1 DEF Rooted
    <2> QED
      BY <2>1, <2>2, LostStays
  <1>2. CASE b \notin DOMAIN content
    <2>1. Commit
      BY <1>2, ContentGrows
    <2> DEFINE z == tx.on
    <2>2. /\ z \in Session /\ tx # NoTx /\ content' = tx.draft /\ Added(z, tx.draft, b)
          /\ Checked(z) /\ Entries(tx.todo) = {} /\ Replayed(z, tx.draft, tx.todo)
          /\ \A c \in DOMAIN content : c \in DOMAIN content'
      BY <1>2, <2>1, CommitState DEF Redrawn
    <2>3. b \in DOMAIN rows[z] /\ p = rows[z][b].parent /\ rows[z][b].dirty
      BY <1>2, <2>2 DEF Added, SameText, Known
    <2>4. p = NoBlock \/ p \in DOMAIN content \/ p \in DOMAIN rows[z]
      BY <2>2, <2>3 DEF Checked
    <2>5. ASSUME p \in DOMAIN rows[z] PROVE p \in DOMAIN content' \/ Lost(z, p)
      <3>1. p \in Block
        BY <2>2, <2>5, RowFields
      <3>2. Lost(z, p) \/ p \in DOMAIN content \/ Change("insert", p) \in Entries(journal[z])
        BY <2>2, <2>5, RowOrigin
      <3>3. Change("insert", p) \in Entries(journal[z]) => p \in DOMAIN tx.draft
        BY <2>2, <3>1 DEF Replayed
      <3> QED
        BY <2>2, <3>2, <3>3
    <2> HIDE DEF z
    <2> QED
      BY <2>2, <2>4, <2>5, LostStays
  <1> QED
    BY <1>1, <1>2

(* The tables are empty, but for the root blocks.                          *)
LEMMA InitMerge == Init => MergeInv
  <1> SUFFICES ASSUME Init PROVE MergeInv
    OBVIOUS
  <1>1. /\ content = [b \in Root |-> First] /\ First \in Stored /\ First.parent = NoBlock
        /\ rows = [s \in Session |-> <<>>] /\ deps = [s \in Session |-> <<>>]
        /\ journal = [s \in Session |-> <<>>] /\ stage = [s \in Session |-> "open"]
        /\ calls = {} /\ tx = NoTx /\ torn = {} /\ made = 0
    BY ContentAssumption DEF Init, First, Stored, Layout
  <1>2. content \in Table(Stored)
    <2>1. Root \in SUBSET Block /\ content \in [Root -> Stored]
      BY <1>1, ContentAssumption
    <2> QED
      BY <2>1 DEF Table
  <1>3. \A Row : <<>> \in Table(Row) /\ DOMAIN <<>> = {}
    <2>1. \A Row : <<>> \in [{} -> Row] /\ DOMAIN <<>> = {}
      OBVIOUS
    <2> QED
      BY <2>1 DEF Table
  <1>4. Types
    BY <1>1, <1>2, <1>3, ContentAssumption DEF Types
  <1>5. Overlaps /\ Copies /\ Known
    BY <1>1, <1>3 DEF Overlaps, Copies, Known
  <1>6. Rooted /\ Merging
    BY <1>1 DEF Rooted, Merging
  <1> QED
    BY <1>4, <1>5, <1>6 DEF MergeInv

(* Every step keeps the invariant.                                         *)
LEMMA NextMerge == MergeInv /\ [Next]_vars => MergeInv'
  BY NextTypes, NextOverlaps, NextCopies, NextKnown, NextRooted, NextMerging DEF MergeInv

(* What the merger has checked stays true until it commits, whatever calls *)
(* and crashes come in between.                                            *)
THEOREM MergeInvariant == Spec => []MergeInv
  BY InitMerge, NextMerge, PTL DEF Spec

(* The types of the tables are those of the run's invariant.               *)
LEMMA TypesAreOk == Types => TypeOK
  <1> SUFFICES ASSUME Types PROVE TypeOK
    OBVIOUS
  <1>1. IsTable(content, Stored)
    BY TableRows DEF Types
  <1>2. ASSUME NEW s \in Session
        PROVE  IsTable(rows[s], Edited) /\ IsTable(deps[s], Text) /\ journal[s] \in Seq(ChangeType)
    <2>1. rows[s] \in Table(Edited) /\ deps[s] \in Table(Text) /\ journal[s] \in Seq(ChangeType)
      BY DEF Types
    <2> QED
      BY <2>1, TableRows
  <1>3. tx # NoTx => tx.on \in Session /\ IsTable(tx.draft, Stored) /\ tx.todo \in Seq(ChangeType)
    <2>1. tx # NoTx => tx.on \in Session /\ tx.draft \in Table(Stored) /\ tx.todo \in Seq(ChangeType)
      BY DEF Types, TxType
    <2> QED
      BY <2>1, TableRows
  <1> QED
    BY <1>1, <1>2, <1>3 DEF Types, TypeOK

(* The variables of the merge keep their types.                            *)
THEOREM MergeTypes == Spec => []TypeOK
  <1>1. MergeInv => TypeOK
    BY TypesAreOk DEF MergeInv
  <1> QED
    BY <1>1, MergeInvariant, PTL

(* A text that a merge replaces is the one its session had copied.         *)
LEMMA TextStep ==
  ASSUME MergeInv, [Next]_vars, NEW b \in DOMAIN content, content'[b].text # content[b].text
  PROVE  \E s \in Session : /\ stage[s] = "merging" /\ stage'[s] = "merged"
                            /\ rows[s][b].base.text = content[b].text \/ InDoubt(s, b)
  <1>1. Commit
    BY ContentGrows DEF MergeInv
  <1> DEFINE z == tx.on
  <1>2. /\ z \in Session /\ tx # NoTx /\ stage[z] = "merging" /\ stage'[z] = "merged"
        /\ content' = tx.draft /\ Redrawn(z, tx.draft, b)
        /\ Entries(tx.todo) = {} /\ Replayed(z, tx.draft, tx.todo)
    BY <1>1, CommitState DEF MergeInv
  <1>3. b \in DOMAIN rows[z] /\ b \in Block
    BY <1>2, RowFields DEF Redrawn, SameText, MergeInv
  <1>4. Change("insert", b) \notin Entries(journal[z])
    BY <1>2, <1>3 DEF Replayed
  <1>5. Lost(z, b) \/ content[b].text = rows[z][b].base.text
    BY <1>2, <1>3, <1>4, RowOrigin DEF MergeInv
  <1>6. Lost(z, b) => InDoubt(z, b)
    BY DEF Lost, InDoubt
  <1> QED
    BY <1>2, <1>5, <1>6

(* A merge replaces the text of a block only if its session has copied     *)
(* that text: the second of two concurrent editors is refused.             *)
THEOREM TextIsNotLost == Spec => NoLostText
  <1>1. MergeInv /\ [Next]_vars =>
           [\A b \in DOMAIN content : content'[b].text # content[b].text =>
               \E s \in Session :
                  /\ stage[s] = "merging" /\ stage'[s] = "merged"
                  /\ rows[s][b].base.text = content[b].text \/ InDoubt(s, b)]_vars
    BY TextStep
  <1> QED
    BY <1>1, MergeInvariant, PTL DEF Spec, NoLostText

(* No merge takes a block out of content.db, brings a deleted one back or  *)
(* moves one.                                                              *)
THEOREM NoBlockGoes == Spec => BlocksStay
  <1>1. MergeInv /\ [Next]_vars =>
           [\A b \in DOMAIN content :
               /\ b \in DOMAIN content'
               /\ content'[b].parent = content[b].parent
               /\ content[b].deleted => content'[b].deleted]_vars
    BY ContentGrows DEF MergeInv, Grows
  <1> QED
    BY <1>1, MergeInvariant, PTL DEF Spec, BlocksStay

-----------------------------------------------------------------------------
(* What a session shows.                                                   *)

(* Row b of session s shows what its journal and the calls say of it.      *)
Shows(s, b) ==
    /\ rows[s][b].new =>
          Calling(s, b, {"insert"}) \/ Change("insert", b) \in Entries(journal[s])
    /\ rows[s][b].dirty /\ ~rows[s][b].deleted =>
          \/ Calling(s, b, {"insert", "update"})
          \/ Change("insert", b) \in Entries(journal[s])
          \/ Change("update", b) \in Entries(journal[s])
    /\ rows[s][b].deleted =>
          \/ rows[s][b].base.deleted \/ Calling(s, b, {"delete"})
          \/ EndsDeleted(journal[s], b)
    /\ Calling(s, b, {"delete"}) => rows[s][b].deleted
    /\ Calling(s, b, {"insert"}) => ~rows[s][b].deleted

\* what sessions have of the parents and the deletions of content.db
FromContent ==
    /\ \A s \in Session : \A b \in DOMAIN rows[s] :
          /\ rows[s][b].base.deleted => b \in DOMAIN content /\ content[b].deleted
          /\ ~rows[s][b].new =>
                b \in DOMAIN content /\ rows[s][b].parent = content[b].parent
    /\ \A c \in calls : c.at \in {"read", "copied"} =>
          /\ c.block \in DOMAIN content /\ c.row.parent = content[c.block].parent
          /\ c.row.deleted => content[c.block].deleted

(* A block that was copied has the parent it was copied with, and is       *)
(* deleted if it was.                                                      *)
LEMMA NextFromContent == Types /\ Merging /\ FromContent /\ [Next]_vars => FromContent'
  <1> SUFFICES ASSUME Types, Merging, FromContent, [Next]_vars PROVE FromContent'
    OBVIOUS
  <1> DEFINE Row(s, b) == /\ rows'[s][b].base.deleted =>
                                b \in DOMAIN content' /\ content'[b].deleted
                          /\ ~rows'[s][b].new =>
                                b \in DOMAIN content' /\ rows'[s][b].parent = content'[b].parent
             Call(c) == c.at \in {"read", "copied"} =>
                           /\ c.block \in DOMAIN content'
                           /\ c.row.parent = content'[c.block].parent
                           /\ c.row.deleted => content'[c.block].deleted
  <1>1. Grows
    BY ContentGrows
  <1>2. \A c \in calls : Call(c)
    BY <1>1 DEF FromContent, Grows
  <1>3. ASSUME NEW s \in Session, NEW b \in DOMAIN rows[s],
               rows'[s][b].base = rows[s][b].base, rows'[s][b].new = rows[s][b].new,
               rows'[s][b].parent = rows[s][b].parent
        PROVE  Row(s, b)
    BY <1>1, <1>3 DEF FromContent, Grows
  <1>4. ASSUME NEW s \in Session, NEW b \in Block, CopyBlock(s, b) PROVE FromContent'
    <2> DEFINE call == [at |-> "read", on |-> s, block |-> b, row |-> content[b]]
    <2>1. Start(call) /\ b \in DOMAIN content /\ UNCHANGED <<content, rows>>
      BY <1>4 DEF CopyBlock
    <2>2. Call(call)
      BY <2>1
    <2> HIDE DEF call
    <2>3. calls' = calls \cup {call}
      BY <2>1, StartsCall
    <2> HIDE DEF Call
    <2>4. \A c \in calls' : Call(c)
      BY <1>2, <2>2, <2>3
    <2> QED
      BY <1>3, <2>1, <2>4 DEF FromContent, Call
  <1>5. ASSUME NEW s \in Session, NEW b \in Block, NEW at \in {"insert", "update", "delete"},
               Edits(s, b, at)
        PROVE  FromContent'
    <2> DEFINE call == [at |-> at, on |-> s, block |-> b]
    <2>1. Start(call) /\ call.at \notin {"read", "copied"}
      BY <1>5 DEF Edits
    <2> HIDE DEF call
    <2>2. \A c \in calls' : Call(c)
      <3>1. calls' = calls \cup {call}
        BY <2>1, StartsCall
      <3> QED
        BY <1>2, <2>1, <3>1
    <2>3. CASE rows' = rows
      BY <1>3, <2>2, <2>3 DEF FromContent
    <2>4. ASSUME NEW r \in Edited, SetRow(s, b, r),
                 \/ r.new /\ ~r.base.deleted
                 \/ /\ b \in DOMAIN rows[s] /\ r.base = rows[s][b].base
                    /\ r.new = rows[s][b].new /\ r.parent = rows[s][b].parent
          PROVE  FromContent'
      <3>1. /\ DOMAIN rows'[s] = DOMAIN rows[s] \cup {b} /\ rows'[s][b] = r
            /\ \A c \in DOMAIN rows[s] \ {b} : rows'[s][c] = rows[s][c]
            /\ \A z \in Session \ {s} : rows'[z] = rows[z]
        BY <2>4, RowSet
      <3>2. Row(s, b)
        BY <1>3, <2>4, <3>1
      <3>3. \A z \in Session : \A c \in DOMAIN rows'[z] : Row(z, c)
        BY <1>3, <3>1, <3>2
      <3> QED
        BY <2>2, <3>3 DEF FromContent
    <2> QED
      BY <1>5, <2>3, <2>4 DEF Edits
  <1>6. ASSUME NEW e \in calls, CopiesRow(e) PROVE FromContent'
    <2>1. e.on \in Session /\ e.block \in Block
      BY CallFields
    <2>2. PICK d : d.block = e.block /\ d.row = e.row /\ calls' = (calls \ {e}) \cup {d}
      BY <1>6 DEF CopiesRow
    <2>3. PICK r \in Edited : /\ SetRow(e.on, e.block, r) /\ r.base = e.row
                              /\ r.parent = e.row.parent
      BY <1>6 DEF CopiesRow
    <2>4. e.at = "read" /\ Call(e)
      BY <1>2, <1>6 DEF CopiesRow
    <2>5. \A c \in calls' : Call(c)
      BY <1>2, <2>2, <2>4
    <2>6. /\ DOMAIN rows'[e.on] = DOMAIN rows[e.on] \cup {e.block} /\ rows'[e.on][e.block] = r
          /\ \A c \in DOMAIN rows[e.on] \ {e.block} : rows'[e.on][c] = rows[e.on][c]
          /\ \A z \in Session \ {e.on} : rows'[z] = rows[z]
      BY <2>1, <2>3, RowSet
    <2>7. Row(e.on, e.block)
      BY <2>3, <2>4, <2>6
    <2>8. \A z \in Session : \A c \in DOMAIN rows'[z] : Row(z, c)
      BY <1>3, <2>1, <2>6, <2>7
    <2> QED
      BY <2>5, <2>8 DEF FromContent
  <1>7. ASSUME calls' \subseteq calls, rows' = rows PROVE FromContent'
    BY <1>2, <1>3, <1>7 DEF FromContent
  <1>8. CASE CopyDeps \/ LogChange \/ Ends
    BY <1>7, <1>8 DEF CopyDeps, LogChange, Ends
  <1> QED
    BY <1>4, <1>5, <1>6, <1>8, StepKinds

(* A row that no call is at shows what its journal says.                   *)
LEMMA NextShows ==
  ASSUME Types, Overlaps, [Next]_vars,
         \A s \in Session : \A b \in DOMAIN rows[s] : <<s, b>> \notin torn => Shows(s, b)
  PROVE  (\A s \in Session : \A b \in DOMAIN rows[s] : <<s, b>> \notin torn => Shows(s, b))'
  <1> DEFINE Good(s, b) == <<s, b>> \notin torn' => Shows(s, b)'
  <1>1. ASSUME NEW s \in Session, NEW b \in DOMAIN rows[s], rows'[s][b] = rows[s][b],
               torn \subseteq torn', journal'[s] = journal[s],
               \A c \in (calls \ calls') \cup (calls' \ calls) :
                  c.on = s /\ c.block = b =>
                     c.at \notin {"insert", "update", "delete"} \/ <<s, b>> \in torn'
        PROVE  Good(s, b)
    <2> SUFFICES ASSUME <<s, b>> \notin torn' PROVE Shows(s, b)'
      OBVIOUS
    <2>1. Shows(s, b)
      BY <1>1
    <2>2. /\ Calling(s, b, {"insert", "update"})' <=> Calling(s, b, {"insert", "update"})
          /\ Calling(s, b, {"insert"})' <=> Calling(s, b, {"insert"})
          /\ Calling(s, b, {"delete"})' <=> Calling(s, b, {"delete"})
      BY <1>1 DEF Calling
    <2> QED
      BY <1>1, <2>1, <2>2 DEF Shows
  <1> HIDE DEF Good
  <1>2. ASSUME NEW s \in Session, NEW b \in Block, CopyBlock(s, b)
        PROVE  \A z \in Session : \A c \in DOMAIN rows'[z] : Good(z, c)
    <2> DEFINE call == [at |-> "read", on |-> s, block |-> b, row |-> content[b]]
    <2>1. Start(call) /\ call.at = "read" /\ UNCHANGED <<rows, journal>>
      BY <1>2 DEF CopyBlock
    <2> HIDE DEF call
    <2> QED
      BY <1>1, <2>1, StartsCall
  <1>3. ASSUME NEW s \in Session, NEW b \in Block, NEW at \in {"insert", "update", "delete"},
               Edits(s, b, at)
        PROVE  \A z \in Session : \A c \in DOMAIN rows'[z] : Good(z, c)
    <2> DEFINE call == [at |-> at, on |-> s, block |-> b]
    <2>1. Start(call) /\ call.at = at /\ call.on = s /\ call.block = b /\ journal' = journal
      <3>1. Start(call) /\ journal' = journal
        BY <1>3 DEF Edits
      <3> QED
        BY <3>1
    <2> HIDE DEF call
    <2>2. /\ calls' = calls \cup {call} /\ torn \subseteq torn'
          /\ \A c \in calls : c.on = s /\ c.block = b => <<s, b>> \in torn'
      BY <2>1, StartsCall
    <2>3. CASE rows' = rows /\ b \notin DOMAIN rows[s]
      <3> SUFFICES ASSUME NEW z \in Session, NEW c \in DOMAIN rows[z] PROVE Good(z, c)
        BY <2>3
      <3>1. ~(call.on = z /\ call.block = c)
        BY <2>1, <2>3
      <3>2. \A e \in (calls \ calls') \cup (calls' \ calls) : ~(e.on = z /\ e.block = c)
        BY <2>2, <3>1
      <3> QED
        BY <1>1, <2>1, <2>2, <2>3, <3>2
    <2>4. ASSUME NEW r \in Edited, SetRow(s, b, r),
                 IF at = "insert" THEN b \notin DOMAIN rows[s] /\ ~r.deleted
                 ELSE /\ b \in DOMAIN rows[s] /\ r.base = rows[s][b].base
                      /\ r.new = rows[s][b].new,
                 at = "update" => r.deleted = rows[s][b].deleted,
                 at = "delete" => r.deleted
          PROVE  \A z \in Session : \A c \in DOMAIN rows'[z] : Good(z, c)
      <3>1. /\ DOMAIN rows'[s] = DOMAIN rows[s] \cup {b} /\ rows'[s][b] = r
            /\ \A c \in DOMAIN rows[s] \ {b} : rows'[s][c] = rows[s][c]
            /\ \A z \in Session \ {s} : rows'[z] = rows[z]
        BY <2>4, RowSet
      <3>2. ASSUME <<s, b>> \notin torn' PROVE Shows(s, b)'
        <4>1. /\ \A A : Calling(s, b, A)' <=> at \in A
              /\ \A A : ~Calling(s, b, A)
          BY <2>1, <2>2, <3>2 DEF Calling
        <4>2. at = "update" /\ r.deleted => r.base.deleted \/ EndsDeleted(journal[s], b)
          BY <2>2, <2>4, <3>2, <4>1 DEF Shows
        <4>3. r.new => at = "insert" \/ Change("insert", b) \in Entries(journal[s])
          BY <2>2, <2>4, <3>2, <4>1 DEF Shows
        <4> QED
          BY <2>1, <2>4, <3>1, <4>1, <4>2, <4>3 DEF Shows
      <3>3. Good(s, b)
        BY <3>2 DEF Good
      <3>4. \A c \in DOMAIN rows[s] \ {b} : Good(s, c)
        BY <1>1, <2>1, <2>2, <3>1
      <3>5. \A z \in Session \ {s} : \A c \in DOMAIN rows[z] : Good(z, c)
        BY <1>1, <2>1, <2>2, <3>1
      <3> QED
        BY <3>1, <3>3, <3>4, <3>5
    <2> QED
      BY <1>3, <2>3, <2>4 DEF Edits
  <1>4. ASSUME NEW e \in calls, CopiesRow(e)
        PROVE  \A z \in Session : \A c \in DOMAIN rows'[z] : Good(z, c)
    <2>1. e.on \in Session /\ e.block \in Block /\ e.at = "read"
          /\ torn' = torn /\ journal' = journal
      BY <1>4, CallFields DEF CopiesRow
    <2>2. PICK d : d.at = "copied" /\ calls' = (calls \ {e}) \cup {d}
      BY <1>4 DEF CopiesRow
    <2>3. PICK r \in Edited : /\ SetRow(e.on, e.block, r) /\ ~r.dirty /\ ~r.new
                              /\ r.base = e.row /\ r.deleted = e.row.deleted
      BY <1>4 DEF CopiesRow
    <2>4. /\ DOMAIN rows'[e.on] = DOMAIN rows[e.on] \cup {e.block} /\ rows'[e.on][e.block] = r
          /\ \A c \in DOMAIN rows[e.on] \ {e.block} : rows'[e.on][c] = rows[e.on][c]
          /\ \A z \in Session \ {e.on} : rows'[z] = rows[z]
      BY <2>1, <2>3, RowSet
    <2>5. Good(e.on, e.block)
      <3> SUFFICES ASSUME <<e.on, e.block>> \notin torn' PROVE Shows(e.on, e.block)'
        BY DEF Good
      <3>1. /\ ~Calling(e.on, e.block, {"delete"})' /\ ~Calling(e.on, e.block, {"insert"})'
        BY <2>1, <2>2 DEF Overlaps, Calling
      <3> QED
        BY <2>3, <2>4, <3>1 DEF Shows
    <2>6. \A c \in DOMAIN rows[e.on] \ {e.block} : Good(e.on, c)
      BY <1>1, <2>1, <2>2, <2>4
    <2>7. \A z \in Session \ {e.on} : \A c \in DOMAIN rows[z] : Good(z, c)
      BY <1>1, <2>1, <2>2, <2>4
    <2> QED
      BY <2>4, <2>5, <2>6, <2>7
  <1>5. CASE CopyDeps
    <2>1. PICK e \in calls : e.at = "copied" /\ calls' = calls \ {e}
                             /\ UNCHANGED <<rows, journal, torn>>
      BY <1>5 DEF CopyDeps
    <2>2. \A z \in Session : \A c \in DOMAIN rows'[z] : Good(z, c)
      BY <1>1, <2>1
    <2> QED
      BY <2>2 DEF Good
  <1>6. CASE LogChange
    <2>1. PICK e \in calls :
             /\ e.at \in {"insert", "update", "delete"}
             /\ journal' = [journal EXCEPT ![e.on] = Append(@, Change(e.at, e.block))]
             /\ calls' = calls \ {e} /\ UNCHANGED <<rows, torn>>
      BY <1>6 DEF LogChange, Change
    <2> DEFINE x == Change(e.at, e.block)
    <2>2. e.on \in Session /\ x \in ChangeType
      BY <2>1, CallFields DEF ChangeType, Change
    <2>3. journal \in [Session -> Seq(ChangeType)] /\ journal[e.on] \in Seq(ChangeType)
      BY <2>2 DEF Types
    <2>4. /\ journal'[e.on] = Append(journal[e.on], x)
          /\ \A z \in Session \ {e.on} : journal'[z] = journal[z]
      BY <2>1, <2>2, <2>3
    <2>5. \A o, c : x = Change(o, c) <=> o = e.at /\ c = e.block
      BY DEF Change
    <2> HIDE DEF x
    <2>6. Entries(journal'[e.on]) = Entries(journal[e.on]) \cup {x}
      BY <2>2, <2>3, <2>4, AppendEntries
    <2>7. \A c : /\ EndsDeleted(journal[e.on], c) /\ x # Change("insert", c) =>
                       EndsDeleted(journal'[e.on], c)
                 /\ x = Change("delete", c) => EndsDeleted(journal'[e.on], c)
      BY <2>2, <2>3, <2>4, AppendDeleted
    <2>8. ASSUME NEW z \in Session \ {e.on}, NEW c \in DOMAIN rows[z] PROVE Good(z, c)
      BY <1>1, <2>1, <2>4
    <2>9. ASSUME NEW c \in DOMAIN rows[e.on], <<e.on, c>> \notin torn PROVE Shows(e.on, c)'
      <3>1. Shows(e.on, c)
        BY <2>2, <2>9
      <3>2. CASE c = e.block
        <4>1. \A A : ~Calling(e.on, c, A)' /\ (Calling(e.on, c, A) <=> e.at \in A)
          BY <2>1, <2>9, <3>2 DEF Overlaps, Calling
        <4>2. ASSUME rows[e.on][c].dirty, ~rows[e.on][c].deleted
              PROVE  \/ Change("insert", c) \in Entries(journal'[e.on])
                     \/ Change("update", c) \in Entries(journal'[e.on])
          BY <2>1, <2>5, <2>6, <3>1, <3>2, <4>1, <4>2 DEF Shows
        <4>3. ASSUME rows[e.on][c].deleted
              PROVE  rows[e.on][c].base.deleted \/ EndsDeleted(journal'[e.on], c)
          BY <2>5, <2>7, <3>1, <3>2, <4>1, <4>3 DEF Shows
        <4>4. rows[e.on][c].new => Change("insert", c) \in Entries(journal'[e.on])
          BY <2>1, <2>5, <2>6, <3>1, <3>2, <4>1 DEF Shows
        <4> QED
          BY <2>1, <4>1, <4>2, <4>3, <4>4 DEF Shows
      <3>3. CASE c # e.block
        <4>1. \A A : Calling(e.on, c, A)' <=> Calling(e.on, c, A)
          BY <2>1, <3>3 DEF Calling
        <4>2. EndsDeleted(journal[e.on], c) => EndsDeleted(journal'[e.on], c)
          BY <2>5, <2>7, <3>3
        <4> QED
          BY <2>1, <2>6, <3>1, <4>1, <4>2 DEF Shows
      <3> QED
        BY <3>2, <3>3
    <2>10. \A z \in Session : \A c \in DOMAIN rows'[z] : Good(z, c)
      BY <2>1, <2>8, <2>9 DEF Good
    <2> QED
      BY <2>10 DEF Good
  <1>7. ASSUME Ends PROVE \A z \in Session : \A c \in DOMAIN rows'[z] : Good(z, c)
    BY <1>1, <1>7 DEF Ends
  <1> QED
    BY <1>2, <1>3, <1>4, <1>5, <1>6, <1>7, StepKinds DEF Good

(* Only Commit marks a session as merged.                                  *)
LEMMA StageMerged ==
  ASSUME Types, Merging, [Next]_vars, NEW s \in Session, stage[s] = "merging", stage'[s] = "merged"
  PROVE  Commit
  BY DEF Types, Next, SessionStep, CopyBlock, UpdateBlock, InsertBlock, DeleteBlock, Submit,
         CallStep, ScanFails, CopyRow, CopyDeps, LogChange, CutShort, MergerStep, Accept, Refuse,
         ApplyInsert, ApplyUpdate, ApplyDelete, Replay, Rollback, Crash, vars

(* The invariant of what sessions show.                                    *)
LEMMA ShownHolds == Spec => []ShownInv
  <1>1. Shown <=> FromContent /\ \A s \in Session : \A b \in DOMAIN rows[s] :
                                     <<s, b>> \notin torn => Shows(s, b)
    BY DEF Shown, FromContent, Shows
  <1>2. Init => ShownInv
    <2>1. Init => \A s \in Session : DOMAIN rows[s] = {}
      BY DEF Init
    <2> QED
      BY <2>1, InitMerge DEF Init, ShownInv, Shown
  <1>3. ShownInv /\ [Next]_vars => ShownInv'
    <2> SUFFICES ASSUME ShownInv, [Next]_vars PROVE ShownInv'
      OBVIOUS
    <2>1. MergeInv' /\ FromContent'
      BY <1>1, NextMerge, NextFromContent DEF ShownInv, MergeInv
    <2>2. (\A s \in Session : \A b \in DOMAIN rows[s] : <<s, b>> \notin torn => Shows(s, b))'
      BY <1>1, NextShows DEF ShownInv, MergeInv
    <2> QED
      BY <2>1, <2>2 DEF ShownInv, Shown, FromContent, Shows
  <1> QED
    BY <1>2, <1>3, PTL DEF Spec

(* A merge is all or nothing: every row a session shows as changed is in   *)
(* content.db as the session shows it, when the session is merged, except  *)
(* that what it deleted and then copied again is deleted; and of a row in  *)
(* doubt no value gets there but the session's.                            *)
THEOREM MergeShowsAll == Spec => MergedAsShown
  <1>1. ShownInv /\ [Next]_vars =>
           [\A s \in Session : stage[s] = "merging" /\ stage'[s] = "merged" =>
               \A b \in DOMAIN rows[s] :
                  /\ NothingElse(s, b)
                  /\ rows[s][b].dirty /\ ~InDoubt(s, b) =>
                        /\ b \in DOMAIN content'
                        /\ content'[b].parent = rows[s][b].parent
                        /\ IF rows[s][b].deleted
                           THEN content'[b].deleted
                           ELSE AsShown(s, b) /\ StaysAlive(s, b)]_vars
    <2> SUFFICES ASSUME ShownInv, [Next]_vars, NEW z \in Session, stage[z] = "merging",
                        stage'[z] = "merged", NEW b \in DOMAIN rows[z]
                 PROVE  /\ NothingElse(z, b)
                        /\ rows[z][b].dirty /\ ~InDoubt(z, b) =>
                              /\ b \in DOMAIN content'
                              /\ content'[b].parent = rows[z][b].parent
                              /\ IF rows[z][b].deleted
                                 THEN content'[b].deleted
                                 ELSE AsShown(z, b) /\ StaysAlive(z, b)
      OBVIOUS
    <2>1. Commit /\ Types /\ Merging /\ Known
      BY StageMerged DEF ShownInv, MergeInv
    <2>2. /\ z = tx.on /\ tx # NoTx /\ content' = tx.draft /\ Entries(tx.todo) = {}
          /\ ~EndsDeleted(tx.todo, b) /\ Replayed(z, tx.draft, tx.todo)
          /\ \A c \in DOMAIN content : Redrawn(z, tx.draft, c)
          /\ \A c \in DOMAIN tx.draft \ DOMAIN content : Added(z, tx.draft, c)
      BY <2>1, CommitState
    <2>3. NothingElse(z, b)
      BY <2>2 DEF NothingElse, AsShown, Redrawn, Added, SameText
    <2>4. ASSUME b \in DOMAIN content' PROVE StaysAlive(z, b)
      <3>1. content'[b].deleted =>
               \/ b \in DOMAIN content /\ content[b].deleted
               \/ Change("delete", b) \in Entries(journal[z])
        BY <2>2, <2>4 DEF Redrawn, Added
      <3>2. journal[z] \in Seq(ChangeType)
        BY <2>1 DEF Types
      <3> QED
        BY <3>1, <3>2 DEF StaysAlive, Entries, Change
    <2> SUFFICES ASSUME rows[z][b].dirty, ~InDoubt(z, b)
                 PROVE  /\ b \in DOMAIN content'
                        /\ content'[b].parent = rows[z][b].parent
                        /\ IF rows[z][b].deleted
                           THEN content'[b].deleted
                           ELSE AsShown(z, b) /\ StaysAlive(z, b)
      BY <2>3
    <2>5. b \in Block /\ ~Lost(z, b) /\ \A A : ~Calling(z, b, A)
      BY <2>1, RowFields DEF InDoubt, Lost, Calling
    <2>6. /\ rows[z][b].new => Change("insert", b) \in Entries(journal[z])
          /\ ~rows[z][b].new => b \in DOMAIN content /\ rows[z][b].parent = content[b].parent
          /\ rows[z][b].deleted =>
                rows[z][b].base.deleted \/ EndsDeleted(journal[z], b)
          /\ ~rows[z][b].deleted =>
                \/ Change("insert", b) \in Entries(journal[z])
                \/ Change("update", b) \in Entries(journal[z])
          /\ rows[z][b].base.deleted => b \in DOMAIN content /\ content[b].deleted
      BY <2>5 DEF ShownInv, Shown, Lost
    <2>7. b \in DOMAIN content' /\ content'[b].parent = rows[z][b].parent
      <3>1. CASE rows[z][b].new
        BY <2>2, <2>5, <2>6, <3>1 DEF Replayed, Added
      <3>2. CASE ~rows[z][b].new
        BY <2>2, <2>6, <3>2 DEF Redrawn
      <3> QED
        BY <3>1, <3>2
    <2>8. ASSUME rows[z][b].deleted PROVE content'[b].deleted
      BY <2>2, <2>5, <2>6, <2>7, <2>8 DEF Replayed, Redrawn
    <2>9. ASSUME ~rows[z][b].deleted PROVE AsShown(z, b)
      BY <2>2, <2>5, <2>6, <2>7, <2>9 DEF Replayed, SameText, AsShown
    <2> QED
      BY <2>4, <2>7, <2>8, <2>9
  <1> QED
    BY <1>1, ShownHolds, PTL DEF Spec, MergedAsShown

-----------------------------------------------------------------------------
(* The resolver.                                                           *)

(* The fields of a resolution.                                             *)
LEMMA DoingFields ==
  ASSUME DoingType
  PROVE  /\ doing.does \in {"keep_session", "keep_content", "discard", "discard_deps"} =>
               doing.on \in Session /\ doing.block \in Block
         /\ doing.does \in {"keep_session", "keep_content"} => doing.row \in Stored
  BY DEF DoingType, Nothing

(* A session that is no longer open changes only by the resolver.          *)
LEMMA ClosedStays ==
  ASSUME Types, [Next]_vars, NEW s \in Session, stage[s] # "open"
  PROVE  /\ stage'[s] # "open"
         /\ rows'[s] = rows[s] /\ deps'[s] = deps[s] /\ journal'[s] = journal[s]
  <1>1. ASSUME NEW z \in Session, NEW b \in Block, CopyBlock(z, b)
        PROVE  UNCHANGED <<stage, rows, deps, journal>>
    BY <1>1 DEF CopyBlock
  <1>2. ASSUME NEW z \in Session, NEW b \in Block, NEW at \in {"insert", "update", "delete"},
               Edits(z, b, at)
        PROVE  UNCHANGED <<stage, deps, journal>> /\ rows'[s] = rows[s]
    <2>1. stage[z] = "open"
      BY <1>2 DEF Edits, Start
    <2> QED
      BY <1>2, <2>1, RowSet DEF Edits
  <1>3. ASSUME NEW c \in calls, CopiesRow(c)
        PROVE  UNCHANGED <<stage, deps, journal>> /\ rows'[s] = rows[s]
    <2>1. c.on \in Session /\ c.block \in Block /\ stage[c.on] = "open"
      BY <1>3, CallFields DEF CopiesRow
    <2> QED
      BY <1>3, <2>1, RowSet DEF CopiesRow
  <1>4. CASE CopyDeps
    BY <1>4 DEF CopyDeps, Types
  <1>5. CASE LogChange
    BY <1>5 DEF LogChange, Types
  <1>6. CASE Ends
    BY <1>6 DEF Ends
  <1> QED
    BY <1>1, <1>2, <1>3, <1>4, <1>5, <1>6, StepKinds

(* A step on a refused session keeps the invariant of the merge if it      *)
(* keeps the types and leaves the merger what it has to know of the rows.  *)
LEMMA ResolverKeeps ==
  ASSUME MergeInv, Types', Known', UNCHANGED <<content, calls, torn, tx>>,
         NEW s \in Session, stage[s] = "failed", stage'[s] # "open",
         \A z \in Session \ {s} :
            /\ stage'[z] = stage[z] /\ rows'[z] = rows[z]
            /\ deps'[z] = deps[z] /\ journal'[z] = journal[z]
  PROVE  MergeInv'
  <1>1. Overlaps'
    BY DEF MergeInv, Overlaps
  <1>2. Copies'
    <2>1. \A c \in calls : c.on \in Session
      BY CallFields DEF MergeInv
    <2>2. \A c \in calls : stage'[c.on] = "open" =>
             stage[c.on] = "open" /\ rows'[c.on] = rows[c.on]
      BY <2>1
    <2> QED
      BY <2>2 DEF MergeInv, Copies
  <1>3. Rooted'
    <2> SUFFICES ASSUME NEW b \in DOMAIN content, NEW p, p = content[b].parent, p # NoBlock,
                        p \notin DOMAIN content
                 PROVE  \E z \in Session : Lost(z, p)'
      BY DEF Rooted
    <2>1. PICK z \in Session : Lost(z, p)
      BY DEF MergeInv, Rooted
    <2> QED
      BY <2>1 DEF Lost
  <1>4. Merging'
    <2>1. tx # NoTx => tx.on \in Session \ {s}
      BY DEF MergeInv, Types, TxType, Merging
    <2> QED
      BY <2>1, MergingKept DEF MergeInv
  <1> QED
    BY <1>1, <1>2, <1>3, <1>4 DEF MergeInv

(* What is known of a row after a step of the resolver.                    *)
LEMMA KnownKept ==
  ASSUME Known, UNCHANGED <<content, calls, torn>>, NEW s \in Session, NEW b \in DOMAIN rows[s],
         rows'[s][b].base = rows[s][b].base, rows'[s][b].dirty \/ b \in DOMAIN content \/
                                               rows'[s][b].dirty = rows[s][b].dirty,
         b \in DOMAIN deps[s] => b \in DOMAIN deps'[s] /\ deps'[s][b] = deps[s][b],
         Change("insert", b) \in Entries(journal[s]) =>
            Change("insert", b) \in Entries(journal'[s])
  PROVE  /\ \/ <<s, b>> \in torn' \/ Calling(s, b, {"copied", "insert"})'
            \/ b \in DOMAIN deps'[s] /\ deps'[s][b] = rows'[s][b].base.text
            \/ Change("insert", b) \in Entries(journal'[s])
         /\ rows'[s][b].dirty \/ b \in DOMAIN content'
  BY DEF Known, Calling

(* A change of a row that is there, and of nothing else.                   *)
LEMMA RowChoice ==
  ASSUME MergeInv, NEW s \in Session, NEW b \in DOMAIN rows[s], NEW r \in Edited,
         stage[s] = "failed", rows' = [rows EXCEPT ![s] = [rows[s] EXCEPT ![b] = r]],
         r.base = rows[s][b].base, r.dirty \/ b \in DOMAIN content,
         UNCHANGED <<content, deps, journal, stage, calls, tx, torn, made>>
  PROVE  MergeInv' /\ DOMAIN rows'[s] = DOMAIN rows[s]
         /\ \A z \in Session \ {s} : rows'[z] = rows[z]
  <1>1. Types /\ rows[s] \in Table(Edited) /\ b \in Block /\ Known
    BY RowFields DEF MergeInv
  <1>2. SetRow(s, b, r)
    <2>1. [rows[s] EXCEPT ![b] = r] = Put(rows[s], b, r)
      BY <1>1, TableEdit
    <2> QED
      BY <2>1 DEF SetRow
  <1>3. /\ rows' \in [Session -> Table(Edited)]
        /\ DOMAIN rows'[s] = DOMAIN rows[s] /\ rows'[s][b] = r
        /\ \A c \in DOMAIN rows[s] \ {b} : rows'[s][c] = rows[s][c]
        /\ \A z \in Session \ {s} : rows'[z] = rows[z]
    BY <1>1, <1>2, RowSet
  <1>4. Types'
    BY <1>1, <1>3 DEF Types
  <1>5. \A z \in Session : \A c \in DOMAIN rows'[z] :
           /\ c \in DOMAIN rows[z] /\ rows'[z][c].base = rows[z][c].base
           /\ \/ rows'[z][c].dirty \/ c \in DOMAIN content
              \/ rows'[z][c].dirty = rows[z][c].dirty
    BY <1>3
  <1>6. Known'
    <2> SUFFICES ASSUME NEW z \in Session, NEW c \in DOMAIN rows'[z]
                 PROVE  /\ \/ <<z, c>> \in torn' \/ Calling(z, c, {"copied", "insert"})'
                           \/ c \in DOMAIN deps'[z] /\ deps'[z][c] = rows'[z][c].base.text
                           \/ Change("insert", c) \in Entries(journal'[z])
                        /\ rows'[z][c].dirty \/ c \in DOMAIN content'
      BY DEF Known
    <2>1. /\ c \in DOMAIN rows[z] /\ rows'[z][c].base = rows[z][c].base
          /\ \/ rows'[z][c].dirty \/ c \in DOMAIN content
             \/ rows'[z][c].dirty = rows[z][c].dirty
      BY <1>5
    <2>2. deps' = deps /\ journal' = journal
      OBVIOUS
    <2> QED
      BY <1>1, <2>1, <2>2, KnownKept
  <1> QED
    BY <1>3, <1>4, <1>6, ResolverKeeps

(* The resolutions that change a row.                                      *)
LEMMA RowChoices ==
  ASSUME MergeInv, DoingType, Discards, NEW s \in Session, NEW b \in Block,
         \/ ApplyMergedBlock(s, b) \/ MarkAsNew(s, b) \/ UpdateParent(s, b)
         \/ ReplaceWithContentVersion(s)
  PROVE  /\ MergeInv' /\ \A z \in Session : DOMAIN rows'[z] = DOMAIN rows[z]
         /\ UNCHANGED <<content, journal, stage>>
  <1>1. \A c \in DOMAIN rows[s] : rows[s][c] \in Edited
    BY RowFields DEF MergeInv
  <1>2. rows \in [Session -> Table(Edited)]
    BY DEF MergeInv, Types
  <1>3. CASE ApplyMergedBlock(s, b)
    <2>1. PICK t \in Text, p \in Place :
             rows' = [rows EXCEPT ![s][b].text = t, ![s][b].layout = [@ EXCEPT !.place = p], ![s][b].dirty = TRUE]
      BY <1>3 DEF ApplyMergedBlock
    <2> DEFINE l == [rows[s][b].layout EXCEPT !.place = p]
               r == [rows[s][b] EXCEPT !.text = t, !.layout = l, !.dirty = TRUE]
    <2>2. /\ b \in DOMAIN rows[s] /\ stage[s] = "failed"
          /\ UNCHANGED <<content, deps, journal, stage, calls, tx, torn, made>>
      BY <1>3 DEF ApplyMergedBlock, Choice
    <2>3. r \in Edited /\ r.base = rows[s][b].base /\ r.dirty
      <3>1. rows[s][b] \in Edited /\ rows[s][b].layout \in Layout
        BY <1>1, <2>2 DEF Edited
      <3>2. l \in Layout
        BY <3>1 DEF Layout
      <3> HIDE DEF l
      <3> QED
        BY <2>1, <3>1, <3>2 DEF Edited
    <2>4. rows' = [rows EXCEPT ![s] = [rows[s] EXCEPT ![b] = r]]
      BY <1>2, <2>1, <2>2
    <2> HIDE DEF r
    <2> QED
      BY <2>2, <2>3, <2>4, RowChoice
  <1>4. CASE MarkAsNew(s, b)
    <2> DEFINE r == [rows[s][b] EXCEPT !.new = TRUE, !.dirty = TRUE]
    <2>1. /\ b \in DOMAIN rows[s] /\ stage[s] = "failed"
          /\ UNCHANGED <<content, deps, journal, stage, calls, tx, torn, made>>
      BY <1>4 DEF MarkAsNew, Choice
    <2>2. r \in Edited /\ r.base = rows[s][b].base /\ r.dirty
      BY <1>1, <2>1 DEF Edited
    <2>3. rows' = [rows EXCEPT ![s] = [rows[s] EXCEPT ![b] = r]]
      BY <1>2, <1>4, <2>1 DEF MarkAsNew
    <2> HIDE DEF r
    <2> QED
      BY <2>1, <2>2, <2>3, RowChoice
  <1>5. CASE UpdateParent(s, b)
    <2>1. PICK p \in Block \cup {NoBlock} :
             rows' = [rows EXCEPT ![s][b].parent = p, ![s][b].dirty = TRUE]
      BY <1>5 DEF UpdateParent
    <2> DEFINE r == [rows[s][b] EXCEPT !.parent = p, !.dirty = TRUE]
    <2>2. /\ b \in DOMAIN rows[s] /\ stage[s] = "failed"
          /\ UNCHANGED <<content, deps, journal, stage, calls, tx, torn, made>>
      BY <1>5 DEF UpdateParent, Choice
    <2>3. r \in Edited /\ r.base = rows[s][b].base /\ r.dirty
      BY <1>1, <2>2 DEF Edited
    <2>4. rows' = [rows EXCEPT ![s] = [rows[s] EXCEPT ![b] = r]]
      BY <1>2, <2>1, <2>2
    <2> HIDE DEF r
    <2> QED
      BY <2>2, <2>3, <2>4, RowChoice
  <1>6. CASE ReplaceWithContentVersion(s)
    <2> DEFINE c == doing.block
               w == doing.row
               l == [rows[s][c].layout EXCEPT !.place = w.layout.place]
               r == [rows[s][c] EXCEPT !.text = w.text, !.layout = l,
                                       !.parent = w.parent, !.dirty = FALSE]
    <2>1. /\ stage[s] = "failed" /\ doing.does = "keep_content"
          /\ UNCHANGED <<content, deps, journal, stage, calls, tx, torn, made>>
          /\ rows' = IF c \in DOMAIN rows[s]
                     THEN [rows EXCEPT ![s][c].text = w.text, ![s][c].layout = [@ EXCEPT !.place = w.layout.place],
                                       ![s][c].parent = w.parent, ![s][c].dirty = FALSE]
                     ELSE rows
      BY <1>6 DEF ReplaceWithContentVersion, Goes
    <2>2. w \in Stored /\ c \in DOMAIN content
      BY <2>1, DoingFields DEF Discards
    <2>3. CASE c \in DOMAIN rows[s]
      <3>1. r \in Edited /\ r.base = rows[s][c].base
        <4>1. /\ w.text \in Text /\ w.layout.place \in Place
              /\ w.parent \in Block \cup {NoBlock}
          BY <2>2 DEF Stored, Layout
        <4>2. rows[s][c] \in Edited
          BY <1>1, <2>3
        <4>3. l \in Layout
          BY <4>1, <4>2 DEF Edited, Layout
        <4> HIDE DEF c, w, l
        <4> QED
          BY <4>1, <4>2, <4>3 DEF Edited
      <3>2. rows' = [rows EXCEPT ![s] = [rows[s] EXCEPT ![c] = r]]
        BY <1>2, <2>1, <2>3
      <3> HIDE DEF r, c
      <3> QED
        BY <2>1, <2>2, <2>3, <3>1, <3>2, RowChoice
    <2>4. CASE c \notin DOMAIN rows[s]
      <3>1. Types' /\ Known'
        BY <2>1, <2>4 DEF MergeInv, Types, Known, Calling
      <3> QED
        BY <2>1, <2>4, <3>1, ResolverKeeps
    <2> QED
      BY <2>3, <2>4
  <1> QED
    BY <1>3, <1>4, <1>5, <1>6

(* keep_session: the hash becomes that of what the user has seen.          *)
LEMMA SnapshotChoice ==
  ASSUME MergeInv, DoingType, NEW s \in Session, UpdateSnapshotHash(s)
  PROVE  /\ MergeInv' /\ \A z \in Session : DOMAIN rows'[z] = DOMAIN rows[z]
         /\ UNCHANGED <<content, journal, stage>>
  <1> SUFFICES ASSUME NEW b, b = doing.block, NEW w, w = doing.row
               PROVE  /\ MergeInv' /\ \A z \in Session : DOMAIN rows'[z] = DOMAIN rows[z]
                      /\ UNCHANGED <<content, journal, stage>>
    OBVIOUS
  <1> DEFINE r == [rows[s][b] EXCEPT !.base = w]
  <1>1. /\ stage[s] = "failed" /\ doing.does = "keep_session"
        /\ UNCHANGED <<content, journal, stage, calls, tx, torn, made>>
        /\ deps' = IF b \in DOMAIN deps[s] THEN [deps EXCEPT ![s][b] = w.text] ELSE deps
        /\ rows' = IF b \in DOMAIN rows[s] THEN [rows EXCEPT ![s][b].base = w] ELSE rows
    BY DEF UpdateSnapshotHash, Goes
  <1>2. w \in Stored /\ b \in Block /\ w.text \in Text
    BY <1>1, DoingFields DEF Stored
  <1>3. /\ deps \in [Session -> Table(Text)] /\ deps[s] \in Table(Text)
        /\ rows \in [Session -> Table(Edited)] /\ rows[s] \in Table(Edited)
        /\ Types /\ Known
    BY DEF MergeInv, Types
  <1>4. /\ deps' \in [Session -> Table(Text)]
        /\ b \in DOMAIN deps[s] => b \in DOMAIN deps'[s] /\ deps'[s][b] = w.text
        /\ \A c \in DOMAIN deps[s] \ {b} : c \in DOMAIN deps'[s] /\ deps'[s][c] = deps[s][c]
        /\ \A z \in Session \ {s} : deps'[z] = deps[z]
    <2> DEFINE X == [deps[s] EXCEPT ![b] = w.text]
    <2> SUFFICES ASSUME b \in DOMAIN deps[s]
                 PROVE  /\ deps' \in [Session -> Table(Text)]
                        /\ b \in DOMAIN deps'[s] /\ deps'[s][b] = w.text
                        /\ \A c \in DOMAIN deps[s] \ {b} :
                              c \in DOMAIN deps'[s] /\ deps'[s][c] = deps[s][c]
                        /\ \A z \in Session \ {s} : deps'[z] = deps[z]
      BY <1>1, <1>3
    <2>1. deps' = [deps EXCEPT ![s] = X]
      BY <1>1, <1>3
    <2>2. X \in Table(Text)
      <3>1. deps[s] \in [DOMAIN deps[s] -> Text] /\ DOMAIN deps[s] \in SUBSET Block
        BY <1>3, TableRows DEF IsTable
      <3>2. X \in [DOMAIN deps[s] -> Text]
        BY <1>2, <3>1
      <3> HIDE DEF X
      <3> QED
        BY <3>1, <3>2 DEF Table
    <2>3. /\ b \in DOMAIN deps[s] => b \in DOMAIN X /\ X[b] = w.text
          /\ \A c \in DOMAIN deps[s] \ {b} : c \in DOMAIN X /\ X[c] = deps[s][c]
      <3>1. deps[s] = [c \in DOMAIN deps[s] |-> deps[s][c]]
        BY <1>3, TableRows DEF IsTable
      <3> QED
        BY <3>1
    <2> HIDE DEF X
    <2>4. deps' \in [Session -> Table(Text)] /\ deps'[s] = X
          /\ \A z \in Session \ {s} : deps'[z] = deps[z]
      BY <1>3, <2>1, <2>2
    <2> QED
      BY <2>3, <2>4
  <1>5. CASE b \in DOMAIN rows[s]
    <2>1. r \in Edited /\ r.base = w /\ r.dirty = rows[s][b].dirty
      BY <1>2, <1>3, <1>5, RowFields DEF Edited
    <2>2. rows' = [rows EXCEPT ![s] = [rows[s] EXCEPT ![b] = r]]
      BY <1>1, <1>3, <1>5
    <2> HIDE DEF r
    <2>3. SetRow(s, b, r)
      <3>1. [rows[s] EXCEPT ![b] = r] = Put(rows[s], b, r)
        BY <1>3, <1>5, TableEdit
      <3> QED
        BY <2>2, <3>1 DEF SetRow
    <2>4. /\ rows' \in [Session -> Table(Edited)]
          /\ DOMAIN rows'[s] = DOMAIN rows[s] /\ rows'[s][b] = r
          /\ \A c \in DOMAIN rows[s] \ {b} : rows'[s][c] = rows[s][c]
          /\ \A z \in Session \ {s} : rows'[z] = rows[z]
      <3>1. Types /\ b \in Block /\ r \in Edited /\ DOMAIN rows[s] = DOMAIN rows[s] \cup {b}
        BY <1>2, <1>3, <1>5, <2>1
      <3> QED
        BY <2>3, <3>1, RowSet
    <2>5. Types'
      BY <1>1, <1>3, <1>4, <2>4 DEF Types
    <2>6. Known'
      <3> DEFINE Ok(z, c) ==
             /\ \/ <<z, c>> \in torn' \/ Calling(z, c, {"copied", "insert"})'
                \/ c \in DOMAIN deps'[z] /\ deps'[z][c] = rows'[z][c].base.text
                \/ Change("insert", c) \in Entries(journal'[z])
             /\ rows'[z][c].dirty \/ c \in DOMAIN content'
      <3>1. ASSUME NEW z \in Session, NEW c \in DOMAIN rows[z], z # s \/ c # b PROVE Ok(z, c)
          <4>1. /\ rows'[z][c] = rows[z][c] /\ journal' = journal
                /\ UNCHANGED <<content, calls, torn>>
            BY <1>1, <2>4, <3>1
          <4>2. c \in DOMAIN deps[z] => c \in DOMAIN deps'[z] /\ deps'[z][c] = deps[z][c]
            BY <1>4, <3>1
          <4>3. /\ \/ <<z, c>> \in torn' \/ Calling(z, c, {"copied", "insert"})'
                   \/ c \in DOMAIN deps'[z] /\ deps'[z][c] = rows'[z][c].base.text
                   \/ Change("insert", c) \in Entries(journal'[z])
                /\ rows'[z][c].dirty \/ c \in DOMAIN content'
            BY <1>3, <4>1, <4>2, KnownKept
          <4> QED
            BY <4>3
      <3>2. Ok(s, b)
        <4>1. rows'[s][b].base.text = w.text /\ rows'[s][b].dirty = rows[s][b].dirty
          BY <2>1, <2>4
        <4>2. b \in DOMAIN deps[s] => b \in DOMAIN deps'[s] /\ deps'[s][b] = w.text
          BY <1>4
        <4>3. /\ \/ <<s, b>> \in torn \/ Calling(s, b, {"copied", "insert"})
                 \/ b \in DOMAIN deps[s]
                 \/ Change("insert", b) \in Entries(journal[s])
              /\ rows[s][b].dirty \/ b \in DOMAIN content
          BY <1>3, <1>5 DEF Known
        <4>4. torn' = torn /\ content' = content /\ journal' = journal
          BY <1>1
        <4>5. Calling(s, b, {"copied", "insert"}) => Calling(s, b, {"copied", "insert"})'
          BY <1>1 DEF Calling
        <4> QED
          BY <4>1, <4>2, <4>3, <4>4, <4>5
      <3> HIDE DEF Ok
      <3>3. \A z \in Session : \A c \in DOMAIN rows'[z] : Ok(z, c)
        BY <2>4, <3>1, <3>2
      <3> QED
        BY <3>3 DEF Known, Ok
    <2> QED
      BY <1>1, <1>4, <2>4, <2>5, <2>6, ResolverKeeps
  <1>6. CASE b \notin DOMAIN rows[s]
    <2>1. rows' = rows
      BY <1>1, <1>6
    <2>2. Types'
      BY <1>1, <1>3, <1>4, <2>1 DEF Types
    <2>3. \A z \in Session : \A c \in DOMAIN rows[z] \cap DOMAIN deps[z] :
             c \in DOMAIN deps'[z] /\ deps'[z][c] = deps[z][c]
      BY <1>4, <1>6
    <2>4. Known'
      <3> SUFFICES ASSUME NEW z \in Session, NEW c \in DOMAIN rows[z]
                   PROVE  /\ \/ <<z, c>> \in torn' \/ Calling(z, c, {"copied", "insert"})'
                             \/ c \in DOMAIN deps'[z] /\ deps'[z][c] = rows'[z][c].base.text
                             \/ Change("insert", c) \in Entries(journal'[z])
                          /\ rows'[z][c].dirty \/ c \in DOMAIN content'
        BY <2>1 DEF Known
      <3>1. c \in DOMAIN deps[z] => c \in DOMAIN deps'[z] /\ deps'[z][c] = deps[z][c]
        BY <2>3
      <3>2. journal' = journal /\ UNCHANGED <<content, calls, torn>>
        BY <1>1
      <3> QED
        BY <1>3, <2>1, <3>1, <3>2, KnownKept
    <2> QED
      BY <1>1, <1>4, <2>1, <2>2, <2>4, ResolverKeeps
  <1> QED
    BY <1>1, <1>5, <1>6

(* A table without one of its rows.                                        *)
LEMMA Restricted ==
  ASSUME NEW Row, NEW f \in Table(Row), NEW b
  PROVE  [c \in DOMAIN f \ {b} |-> f[c]] \in Table(Row)
  <1> DEFINE D == DOMAIN f \ {b}
             g == [c \in D |-> f[c]]
  <1>1. D \in SUBSET Block /\ \A c \in D : f[c] \in Row
    BY TableRows DEF IsTable
  <1> HIDE DEF D
  <1>2. g \in [D -> Row]
    BY <1>1
  <1> HIDE DEF g
  <1>3. g \in Table(Row)
    BY <1>1, <1>2 DEF Table
  <1> QED
    BY <1>3 DEF g, D

(* discard, first statement: the row goes.                                 *)
LEMMA DiscardsRow ==
  ASSUME MergeInv, NEW s \in Session, NEW b \in Block, DiscardRow(s, b)
  PROVE  /\ MergeInv' /\ \A z \in Session : DOMAIN rows'[z] \subseteq DOMAIN rows[z]
         /\ b \notin DOMAIN rows'[s] /\ stage[s] = "failed"
         /\ UNCHANGED <<content, journal, stage>>
  <1> DEFINE g == [c \in DOMAIN rows[s] \ {b} |-> rows[s][c]]
  <1>1. /\ stage[s] = "failed"
        /\ UNCHANGED <<content, deps, journal, stage, calls, tx, torn, made>>
        /\ rows' = [rows EXCEPT ![s] = g]
    BY DEF DiscardRow, Choice
  <1>2. Types /\ Known /\ rows \in [Session -> Table(Edited)] /\ rows[s] \in Table(Edited)
    BY DEF MergeInv, Types
  <1>3. g \in Table(Edited)
    BY <1>2, Restricted
  <1>4. DOMAIN g = DOMAIN rows[s] \ {b} /\ \A c \in DOMAIN g : g[c] = rows[s][c]
    OBVIOUS
  <1> HIDE DEF g
  <1>5. /\ rows' \in [Session -> Table(Edited)] /\ rows'[s] = g
        /\ \A z \in Session \ {s} : rows'[z] = rows[z]
    BY <1>1, <1>2, <1>3
  <1>6. Types'
    BY <1>1, <1>2, <1>5 DEF Types
  <1>7. Known'
    <2> SUFFICES ASSUME NEW z \in Session, NEW c \in DOMAIN rows'[z]
                 PROVE  /\ \/ <<z, c>> \in torn' \/ Calling(z, c, {"copied", "insert"})'
                           \/ c \in DOMAIN deps'[z] /\ deps'[z][c] = rows'[z][c].base.text
                           \/ Change("insert", c) \in Entries(journal'[z])
                        /\ rows'[z][c].dirty \/ c \in DOMAIN content'
      BY DEF Known
    <2>1. c \in DOMAIN rows[z] /\ rows'[z][c] = rows[z][c]
      BY <1>4, <1>5
    <2>2. deps' = deps /\ journal' = journal /\ UNCHANGED <<content, calls, torn>>
      BY <1>1
    <2> QED
      BY <1>2, <2>1, <2>2, KnownKept
  <1>8. MergeInv'
    BY <1>1, <1>5, <1>6, <1>7, ResolverKeeps
  <1> QED
    BY <1>1, <1>4, <1>5, <1>8

(* discard, second statement: the changes go.                              *)
LEMMA DiscardsChanges ==
  ASSUME MergeInv, DoingType, Discards, NEW s \in Session, NEW b, b = doing.block,
         DiscardChanges(s)
  PROVE  /\ MergeInv' /\ b \in Block /\ b \notin DOMAIN rows[s] /\ stage[s] = "failed"
         /\ Entries(journal'[s]) = {e \in Entries(journal[s]) : e.block # b}
         /\ \A z \in Session \ {s} : journal'[z] = journal[z]
         /\ UNCHANGED <<content, rows, stage>>
  <1>1. /\ stage[s] = "failed" /\ doing.does = "discard" /\ doing.on = s
        /\ UNCHANGED <<content, rows, deps, stage, calls, tx, torn, made>>
        /\ journal' = [journal EXCEPT ![s] = Without(journal[s], b)]
    BY DEF DiscardChanges, Goes
  <1>2. b \in Block /\ b \notin DOMAIN rows[s]
    BY <1>1, DoingFields DEF Discards
  <1>3. Types /\ Known /\ journal \in [Session -> Seq(ChangeType)] /\ journal[s] \in Seq(ChangeType)
    BY DEF MergeInv, Types
  <1>4. /\ Without(journal[s], b) \in Seq(ChangeType)
        /\ Entries(Without(journal[s], b)) = {e \in Entries(journal[s]) : e.block # b}
    BY <1>3, WithoutKeeps
  <1>5. /\ journal' \in [Session -> Seq(ChangeType)] /\ journal'[s] = Without(journal[s], b)
        /\ \A z \in Session \ {s} : journal'[z] = journal[z]
    BY <1>1, <1>3, <1>4
  <1>6. Types'
    BY <1>1, <1>3, <1>5 DEF Types
  <1>7. Known'
    <2> SUFFICES ASSUME NEW z \in Session, NEW c \in DOMAIN rows[z]
                 PROVE  /\ \/ <<z, c>> \in torn' \/ Calling(z, c, {"copied", "insert"})'
                           \/ c \in DOMAIN deps'[z] /\ deps'[z][c] = rows'[z][c].base.text
                           \/ Change("insert", c) \in Entries(journal'[z])
                        /\ rows'[z][c].dirty \/ c \in DOMAIN content'
      BY <1>1 DEF Known
    <2>1. rows' = rows /\ deps' = deps /\ UNCHANGED <<content, calls, torn>>
      BY <1>1
    <2>2. Change("insert", c) \in Entries(journal[z]) =>
             Change("insert", c) \in Entries(journal'[z])
      <3>1. CASE z = s
        <4>1. Change("insert", c).block # b
          BY <1>2, <3>1 DEF Change
        <4> QED
          BY <1>4, <1>5, <3>1, <4>1
      <3>2. CASE z # s
        BY <1>5, <3>2
      <3> QED
        BY <3>1, <3>2
    <2> QED
      BY <1>3, <2>1, <2>2, KnownKept
  <1>8. MergeInv'
    BY <1>1, <1>5, <1>6, <1>7, ResolverKeeps
  <1> QED
    BY <1>1, <1>2, <1>4, <1>5, <1>8

(* discard, third statement: the hash goes.                                *)
LEMMA DiscardsDeps ==
  ASSUME MergeInv, DoingType, Discards, NEW s \in Session, DiscardDeps(s)
  PROVE  MergeInv' /\ stage[s] = "failed" /\ UNCHANGED <<content, rows, journal, stage>>
  <1> SUFFICES ASSUME NEW b, b = doing.block
               PROVE  /\ MergeInv' /\ stage[s] = "failed"
                      /\ UNCHANGED <<content, rows, journal, stage>>
    OBVIOUS
  <1> DEFINE g == [c \in DOMAIN deps[s] \ {b} |-> deps[s][c]]
  <1>1. /\ stage[s] = "failed" /\ doing.does = "discard_deps" /\ doing.on = s
        /\ UNCHANGED <<content, rows, journal, stage, calls, tx, torn, made>>
        /\ deps' = [deps EXCEPT ![s] = g]
    BY DEF DiscardDeps, Goes
  <1>2. b \notin DOMAIN rows[s]
    BY <1>1 DEF Discards
  <1>3. Types /\ Known /\ deps \in [Session -> Table(Text)] /\ deps[s] \in Table(Text)
    BY DEF MergeInv, Types
  <1>4. g \in Table(Text)
    BY <1>3, Restricted
  <1>5. DOMAIN g = DOMAIN deps[s] \ {b} /\ \A c \in DOMAIN g : g[c] = deps[s][c]
    OBVIOUS
  <1> HIDE DEF g
  <1>6. /\ deps' \in [Session -> Table(Text)] /\ deps'[s] = g
        /\ \A z \in Session \ {s} : deps'[z] = deps[z]
    BY <1>1, <1>3, <1>4
  <1>7. Types'
    BY <1>1, <1>3, <1>6 DEF Types
  <1>8. Known'
    <2> SUFFICES ASSUME NEW z \in Session, NEW c \in DOMAIN rows[z]
                 PROVE  /\ \/ <<z, c>> \in torn' \/ Calling(z, c, {"copied", "insert"})'
                           \/ c \in DOMAIN deps'[z] /\ deps'[z][c] = rows'[z][c].base.text
                           \/ Change("insert", c) \in Entries(journal'[z])
                        /\ rows'[z][c].dirty \/ c \in DOMAIN content'
      BY <1>1 DEF Known
    <2>1. rows' = rows /\ journal' = journal /\ UNCHANGED <<content, calls, torn>>
      BY <1>1
    <2>2. c \in DOMAIN deps[z] => c \in DOMAIN deps'[z] /\ deps'[z][c] = deps[z][c]
      BY <1>2, <1>5, <1>6
    <2> QED
      BY <1>3, <2>1, <2>2, KnownKept
  <1>9. MergeInv'
    BY <1>1, <1>6, <1>7, <1>8, ResolverKeeps
  <1> QED
    BY <1>1, <1>9

(* A session that is queued again is as it was refused.                    *)
LEMMA RequeueKeeps ==
  ASSUME MergeInv, NEW s \in Session, Requeue(s)
  PROVE  /\ MergeInv' /\ stage[s] = "failed" /\ stage'[s] = "queued"
         /\ \A z \in Session \ {s} : stage'[z] = stage[z]
         /\ UNCHANGED <<content, rows, journal>>
  <1>1. /\ stage[s] = "failed" /\ stage' = [stage EXCEPT ![s] = "queued"]
        /\ UNCHANGED <<content, rows, deps, journal, calls, tx, torn, made>>
    BY DEF Requeue
  <1>2. Types /\ Known /\ stage \in [Session -> {"open", "queued", "merging", "merged", "failed"}]
    BY DEF MergeInv, Types
  <1>3. /\ stage' \in [Session -> {"open", "queued", "merging", "merged", "failed"}]
        /\ stage'[s] = "queued" /\ \A z \in Session \ {s} : stage'[z] = stage[z]
    BY <1>1, <1>2
  <1>4. Types'
    BY <1>1, <1>2, <1>3 DEF Types
  <1>5. Known'
    BY <1>1, <1>2 DEF Known, Calling
  <1>6. MergeInv'
    BY <1>1, <1>3, <1>4, <1>5, ResolverKeeps
  <1> QED
    BY <1>1, <1>3, <1>6

-----------------------------------------------------------------------------
(* The invariant of the resolver.                                          *)

\* what no step does to a session that is no longer open
ClosedKept ==
    /\ DOMAIN content \subseteq DOMAIN content'
    /\ \A s \in Session : stage[s] # "open" =>
          /\ stage'[s] # "open" /\ DOMAIN rows'[s] \subseteq DOMAIN rows[s]
          /\ Entries(journal'[s]) \subseteq Entries(journal[s])

(* The steps that change neither the resolution under way nor what it has  *)
(* reached.                                                                *)
LEMMA MergeKeeps == MergeInv /\ [Next]_vars => MergeInv' /\ ClosedKept
  <1> SUFFICES ASSUME MergeInv, [Next]_vars PROVE MergeInv' /\ ClosedKept
    OBVIOUS
  <1>1. MergeInv'
    BY NextMerge
  <1>2. DOMAIN content \subseteq DOMAIN content'
    BY ContentGrows DEF MergeInv, Grows
  <1>3. ASSUME NEW s \in Session, stage[s] # "open"
        PROVE  stage'[s] # "open" /\ rows'[s] = rows[s] /\ journal'[s] = journal[s]
    BY <1>3, ClosedStays DEF MergeInv
  <1> QED
    BY <1>1, <1>2, <1>3 DEF ClosedKept

(* The steps of the resolver.                                              *)
LEMMA ResolverSteps ==
  ASSUME MergeInv, DoingType, Discards,
         \/ \E s \in Session, b \in Block : Resolve(s, b)
         \/ \E s \in Session : ResolverStep(s) \/ Requeue(s)
         \/ Abort
  PROVE  MergeInv' /\ ClosedKept
  <1>1. ASSUME NEW s \in Session, NEW b \in Block,
               \/ ApplyMergedBlock(s, b) \/ MarkAsNew(s, b) \/ UpdateParent(s, b)
               \/ ReplaceWithContentVersion(s)
        PROVE  MergeInv' /\ ClosedKept
    BY <1>1, RowChoices DEF ClosedKept
  <1>2. ASSUME NEW s \in Session, NEW b \in Block, DiscardRow(s, b)
        PROVE  MergeInv' /\ ClosedKept
    BY <1>2, DiscardsRow DEF ClosedKept
  <1>3. ASSUME NEW s \in Session, UpdateSnapshotHash(s) PROVE MergeInv' /\ ClosedKept
    BY <1>3, SnapshotChoice DEF ClosedKept
  <1>4. ASSUME NEW s \in Session, DiscardChanges(s) PROVE MergeInv' /\ ClosedKept
    <2> SUFFICES ASSUME NEW b, b = doing.block PROVE MergeInv' /\ ClosedKept
      OBVIOUS
    <2>1. /\ MergeInv' /\ UNCHANGED <<content, rows, stage>>
          /\ Entries(journal'[s]) = {e \in Entries(journal[s]) : e.block # b}
          /\ \A z \in Session \ {s} : journal'[z] = journal[z]
      BY <1>4, DiscardsChanges
    <2>2. \A z \in Session : Entries(journal'[z]) \subseteq Entries(journal[z])
      BY <2>1
    <2> QED
      BY <2>1, <2>2 DEF ClosedKept
  <1>5. ASSUME NEW s \in Session, DiscardDeps(s) PROVE MergeInv' /\ ClosedKept
    BY <1>5, DiscardsDeps DEF ClosedKept
  <1>6. ASSUME NEW s \in Session, Requeue(s) PROVE MergeInv' /\ ClosedKept
    <2>1. /\ MergeInv' /\ stage'[s] = "queued" /\ UNCHANGED <<content, rows, journal>>
          /\ \A z \in Session \ {s} : stage'[z] = stage[z]
      BY <1>6, RequeueKeeps
    <2>2. \A z \in Session : stage[z] # "open" => stage'[z] # "open"
      BY <2>1
    <2> QED
      BY <2>1, <2>2 DEF ClosedKept
  <1>7. ASSUME UNCHANGED vars PROVE MergeInv' /\ ClosedKept
    BY <1>7, MergeKeeps
  <1>8. ASSUME NEW s \in Session, NEW b \in Block, ReadHash(s, b) \/ ReadBlock(s, b)
        PROVE  UNCHANGED vars
    BY <1>8 DEF ReadHash, ReadBlock, Begin, Choice, vars
  <1>9. Abort => UNCHANGED vars
    BY DEF Abort
  <1>10. ASSUME NEW s \in Session, ReplaceWithContentVersion(s) PROVE MergeInv' /\ ClosedKept
    <2>1. doing.block \in Block
      BY <1>10, DoingFields DEF ReplaceWithContentVersion, Goes
    <2> QED
      BY <1>1, <1>10, <2>1
  <1>11. CASE \E s \in Session, b \in Block : Resolve(s, b)
    BY <1>1, <1>2, <1>7, <1>8, <1>11 DEF Resolve
  <1>12. CASE \E s \in Session : ResolverStep(s) \/ Requeue(s)
    BY <1>3, <1>4, <1>5, <1>6, <1>10, <1>12 DEF ResolverStep
  <1> QED
    BY <1>7, <1>9, <1>11, <1>12

(* What was discarded stays so.                                            *)
LEMMA DroppedStays ==
  ASSUME Discards, ClosedKept, NEW s \in Session, NEW b \in Block, <<s, b>> \in dropped
  PROVE  stage'[s] # "open" /\ \A e \in Entries(journal'[s]) : e.block # b
  BY DEF Discards, ClosedKept

(* A resolution stays possible until it ends.                              *)
LEMMA DiscardsKept ==
  ASSUME DoingType, Discards, ClosedKept, dropped' = dropped,
         doing' = doing \/ doing' = Nothing
  PROVE  DoingType' /\ Discards'
  <1>1. DoingType'
    BY DEF DoingType
  <1>2. \A s \in Session, b \in Block : <<s, b>> \in dropped' =>
           stage'[s] # "open" /\ \A e \in Entries(journal'[s]) : e.block # b
    BY DroppedStays
  <1>3. CASE doing' = Nothing
    <2>1. doing'.does = "nothing"
      BY <1>3 DEF Nothing
    <2> QED
      BY <1>1, <1>2, <2>1 DEF Discards
  <1>4. CASE doing' = doing
    <2>1. doing.does = "keep_content" => doing.block \in DOMAIN content'
      BY DEF Discards, ClosedKept
    <2>2. ASSUME doing.does \in {"discard", "discard_deps"}
          PROVE  stage'[doing.on] # "open" /\ doing.block \notin DOMAIN rows'[doing.on]
      BY <2>2, DoingFields DEF Discards, ClosedKept
    <2>3. ASSUME doing.does = "discard_deps"
          PROVE  \A e \in Entries(journal'[doing.on]) : e.block # doing.block
      BY <2>3, DoingFields DEF Discards, ClosedKept
    <2> QED
      BY <1>1, <1>2, <1>4, <2>1, <2>2, <2>3 DEF Discards
  <1> QED
    BY <1>3, <1>4

(* A resolution begins.                                                    *)
LEMMA DiscardsBegin ==
  ASSUME MergeInv, DoingType, Discards, ClosedKept, NEW s \in Session, NEW b \in Block,
         \/ ReadHash(s, b) \/ ReadBlock(s, b)
         \/ DiscardRow(s, b)
  PROVE  DoingType' /\ Discards'
  <1>1. dropped' = dropped
    BY DEF ReadHash, ReadBlock, Begin, DiscardRow
  <1>2. \A z \in Session, c \in Block : <<z, c>> \in dropped' =>
           stage'[z] # "open" /\ \A e \in Entries(journal'[z]) : e.block # c
    BY <1>1, DroppedStays
  <1>3. ASSUME NEW step \in {"keep_session", "keep_content"}, Begin(s, b, step)
        PROVE  DoingType' /\ Discards'
    <2>1. /\ b \in DOMAIN content /\ content' = content
          /\ doing' = [does |-> step, on |-> s, block |-> b, row |-> content[b]]
      BY <1>3 DEF Begin, Choice
    <2>2. content[b] \in Stored
      BY <2>1, TableRows DEF MergeInv, Types
    <2>3. doing' \in [does : {"keep_session", "keep_content"}, on : Session,
                      block : Block, row : Stored]
      BY <2>1, <2>2
    <2>4. doing'.does = step /\ doing'.block = b
      BY <2>1
    <2> QED
      BY <1>2, <2>1, <2>3, <2>4 DEF DoingType, Discards
  <1>4. ASSUME DiscardRow(s, b) PROVE DoingType' /\ Discards'
    <2>1. doing' = [does |-> "discard", on |-> s, block |-> b]
      BY <1>4 DEF DiscardRow
    <2>2. doing' \in [does : {"discard", "discard_deps"}, on : Session, block : Block]
      BY <2>1
    <2>3. doing'.does = "discard" /\ doing'.on = s /\ doing'.block = b
      BY <2>1
    <2>4. b \notin DOMAIN rows'[s] /\ stage'[s] # "open"
      BY <1>4, DiscardsRow
    <2> QED
      BY <1>2, <2>2, <2>3, <2>4 DEF DoingType, Discards
  <1> QED
    BY <1>3, <1>4 DEF ReadHash, ReadBlock

(* A discard goes on to the hash, and ends.                                *)
LEMMA DiscardsEnd ==
  ASSUME MergeInv, DoingType, Discards, ClosedKept, NEW s \in Session,
         DiscardChanges(s) \/ DiscardDeps(s), dropped \subseteq Session \X Block
  PROVE  DoingType' /\ Discards' /\ dropped' \subseteq Session \X Block
  <1> SUFFICES ASSUME NEW b, b = doing.block
               PROVE  DoingType' /\ Discards' /\ dropped' \subseteq Session \X Block
    OBVIOUS
  <1>1. doing.on = s /\ doing.does \in {"discard", "discard_deps"} /\ b \in Block
    BY DoingFields DEF DiscardChanges, DiscardDeps, Goes
  <1>2. doing \in [does : {"discard", "discard_deps"}, on : Session, block : Block]
    BY <1>1 DEF DoingType, Nothing
  <1>3. ASSUME DiscardChanges(s)
        PROVE  DoingType' /\ Discards' /\ dropped' \subseteq Session \X Block
    <2>1. dropped' = dropped /\ doing' = [doing EXCEPT !.does = "discard_deps"]
      BY <1>3 DEF DiscardChanges
    <2>2. /\ doing' \in [does : {"discard", "discard_deps"}, on : Session, block : Block]
          /\ doing'.does = "discard_deps" /\ doing'.on = s /\ doing'.block = b
      BY <1>1, <1>2, <2>1
    <2>3. /\ b \notin DOMAIN rows[s] /\ stage[s] = "failed"
          /\ Entries(journal'[s]) = {e \in Entries(journal[s]) : e.block # b}
          /\ UNCHANGED <<rows, stage>>
      BY <1>3, DiscardsChanges
    <2>4. \A z \in Session, c \in Block : <<z, c>> \in dropped' =>
             stage'[z] # "open" /\ \A e \in Entries(journal'[z]) : e.block # c
      BY <2>1, DroppedStays
    <2>5. \A e \in Entries(journal'[s]) : e.block # b
      BY <2>3
    <2> QED
      BY <2>1, <2>2, <2>3, <2>4, <2>5 DEF DoingType, Discards
  <1>4. ASSUME DiscardDeps(s)
        PROVE  DoingType' /\ Discards' /\ dropped' \subseteq Session \X Block
    <2>1. /\ dropped' = dropped \cup {<<s, b>>} /\ doing' = Nothing
          /\ doing.does = "discard_deps"
      BY <1>4 DEF DiscardDeps, Goes
    <2>2. stage[s] # "open" /\ \A e \in Entries(journal[s]) : e.block # b
      BY <1>1, <2>1 DEF Discards
    <2>3. stage'[s] # "open" /\ \A e \in Entries(journal'[s]) : e.block # b
      BY <2>2 DEF ClosedKept
    <2>4. ASSUME NEW z \in Session, NEW c \in Block, <<z, c>> \in dropped'
          PROVE  stage'[z] # "open" /\ \A e \in Entries(journal'[z]) : e.block # c
      <3>1. CASE <<z, c>> \in dropped
        BY <3>1, DroppedStays
      <3>2. CASE z = s /\ c = b
        BY <2>3, <3>2
      <3> QED
        BY <2>1, <2>4, <3>1, <3>2
    <2>5. doing'.does = "nothing"
      BY <2>1 DEF Nothing
    <2> QED
      BY <1>1, <2>1, <2>4, <2>5 DEF DoingType, Discards
  <1> QED
    BY <1>3, <1>4

(* The counter and the history of discards.                                *)
LEMMA ChoiceCounter ==
  ASSUME RNext, choices \in 0 .. MaxChoices
  PROVE  choices' \in 0 .. MaxChoices
  <1>1. choices' = choices \/ (choices < MaxChoices /\ choices' = choices + 1)
    <2>1. ASSUME NEW s \in Session, NEW b \in Block, Resolve(s, b)
          PROVE  choices < MaxChoices /\ choices' = choices + 1
      BY <2>1 DEF Resolve, ReadHash, ReadBlock, Begin, ApplyMergedBlock, MarkAsNew, UpdateParent, DiscardRow, Choice
    <2>2. ASSUME NEW s \in Session, ResolverStep(s) PROVE choices' = choices
      BY <2>2 DEF ResolverStep, UpdateSnapshotHash, ReplaceWithContentVersion, DiscardChanges,
                  DiscardDeps
    <2>3. ASSUME NEW s \in Session, Requeue(s) PROVE choices' = choices
      BY <2>3 DEF Requeue, choosing
    <2>4. Abort \/ UNCHANGED choosing => choices' = choices
      BY DEF Abort, choosing
    <2> QED
      BY <2>1, <2>2, <2>3, <2>4 DEF RNext
  <1> QED
    BY <1>1, ChoiceAssumption

(* Steps other than those of a discard and of a reading.                   *)
LEMMA OtherSteps ==
  ASSUME RNext
  PROVE  \/ dropped' = dropped /\ (doing' = doing \/ doing' = Nothing)
         \/ \E s \in Session, b \in Block :
               \/ ReadHash(s, b) \/ ReadBlock(s, b)
               \/ DiscardRow(s, b)
         \/ \E s \in Session : DiscardChanges(s) \/ DiscardDeps(s)
  <1> DEFINE Other == dropped' = dropped /\ (doing' = doing \/ doing' = Nothing)
  <1>1. ASSUME NEW s \in Session, NEW b \in Block,
               ApplyMergedBlock(s, b) \/ MarkAsNew(s, b) \/ UpdateParent(s, b)
        PROVE  Other
    BY <1>1 DEF ApplyMergedBlock, MarkAsNew, UpdateParent
  <1>2. ASSUME NEW s \in Session, UpdateSnapshotHash(s) \/ ReplaceWithContentVersion(s)
        PROVE  Other
    BY <1>2 DEF UpdateSnapshotHash, ReplaceWithContentVersion
  <1>3. ASSUME NEW s \in Session, Requeue(s) PROVE Other
    BY <1>3 DEF Requeue, choosing
  <1>4. Abort \/ UNCHANGED choosing => Other
    BY DEF Abort, choosing
  <1> HIDE DEF Other
  <1>5. CASE \E s \in Session, b \in Block : Resolve(s, b)
    <2>1. \/ Other
          \/ \E s \in Session, b \in Block :
                \/ ReadHash(s, b) \/ ReadBlock(s, b)
                \/ DiscardRow(s, b)
      BY <1>1, <1>5 DEF Resolve
    <2> QED
      BY <2>1 DEF Other
  <1>6. CASE \E s \in Session : ResolverStep(s) \/ Requeue(s)
    <2>1. Other \/ \E s \in Session : DiscardChanges(s) \/ DiscardDeps(s)
      BY <1>2, <1>3, <1>6 DEF ResolverStep
    <2> QED
      BY <2>1 DEF Other
  <1>7. CASE Abort \/ UNCHANGED choosing
    BY <1>4, <1>7 DEF Other
  <1> QED
    BY <1>5, <1>6, <1>7 DEF RNext

(* Every step keeps the invariant of the resolver.                         *)
LEMMA NextResolver == RInv /\ [RNext]_rvars => RInv' /\ ClosedKept
  <1> SUFFICES ASSUME RInv, [RNext]_rvars PROVE RInv' /\ ClosedKept
    OBVIOUS
  <1>1. MergeInv /\ DoingType /\ Discards /\ dropped \subseteq Session \X Block
        /\ choices \in 0 .. MaxChoices
    BY DEF RInv
  <1>2. MergeInv' /\ ClosedKept
    <2>1. CASE [Next]_vars
      BY <1>1, <2>1, MergeKeeps
    <2>2. CASE \/ \E s \in Session, b \in Block : Resolve(s, b)
               \/ \E s \in Session : ResolverStep(s) \/ Requeue(s)
               \/ Abort
      BY <1>1, <2>2, ResolverSteps
    <2> QED
      BY <2>1, <2>2 DEF RNext, rvars
  <1>3. CASE RNext
    <2>1. choices' \in 0 .. MaxChoices
      BY <1>1, <1>3, ChoiceCounter
    <2>2. CASE dropped' = dropped /\ (doing' = doing \/ doing' = Nothing)
      BY <1>1, <1>2, <2>1, <2>2, DiscardsKept DEF RInv
    <2>3. ASSUME NEW s \in Session, NEW b \in Block,
                 \/ ReadHash(s, b) \/ ReadBlock(s, b)
                 \/ DiscardRow(s, b)
          PROVE  RInv'
      <3>1. dropped' = dropped
        BY <2>3 DEF ReadHash, ReadBlock, Begin, DiscardRow
      <3> QED
        BY <1>1, <1>2, <2>1, <2>3, <3>1, DiscardsBegin DEF RInv
    <2>4. ASSUME NEW s \in Session, DiscardChanges(s) \/ DiscardDeps(s) PROVE RInv'
      BY <1>1, <1>2, <2>1, <2>4, DiscardsEnd DEF RInv
    <2> QED
      BY <1>2, <1>3, <2>2, <2>3, <2>4, OtherSteps
  <1>4. CASE UNCHANGED rvars
    <2>1. UNCHANGED choosing
      BY <1>4 DEF rvars
    <2> QED
      BY <1>1, <1>2, <2>1, DiscardsKept DEF RInv, choosing
  <1> QED
    BY <1>2, <1>3, <1>4

(* The resolver works on the rows of refused sessions, by statements that  *)
(* no transaction holds together, and leaves what the merger relies on.    *)
THEOREM ResolverInvariant == RSpec => []RInv
  <1>1. RInit => RInv
    <2> SUFFICES ASSUME RInit PROVE RInv
      OBVIOUS
    <2>1. /\ MergeInv /\ doing = Nothing /\ dropped = {} /\ choices \in 0 .. MaxChoices
          /\ doing.does = "nothing"
      BY InitMerge, ChoiceAssumption DEF RInit, Nothing
    <2> QED
      BY <2>1 DEF RInv, DoingType, Discards
  <1> QED
    BY <1>1, NextResolver, PTL DEF RSpec

(* The types, and no choice of a parent that leaves a block an orphan.     *)
THEOREM NoOrphans == RSpec => []RConsistent
  <1>1. RInv => RConsistent
    <2> SUFFICES ASSUME RInv PROVE RConsistent
      OBVIOUS
    <2>1. RTypeOK
      BY TypesAreOk DEF RInv, MergeInv, RTypeOK, DoingType
    <2>2. \A s \in Session : \A b : Lost(s, b) => InDoubt(s, b)
      BY DEF Lost, InDoubt
    <2>3. ParentsExist
      BY <2>2 DEF RInv, MergeInv, Rooted, ParentsExist
    <2> QED
      BY <2>1, <2>3 DEF RConsistent
  <1> QED
    BY <1>1, ResolverInvariant, PTL

(* What the user has discarded is not merged.                              *)
THEOREM DiscardedStaysOut == RSpec => DiscardHolds
  <1>1. RInv /\ [RNext]_rvars =>
           [\A s \in Session : stage[s] = "merging" /\ stage'[s] = "merged" =>
               \A b \in DOMAIN content :
                  <<s, b>> \in dropped => content'[b] = content[b]]_rvars
    <2> SUFFICES ASSUME RInv, [RNext]_rvars, NEW s \in Session, stage[s] = "merging",
                        stage'[s] = "merged", NEW b \in DOMAIN content, <<s, b>> \in dropped
                 PROVE  content'[b] = content[b]
      OBVIOUS
    <2>1. MergeInv /\ Types /\ Merging /\ DoingType /\ Discards /\ b \in Block
      BY TableRows DEF RInv, MergeInv, Types
    <2>2. ASSUME NEW z \in Session, ResolverStep(z) \/ Requeue(z) PROVE FALSE
      <3>1. CASE Requeue(z)
        BY <2>1, <3>1, RequeueKeeps
      <3>2. CASE ResolverStep(z)
        BY <3>2 DEF ResolverStep, UpdateSnapshotHash, ReplaceWithContentVersion,
                    DiscardChanges, DiscardDeps
      <3> QED
        BY <2>2, <3>1, <3>2
    <2>3. ASSUME NEW z \in Session, NEW c \in Block, Resolve(z, c) PROVE FALSE
      BY <2>3 DEF Resolve, ReadHash, ReadBlock, Begin, ApplyMergedBlock, MarkAsNew, UpdateParent, DiscardRow, Choice
    <2>4. [Next]_vars
      BY <2>2, <2>3 DEF RNext, rvars, Abort
    <2>5. Commit
      BY <2>1, <2>4, StageMerged
    <2>6. content' = tx.draft /\ Redrawn(tx.on, tx.draft, b) /\ s = tx.on
      BY <2>1, <2>5, CommitState
    <2>7. \A e \in Entries(journal[s]) : e.block # b
      BY <2>1 DEF Discards
    <2> QED
      BY <2>6, <2>7 DEF Redrawn
  <1> QED
    BY <1>1, ResolverInvariant, PTL DEF RSpec, DiscardHolds

(* The second of two editors is refused, too, when the resolver has let    *)
(* the first one's block stand against what the second has seen.           *)
THEOREM ResolvedTextIsNotLost == RSpec => NoLostText
  <1>1. RInv /\ [RNext]_rvars =>
           [\A b \in DOMAIN content : content'[b].text # content[b].text =>
               \E s \in Session :
                  /\ stage[s] = "merging" /\ stage'[s] = "merged"
                  /\ rows[s][b].base.text = content[b].text \/ InDoubt(s, b)]_vars
    <2> SUFFICES ASSUME RInv, [RNext]_rvars,
                        NEW b \in DOMAIN content, content'[b].text # content[b].text
                 PROVE  \E s \in Session :
                           /\ stage[s] = "merging" /\ stage'[s] = "merged"
                           /\ rows[s][b].base.text = content[b].text \/ InDoubt(s, b)
      OBVIOUS
    <2>1. ASSUME NEW z \in Session, ResolverStep(z) \/ Requeue(z) PROVE content' = content
      BY <2>1 DEF ResolverStep, UpdateSnapshotHash, ReplaceWithContentVersion,
                  DiscardChanges, DiscardDeps, Requeue
    <2>2. ASSUME NEW z \in Session, NEW c \in Block, Resolve(z, c) PROVE content' = content
      BY <2>2 DEF Resolve, ReadHash, ReadBlock, Begin, ApplyMergedBlock, MarkAsNew, UpdateParent, DiscardRow, Choice
    <2>3. [Next]_vars
      BY <2>1, <2>2 DEF RNext, rvars, Abort
    <2> QED
      BY <2>3, TextStep DEF RInv
  <1> QED
    BY <1>1, ResolverInvariant, PTL DEF RSpec, NoLostText
=============================================================================
