------------------------- MODULE GroupOwnershipProofs -------------------------
(***************************************************************************)
(* Proofs about GroupOwnership, for any number of blocks, groups and       *)
(* entries and for any files.                                              *)
(*                                                                         *)
(* An entry makes a group (an insertion, a replacement) or takes one out   *)
(* (a removal, a replacement).  What an array holds then follows from the  *)
(* history alone: a group is in the array it was made for exactly when the *)
(* entry that made it is applied and the one that takes it out is not.     *)
(***************************************************************************)
EXTENDS GroupOwnership, TLAPS

Entries ==
  {e \in [kind : Kinds, group : Ids, replacement : Ids \cup {NULL}, array : Arrays \cup {NULL},
          joined : BOOLEAN] :
     e.kind = "replace" => e.replacement # NULL}

States ==
  [array : [Arrays -> SUBSET Ids], alive : SUBSET Ids, made : 0 .. MaxGroups,
   padding : SUBSET Ids, home : [Ids -> Arrays], history : Seq(Entries), position : Nat,
   refresh : Ids \cup {NULL}, shown : Ids \cup {NULL}]

\* What an entry makes, takes out and points to.
Makes(e) ==
  IF e.kind = "insert" THEN {e.group} ELSE IF e.kind = "replace" THEN {e.replacement} ELSE {}

Takes(e) == IF e.kind \in {"remove", "replace"} THEN {e.group} ELSE {}

Names(e) == {e.group} \cup IF e.kind = "replace" THEN {e.replacement} ELSE {}

\* g is where it was made for.
In(s, g) ==
  \A k \in DOMAIN s.history :
    /\ g \in Makes(s.history[k]) => k <= s.position
    /\ g \in Takes(s.history[k]) => k > s.position

\* No entry behind k makes g.
MadeBy(s, g, k) == \A l \in DOMAIN s.history : g \in Makes(s.history[l]) => l <= k

\* Dropping the entries behind k does not free g.
Firm(s, g, k) ==
  /\ g \in s.alive \ s.padding
  /\ MadeBy(s, g, k)
  /\ MadeBy(s, s.home[g], k)

\* An array holds what was made for it; out has been taken out and its entry
\* not been recorded yet, or been made and not been put in yet.
Places(s, out) ==
  \A a \in Arrays, g \in Ids :
    g \in s.array[a] <=> g \in s.alive \ out /\ a = s.home[g] /\ In(s, g)

Once(s) ==
  \A k, l \in DOMAIN s.history, g \in Ids :
    \/ g \in Makes(s.history[k]) \cap Makes(s.history[l])
    \/ g \in Takes(s.history[k]) \cap Takes(s.history[l])
    => k = l

Placed(s, e) ==
  /\ e.kind \in {"field", "data"} => e.array = NULL
  /\ e.kind \notin {"field", "data"} => e.array = s.home[e.group]
  /\ e.kind = "replace" => /\ e.replacement # e.group
                           /\ e.array = s.home[e.replacement]

Homes(s) ==
  /\ \A g \in s.alive : /\ s.home[g] \in Blocks \cup (s.alive \ s.padding)
                        /\ s.home[g] \in Ids => s.home[s.home[g]] \in Blocks
  /\ \A g \in s.padding : s.home[g] \in Blocks

Good(s, out) ==
  /\ s \in States
  /\ s.alive \subseteq 1 .. s.made
  /\ s.padding \subseteq s.alive
  /\ s.position <= Len(s.history)
  /\ s.shown <= s.made
  /\ out \subseteq s.alive
  /\ Places(s, out)
  /\ Once(s)
  /\ \A k \in DOMAIN s.history : /\ Placed(s, s.history[k])
                                 /\ \A g \in Names(s.history[k]) : Firm(s, g, k)
  /\ Homes(s)
  /\ s.refresh # NULL => Firm(s, s.refresh, s.position)

\* The inductive invariant.
IInv ==
  /\ Good(State, {})
  /\ loaded \in BOOLEAN
  /\ applying \in {"no", "undo", "redo"}
  /\ loaded /\ shown # NULL => shown \in InDocument(State)
  /\ dialog \in 0 .. made
  /\ dialog \in alive => dialog \in InDocument(State) \ padding
  /\ dialog # NULL => refresh = NULL
  /\ applying # "no" => dialog = NULL /\ refresh = NULL

(***************************************************************************)
(* The operators, field by field.                                          *)
(***************************************************************************)
LEMMA Numbers ==
  /\ Ids \subseteq Nat /\ NULL \notin Ids /\ Blocks \cap Ids = {} /\ NULL \notin Arrays
  /\ Blocks \subseteq Arrays /\ Ids \subseteq Arrays
BY OwnershipAssumption DEF Ids, NULL, Arrays

LEMMA StatesIs ==
  ASSUME NEW s \in States
  PROVE  /\ s.array \in [Arrays -> SUBSET Ids] /\ s.alive \subseteq Ids /\ s.made \in 0 .. MaxGroups
         /\ s.padding \subseteq Ids /\ s.home \in [Ids -> Arrays]
         /\ s.history \in Seq(Entries) /\ s.position \in Nat
         /\ s.refresh \in Ids \cup {NULL} /\ s.shown \in Ids \cup {NULL}
         /\ Len(s.history) \in Nat /\ DOMAIN s.history = 1 .. Len(s.history)
         /\ \A k \in DOMAIN s.history : s.history[k] \in Entries
BY DEF States

LEMMA EntriesIs ==
  ASSUME NEW e \in Entries
  PROVE  /\ Makes(e) \subseteq Ids /\ Takes(e) \subseteq Ids
         /\ Makes(e) \subseteq Names(e) /\ Takes(e) \subseteq Names(e)
         /\ e.group \in Ids /\ e.kind \in Kinds /\ e.replacement \in Ids \cup {NULL}
         /\ e.array \in Arrays \cup {NULL}
BY DEF Entries, Makes, Takes, Names

Gone(s, gs) == gs \cup UNION {s.array[g] : g \in gs}

LEMMA FreeIs ==
  ASSUME NEW s \in States, NEW gs \in SUBSET Ids
  PROVE  LET r == Free(s, gs)
         IN  /\ r \in States
             /\ r.alive = s.alive \ Gone(s, gs)
             /\ r.padding = s.padding \ Gone(s, gs)
             /\ r.array = [a \in Arrays |-> IF a \in Gone(s, gs) THEN {} ELSE s.array[a]]
             /\ r.made = s.made /\ r.home = s.home /\ r.history = s.history
             /\ r.position = s.position /\ r.refresh = s.refresh /\ r.shown = s.shown
<1> DEFINE r  == Free(s, gs)
           al == s.alive \ Gone(s, gs)
           pd == s.padding \ Gone(s, gs)
           ar == [a \in Arrays |-> IF a \in Gone(s, gs) THEN {} ELSE s.array[a]]
<1>1. r = [s EXCEPT !.alive = al, !.padding = pd, !.array = ar]
  BY Zenon DEF Free, Gone
<1>2. al \in SUBSET Ids /\ pd \in SUBSET Ids /\ ar \in [Arrays -> SUBSET Ids]
  BY StatesIs
<1> HIDE DEF r, al, pd, ar
<1>3. /\ r \in States /\ r.alive = al /\ r.padding = pd /\ r.array = ar
      /\ r.made = s.made /\ r.home = s.home /\ r.history = s.history
      /\ r.position = s.position /\ r.refresh = s.refresh /\ r.shown = s.shown
  BY <1>1, <1>2 DEF States
<1> QED BY <1>3 DEF r, al, pd, ar

WithHistory(s, q, p) == [s EXCEPT !.history = q, !.position = p]

LEMMA HistoryPut ==
  ASSUME NEW s \in States, NEW q \in Seq(Entries), NEW p \in Nat
  PROVE  LET r == WithHistory(s, q, p)
         IN  /\ r \in States /\ r.history = q /\ r.position = p
             /\ r.array = s.array /\ r.alive = s.alive /\ r.made = s.made
             /\ r.padding = s.padding /\ r.home = s.home /\ r.refresh = s.refresh
             /\ r.shown = s.shown
BY DEF States, WithHistory

WithArray(s, a, gs) == [s EXCEPT !.array = [s.array EXCEPT ![a] = gs]]

LEMMA ArrayPut ==
  ASSUME NEW s \in States, NEW a \in Arrays, NEW gs \in SUBSET Ids
  PROVE  LET r == WithArray(s, a, gs)
         IN  /\ r \in States /\ r.array = [s.array EXCEPT ![a] = gs]
             /\ r.alive = s.alive /\ r.made = s.made /\ r.padding = s.padding
             /\ r.home = s.home /\ r.history = s.history /\ r.position = s.position
             /\ r.refresh = s.refresh /\ r.shown = s.shown
<1>1. [s.array EXCEPT ![a] = gs] \in [Arrays -> SUBSET Ids]
  BY StatesIs
<1> QED BY <1>1 DEF States, WithArray

LEMMA KindsOf ==
  ASSUME NEW s \in States, NEW i \in DOMAIN s.history
  PROVE  Owned(s, i) = IF i <= s.position THEN Takes(s.history[i]) ELSE Makes(s.history[i])
<1> DEFINE e == s.history[i]
<1>1. e.kind \in Kinds
  BY StatesIs, EntriesIs
<1> QED BY <1>1 DEF Owned, OwnedGroup, Takes, Makes, Kinds

LEMMA OfBlocks ==
  ASSUME NEW s \in States, NEW b \in Blocks
  PROVE  (\A k : MadeBy(s, b, k)) /\ In(s, b)
<1>1. ASSUME NEW l \in DOMAIN s.history
      PROVE  b \notin Makes(s.history[l]) /\ b \notin Takes(s.history[l])
  BY StatesIs, EntriesIs, Numbers
<1> QED BY <1>1 DEF MadeBy, In

LEMMA InIs ==
  ASSUME NEW s \in States, NEW g
  PROVE  In(s, g) <=> /\ MadeBy(s, g, s.position)
                      /\ \A k \in DOMAIN s.history : k <= s.position => g \notin Takes(s.history[k])
<1>1. \A k \in DOMAIN s.history : k \in Nat
  BY StatesIs
<1> QED BY <1>1, StatesIs DEF In, MadeBy

LEMMA Later ==
  ASSUME NEW s \in States, NEW g, NEW k \in Nat, NEW l \in Nat, k <= l, MadeBy(s, g, k)
  PROVE  MadeBy(s, g, l)
<1>1. \A i \in DOMAIN s.history : i \in Nat
  BY StatesIs
<1> QED BY <1>1 DEF MadeBy


\* The entries behind kept, and the groups they own, are gone.
LEMMA DropIs ==
  ASSUME NEW s \in States, NEW kept \in 0 .. Len(s.history)
  PROVE  LET r    == DropHistory(s, kept)
             gone == Gone(s, UNION {Owned(s, i) : i \in kept + 1 .. Len(s.history)})
         IN  /\ r \in States
             /\ r.alive = s.alive \ gone
             /\ r.padding = s.padding \ gone
             /\ r.array = [a \in Arrays |-> IF a \in gone THEN {} ELSE s.array[a]]
             /\ r.made = s.made /\ r.home = s.home
             /\ r.history = SubSeq(s.history, 1, kept)
             /\ r.position = s.position /\ r.refresh = s.refresh /\ r.shown = s.shown
<1> DEFINE owned == UNION {Owned(s, i) : i \in kept + 1 .. Len(s.history)}
           f == Free(s, owned)
           q == SubSeq(s.history, 1, kept)
<1>1. owned \in SUBSET Ids
  <2>1. ASSUME NEW i \in kept + 1 .. Len(s.history) PROVE Owned(s, i) \subseteq Ids
    <3>1. i \in DOMAIN s.history
      BY StatesIs
    <3> QED BY <3>1, KindsOf, EntriesIs, StatesIs
  <2> QED BY <2>1
<1>2. DropHistory(s, kept) = [f EXCEPT !.history = SubSeq(f.history, 1, kept)]
  BY DEF DropHistory
<1>3. q \in Seq(Entries)
  BY StatesIs
<1> HIDE DEF owned, f
<1>4. /\ f \in States /\ f.alive = s.alive \ Gone(s, owned)
      /\ f.padding = s.padding \ Gone(s, owned)
      /\ f.array = [a \in Arrays |-> IF a \in Gone(s, owned) THEN {} ELSE s.array[a]]
      /\ f.made = s.made /\ f.home = s.home /\ f.history = s.history
      /\ f.position = s.position /\ f.refresh = s.refresh /\ f.shown = s.shown
  BY <1>1, FreeIs DEF f
<1>5. DropHistory(s, kept) = WithHistory(f, q, f.position)
  <2> HIDE DEF q
  <2>1. DropHistory(s, kept) = [f EXCEPT !.history = q]
    BY <1>2, <1>4 DEF q
  <2> QED BY <1>4, <2>1 DEF States, WithHistory
<1>6. f \in States /\ f.position \in Nat
  BY <1>4, StatesIs
<1> HIDE DEF q
<1>7. LET r == WithHistory(f, q, f.position)
      IN  /\ r \in States /\ r.history = q /\ r.position = f.position
          /\ r.array = f.array /\ r.alive = f.alive /\ r.made = f.made
          /\ r.padding = f.padding /\ r.home = f.home /\ r.refresh = f.refresh
          /\ r.shown = f.shown
  BY <1>3, <1>6, HistoryPut
<1> QED BY <1>4, <1>5, <1>7 DEF owned, q

\* What is behind the position owns what it makes.
LEMMA OwnedBehind ==
  ASSUME NEW s \in States
  PROVE  UNION {Owned(s, i) : i \in s.position + 1 .. Len(s.history)}
           = {g \in Ids : ~MadeBy(s, g, s.position)}
<1>1. ASSUME NEW i \in s.position + 1 .. Len(s.history)
      PROVE  i \in DOMAIN s.history /\ Owned(s, i) = Makes(s.history[i])
  <2>1. i \in DOMAIN s.history /\ ~(i <= s.position)
    BY StatesIs
  <2> QED BY <2>1, KindsOf
<1>2. \A i \in DOMAIN s.history :
        i \in Nat /\ Makes(s.history[i]) \subseteq Ids
        /\ (~(i <= s.position) => i \in s.position + 1 .. Len(s.history))
  BY StatesIs, EntriesIs
<1> DEFINE behind == s.position + 1 .. Len(s.history)
<1>3. ASSUME NEW g \in UNION {Owned(s, i) : i \in behind} PROVE g \in Ids /\ ~MadeBy(s, g, s.position)
  <2>1. PICK i \in behind : g \in Owned(s, i)
    BY <1>3
  <2>2. ~(i <= s.position)
    BY StatesIs
  <2> QED BY <1>1, <1>2, <2>1, <2>2 DEF MadeBy
<1>4. ASSUME NEW g \in Ids, ~MadeBy(s, g, s.position) PROVE g \in UNION {Owned(s, i) : i \in behind}
  <2>1. PICK i \in DOMAIN s.history : g \in Makes(s.history[i]) /\ ~(i <= s.position)
    BY <1>4 DEF MadeBy
  <2> QED BY <1>1, <1>2, <2>1
<1> QED BY <1>3, <1>4

\* What survives when the entries behind the position are dropped.
LEMMA Survivors ==
  ASSUME NEW s, NEW out, Good(s, out),
         \A g \in out : Firm(s, g, s.position)
  PROVE  DropHistory(s, s.position).alive
           = {g \in s.alive : MadeBy(s, g, s.position) /\ MadeBy(s, s.home[g], s.position)}
<1> DEFINE p     == s.position
           owned == UNION {Owned(s, i) : i \in p + 1 .. Len(s.history)}
           r     == DropHistory(s, p)
<1>1. /\ s \in States /\ p \in 0 .. Len(s.history)
      /\ Places(s, out) /\ Homes(s)
      /\ \A k \in DOMAIN s.history : \A g \in Names(s.history[k]) : Firm(s, g, k)
  BY StatesIs DEF Good
<1>2. r.alive = s.alive \ Gone(s, owned)
  BY <1>1, DropIs
<1>3. owned = {g \in Ids : ~MadeBy(s, g, p)}
  BY <1>1, OwnedBehind
<1> HIDE DEF owned, r
<1>4. ASSUME NEW g \in s.alive
      PROVE  g \in Gone(s, owned) <=> ~MadeBy(s, g, p) \/ ~MadeBy(s, s.home[g], p)
  <2>1. g \in Ids /\ s.home[g] \in Arrays
    BY <1>1, StatesIs
  <2>2. ASSUME g \in Gone(s, owned), MadeBy(s, g, p) PROVE ~MadeBy(s, s.home[g], p)
    <3>1. PICK x \in owned : g \in s.array[x]
      BY <1>3, <2>2 DEF Gone
    <3>2. x \in Arrays /\ ~MadeBy(s, x, p)
      BY <1>3, Numbers
    <3>3. x = s.home[g]
      BY <1>1, <2>1, <3>1, <3>2 DEF Places
    <3> QED BY <3>2, <3>3
  <2>3. ASSUME ~MadeBy(s, g, p) PROVE g \in Gone(s, owned)
    BY <1>3, <2>1, <2>3 DEF Gone
  <2>4. ASSUME MadeBy(s, g, p), ~MadeBy(s, s.home[g], p) PROVE g \in Gone(s, owned)
    <3>1. s.home[g] \in Ids
      BY <1>1, <2>1, <2>4, OfBlocks DEF Arrays
    <3>2. s.home[g] \in owned
      BY <1>3, <2>4, <3>1
    <3>3. g \notin out
      BY <2>4 DEF Firm
    <3>4. In(s, g)
      <4>1. ASSUME NEW k \in DOMAIN s.history, k <= p PROVE g \notin Takes(s.history[k])
        <5>1. k \in Nat /\ Takes(s.history[k]) \subseteq Names(s.history[k])
          BY <1>1, StatesIs, EntriesIs
        <5> SUFFICES ASSUME g \in Takes(s.history[k]) PROVE FALSE
          OBVIOUS
        <5>2. MadeBy(s, s.home[g], k)
          BY <1>1, <5>1 DEF Firm
        <5> QED BY <1>1, <2>4, <4>1, <5>1, <5>2, Later
      <4> QED BY <1>1, <2>4, <4>1, InIs
    <3>5. g \in s.array[s.home[g]]
      BY <1>1, <2>1, <3>3, <3>4 DEF Places
    <3> QED BY <3>2, <3>5 DEF Gone
  <2> QED BY <2>2, <2>3, <2>4
<1> QED BY <1>2, <1>4 DEF r

\* What the fields of the document are, when the entries behind the position
\* are dropped.
LEMMA DropKeeps ==
  ASSUME NEW s, NEW out, Good(s, out), \A g \in out : Firm(s, g, s.position)
  PROVE  LET r == DropHistory(s, s.position)
         IN  /\ Good(r, out)
             /\ r.made = s.made /\ r.home = s.home /\ r.padding \subseteq s.padding
             /\ r.refresh = s.refresh /\ r.shown = s.shown
             /\ r.position = s.position /\ Len(r.history) = s.position
             /\ \A k \in 1 .. s.position : r.history[k] = s.history[k]
             /\ \A g : Firm(s, g, s.position) => Firm(r, g, s.position)
             /\ \A g \in r.alive : In(r, g) <=> In(s, g)
<1> DEFINE p == s.position
           n == Len(s.history)
           r == DropHistory(s, p)
           owned == UNION {Owned(s, i) : i \in p + 1 .. n}
<1>1. /\ s \in States /\ p \in 0 .. n /\ p \in Nat /\ n \in Nat
      /\ s.alive \subseteq 1 .. s.made /\ s.padding \subseteq s.alive /\ s.shown <= s.made
      /\ Places(s, out) /\ Homes(s) /\ Once(s)
      /\ \A k \in DOMAIN s.history : /\ Placed(s, s.history[k])
                                     /\ \A g \in Names(s.history[k]) : Firm(s, g, k)
      /\ s.refresh # NULL => Firm(s, s.refresh, p)
  BY StatesIs DEF Good
<1>2. /\ r \in States /\ r.alive = s.alive \ Gone(s, owned)
      /\ r.padding = s.padding \ Gone(s, owned)
      /\ r.array = [a \in Arrays |-> IF a \in Gone(s, owned) THEN {} ELSE s.array[a]]
      /\ r.made = s.made /\ r.home = s.home /\ r.history = SubSeq(s.history, 1, p)
      /\ r.position = p /\ r.refresh = s.refresh /\ r.shown = s.shown
  BY <1>1, DropIs
<1>3. owned = {g \in Ids : ~MadeBy(s, g, p)}
  BY <1>1, OwnedBehind
<1>4. r.alive = {g \in s.alive : MadeBy(s, g, p) /\ MadeBy(s, s.home[g], p)}
  BY Survivors
<1>5. /\ Len(r.history) = p /\ DOMAIN r.history = 1 .. p /\ 1 .. p \subseteq DOMAIN s.history
      /\ DOMAIN s.history = 1 .. n
      /\ \A k \in 1 .. p : r.history[k] = s.history[k]
  <2>1. s.history \in Seq(Entries)
    BY <1>1, StatesIs
  <2> QED BY <1>1, <1>2, <2>1
<1> HIDE DEF owned, r, p, n
<1>6. ASSUME NEW g, NEW k \in 0 .. p, MadeBy(s, g, k) PROVE MadeBy(r, g, k)
  BY <1>5, <1>6 DEF MadeBy
<1>7. ASSUME NEW g, NEW k \in 0 .. p, Firm(s, g, k) PROVE Firm(r, g, k)
  <2>1. MadeBy(s, g, p) /\ MadeBy(s, s.home[g], p)
    BY <1>1, <1>7, Later DEF Firm
  <2> QED BY <1>2, <1>4, <1>6, <1>7, <2>1 DEF Firm
<1>8. ASSUME NEW g \in r.alive PROVE In(r, g) <=> In(s, g)
  <2>1. In(s, g) <=> \A k \in 1 .. p : g \notin Takes(s.history[k])
    <3>1. MadeBy(s, g, p)
      BY <1>4
    <3>2. In(s, g) <=> \A k \in DOMAIN s.history : k <= p => g \notin Takes(s.history[k])
      BY <1>1, <3>1, InIs DEF p
    <3> QED BY <1>1, <1>5, <3>2
  <2>2. In(r, g) <=> \A k \in 1 .. p : g \notin Takes(s.history[k])
    <3>1. MadeBy(r, g, p)
      BY <1>1, <1>4, <1>6
    <3> QED BY <1>1, <1>2, <1>5, <3>1, InIs
  <2> QED BY <2>1, <2>2
<1>9. Places(r, out)
  <2> SUFFICES ASSUME NEW a \in Arrays, NEW g \in Ids
               PROVE  g \in r.array[a] <=> g \in r.alive \ out /\ a = r.home[g] /\ In(r, g)
    BY DEF Places
  <2>1. g \in r.array[a] <=> a \notin Gone(s, owned) /\ g \in s.array[a]
    BY <1>2
  <2>2. g \in s.array[a] <=> g \in s.alive \ out /\ a = s.home[g] /\ In(s, g)
    BY <1>1 DEF Places
  <2>3. ASSUME g \in r.array[a] PROVE g \in r.alive \ out /\ a = r.home[g] /\ In(r, g)
    <3>1. a \notin Gone(s, owned) /\ g \in s.alive \ out /\ a = s.home[g] /\ In(s, g)
      BY <2>1, <2>2, <2>3
    <3>2. MadeBy(s, g, p)
      BY <1>1, <3>1, InIs DEF p
    <3>3. MadeBy(s, a, p)
      <4>1. CASE a \in Blocks
        BY <1>1, <4>1, OfBlocks
      <4>2. CASE a \in Ids
        BY <1>3, <3>1, <4>2 DEF Gone
      <4> QED BY <4>1, <4>2 DEF Arrays
    <3>4. g \in r.alive
      BY <1>4, <3>1, <3>2, <3>3
    <3> QED BY <1>2, <1>8, <3>1, <3>4
  <2>4. ASSUME g \in r.alive \ out, a = r.home[g], In(r, g) PROVE g \in r.array[a]
    <3>1. g \in s.array[a] /\ g \in s.alive /\ a = s.home[g]
      BY <1>2, <1>4, <1>8, <2>2, <2>4
    <3>2. a \notin owned
      BY <1>2, <1>3, <1>4, <2>4
    <3>3. ASSUME NEW x \in owned PROVE a \notin s.array[x]
      <4>1. x \in Ids /\ x \in Arrays
        BY <1>3, Numbers
      <4> SUFFICES ASSUME a \in s.array[x] PROVE FALSE
        OBVIOUS
      <4>2. a \in Ids
        BY <1>1, <4>1, StatesIs
      <4>3. s.home[a] \in Blocks
        BY <1>1, <3>1, <4>2 DEF Homes
      <4>4. x = s.home[a]
        BY <1>1, <4>1, <4>2 DEF Places
      <4> QED BY <4>1, <4>3, <4>4, Numbers
    <3> QED BY <2>1, <3>1, <3>2, <3>3 DEF Gone
  <2> QED BY <2>3, <2>4
<1>10. Homes(r)
  <2>1. ASSUME NEW g \in r.alive
        PROVE  /\ r.home[g] \in Blocks \cup (r.alive \ r.padding)
               /\ r.home[g] \in Ids => r.home[r.home[g]] \in Blocks
    <3>1. /\ g \in s.alive /\ MadeBy(s, s.home[g], p)
          /\ s.home[g] \in Blocks \cup (s.alive \ s.padding)
          /\ s.home[g] \in Ids => s.home[s.home[g]] \in Blocks
      BY <1>1, <1>4 DEF Homes
    <3>2. CASE s.home[g] \in Blocks
      BY <1>2, <3>1, <3>2, Numbers
    <3>3. CASE s.home[g] \in s.alive \ s.padding
      <4>1. s.home[g] \in Ids
        BY <1>1, <3>3, StatesIs
      <4>2. MadeBy(s, s.home[s.home[g]], p)
        BY <1>1, <3>1, <4>1, OfBlocks
      <4> QED BY <1>2, <1>4, <3>1, <3>3, <4>1, <4>2
    <3> QED BY <3>1, <3>2, <3>3
  <2>2. ASSUME NEW g \in r.padding PROVE r.home[g] \in Blocks
    BY <1>1, <1>2 DEF Homes
  <2> QED BY <2>1, <2>2 DEF Homes
<1>11. Once(r)
  BY <1>1, <1>5 DEF Once
<1>12. ASSUME NEW k \in DOMAIN r.history
       PROVE  Placed(r, r.history[k]) /\ \A g \in Names(r.history[k]) : Firm(r, g, k)
  <2>1. k \in DOMAIN s.history /\ r.history[k] = s.history[k] /\ k \in 0 .. p
    BY <1>1, <1>5
  <2>2. Placed(r, r.history[k])
    BY <1>1, <1>2, <2>1 DEF Placed
  <2> QED BY <1>1, <1>7, <2>1, <2>2
<1>13. r.refresh # NULL => Firm(r, r.refresh, r.position)
  BY <1>1, <1>2, <1>7
<1>14. /\ r.alive \subseteq 1 .. r.made /\ r.padding \subseteq r.alive /\ r.shown <= r.made
       /\ r.position <= Len(r.history)
  BY <1>1, <1>2, <1>5
<1>17. out \subseteq r.alive
  BY <1>1, <1>7 DEF Firm, p
<1>15. Good(r, out)
  BY <1>2, <1>9, <1>10, <1>11, <1>12, <1>13, <1>14, <1>17 DEF Good
<1>16. \A g : Firm(s, g, p) => Firm(r, g, p)
  BY <1>1, <1>7
<1> QED BY <1>2, <1>5, <1>8, <1>15, <1>16 DEF r, p

(***************************************************************************)
(* The steps operations are made of: a group is made, put into an array or *)
(* taken out of it, the padding freed, an entry recorded.                  *)
(***************************************************************************)
LEMMA GoodIs ==
  ASSUME NEW s, NEW out, Good(s, out)
  PROVE  /\ s \in States /\ s.position \in 0 .. Len(s.history)
         /\ s.alive \subseteq 1 .. s.made /\ s.padding \subseteq s.alive /\ s.shown <= s.made
         /\ out \subseteq s.alive /\ Places(s, out) /\ Homes(s) /\ Once(s)
         /\ \A k \in DOMAIN s.history : /\ Placed(s, s.history[k])
                                        /\ \A g \in Names(s.history[k]) : Firm(s, g, k)
         /\ s.refresh # NULL => Firm(s, s.refresh, s.position)
BY StatesIs DEF Good

\* Where a group is due depends on the history alone.
LEMMA SameHistory ==
  ASSUME NEW s, NEW t, t.history = s.history, t.position = s.position
  PROVE  /\ \A g : In(t, g) <=> In(s, g)
         /\ \A g, k : MadeBy(t, g, k) <=> MadeBy(s, g, k)
BY DEF In, MadeBy

LEMMA MakeIs ==
  ASSUME NEW s \in States, NEW a \in Arrays, NEW count \in Nat, New(s) + count <= MaxGroups
  PROVE  LET r    == Make(s, a, count)
             last == New(s) + count
         IN  /\ r \in States /\ r.made = last /\ r.alive = s.alive \cup New(s) .. last
             /\ r.array = [s.array EXCEPT ![New(s)] = New(s) + 1 .. last]
             /\ r.home = [g \in Ids |-> IF g = New(s) THEN a
                                        ELSE IF g \in New(s) .. last THEN New(s) ELSE s.home[g]]
             /\ r.padding = s.padding /\ r.history = s.history /\ r.position = s.position
             /\ r.refresh = s.refresh /\ r.shown = s.shown
<1> DEFINE last == New(s) + count
           al == s.alive \cup New(s) .. last
           ar == [s.array EXCEPT ![New(s)] = New(s) + 1 .. last]
           hm == [g \in Ids |-> IF g = New(s) THEN a
                                ELSE IF g \in New(s) .. last THEN New(s) ELSE s.home[g]]
           r  == Make(s, a, count)
<1>1. r = [s EXCEPT !.made = last, !.alive = al, !.array = ar, !.home = hm]
  BY Zenon DEF Make
<1>2. New(s) \in Nat /\ New(s) \in Ids /\ last \in 0 .. MaxGroups /\ New(s) .. last \subseteq Ids
  BY StatesIs, OwnershipAssumption DEF New, Ids
<1>3. New(s) + 1 .. last \subseteq New(s) .. last
  BY <1>2
<1>4. al \in SUBSET Ids /\ ar \in [Arrays -> SUBSET Ids]
  BY <1>2, <1>3, StatesIs
<1>5. hm \in [Ids -> Arrays]
  BY <1>2, StatesIs, Numbers
<1> HIDE DEF r, last, al, ar, hm
<1>6. /\ r \in States /\ r.made = last /\ r.alive = al /\ r.array = ar /\ r.home = hm
      /\ r.padding = s.padding /\ r.history = s.history /\ r.position = s.position
      /\ r.refresh = s.refresh /\ r.shown = s.shown
  BY <1>1, <1>2, <1>4, <1>5 DEF States
<1> QED BY <1>6 DEF r, last, al, ar, hm

\* What is known of the new group n, made for the array a.
Fresh(s, r, n, a) ==
  /\ n \in r.alive \ r.padding /\ n \notin s.alive
  /\ s.alive \subseteq r.alive /\ r.home[n] = a
  /\ s.made <= r.made /\ r.alive \cap 1 .. s.made \subseteq s.alive
  /\ \A g \in s.alive : r.home[g] = s.home[g]
  /\ r.padding = s.padding /\ r.history = s.history /\ r.position = s.position
  /\ r.refresh = s.refresh /\ r.shown = s.shown
  /\ \A g, k : Firm(s, g, k) => Firm(r, g, k)
  /\ \A k : MadeBy(r, n, k)
  /\ In(r, n)
  /\ \A k \in DOMAIN s.history : \A g \in Names(s.history[k]) : g # n /\ s.home[g] # n

\* A new group is out until it is put into the array it is made for.
LEMMA MakeKeeps ==
  ASSUME NEW s, NEW out, Good(s, out), NEW a \in Arrays, NEW count \in Nat,
         NEW n, n = New(s), n + count <= MaxGroups, NEW r, r = Make(s, a, count),
         \/ a \in Blocks
         \/ a \in s.alive \ s.padding /\ s.home[a] \in Blocks /\ count = 0
  PROVE  Good(r, out \cup {n}) /\ Fresh(s, r, n, a)
<1> DEFINE last == n + count
<1>1. /\ s \in States /\ s.position \in 0 .. Len(s.history)
      /\ s.alive \subseteq 1 .. s.made /\ s.padding \subseteq s.alive /\ s.shown <= s.made
      /\ out \subseteq s.alive /\ Places(s, out) /\ Homes(s) /\ Once(s)
      /\ \A k \in DOMAIN s.history : /\ Placed(s, s.history[k])
                                     /\ \A g \in Names(s.history[k]) : Firm(s, g, k)
      /\ s.refresh # NULL => Firm(s, s.refresh, s.position)
  BY GoodIs
<1>2. /\ r \in States /\ r.made = last /\ r.alive = s.alive \cup n .. last
      /\ r.array = [s.array EXCEPT ![n] = n + 1 .. last]
      /\ r.home = [g \in Ids |-> IF g = n THEN a ELSE IF g \in n .. last THEN n ELSE s.home[g]]
      /\ r.padding = s.padding /\ r.history = s.history /\ r.position = s.position
      /\ r.refresh = s.refresh /\ r.shown = s.shown
  BY <1>1, MakeIs
<1>3. /\ n \in Nat /\ last \in Nat /\ n <= last /\ n = s.made + 1 /\ s.made \in Nat
      /\ n \in Ids /\ n .. last \subseteq Ids
      /\ n .. last \cap s.alive = {} /\ n \notin s.alive /\ n \notin Blocks
  <2>1. /\ n \in Nat /\ last \in Nat /\ n <= last /\ n = s.made + 1 /\ s.made \in Nat
        /\ n \in Ids /\ n .. last \subseteq Ids
    BY <1>1, StatesIs, OwnershipAssumption DEF New, Ids
  <2>2. \A g \in s.alive : g \in Nat /\ g <= s.made
    BY <1>1, <2>1
  <2> QED BY <2>1, <2>2, Numbers
<1> HIDE DEF last
<1>4. /\ \A g : In(r, g) <=> In(s, g)
      /\ \A g, k : MadeBy(r, g, k) <=> MadeBy(s, g, k)
  BY <1>2, SameHistory
<1>5. ASSUME NEW g \in s.alive
      PROVE  /\ g \in Ids /\ s.home[g] # n /\ g \notin n .. last /\ r.home[g] = s.home[g]
  <2>1. g \in Ids /\ g \notin n .. last /\ g # n
    BY <1>1, <1>3, StatesIs
  <2>2. s.home[g] # n
    BY <1>1, <1>3 DEF Homes
  <2> QED BY <1>2, <2>1, <2>2
<1>6. ASSUME NEW k \in DOMAIN s.history, NEW g \in Names(s.history[k])
      PROVE  g \in s.alive /\ g # n /\ s.home[g] # n /\ g \notin n .. last
  BY <1>1, <1>3, <1>5 DEF Firm
<1>7. ASSUME NEW g \in n .. last
      PROVE  In(s, g) /\ \A k : MadeBy(s, g, k)
  <2>1. ASSUME NEW k \in DOMAIN s.history
        PROVE  g \notin Makes(s.history[k]) /\ g \notin Takes(s.history[k])
    BY <1>1, <1>6, StatesIs, EntriesIs
  <2> QED BY <2>1 DEF In, MadeBy
<1>8. Places(r, out \cup {n})
  <2> SUFFICES ASSUME NEW b \in Arrays, NEW g \in Ids
               PROVE  g \in r.array[b] <=>
                        g \in r.alive \ (out \cup {n}) /\ b = r.home[g] /\ In(r, g)
    BY DEF Places
  <2>1. g \in s.array[b] <=> g \in s.alive \ out /\ b = s.home[g] /\ In(s, g)
    BY <1>1 DEF Places
  <2>2. CASE g \in s.alive
    <3>1. g \in r.array[b] <=> g \in s.array[b]
      <4>1. CASE b = n
        <5>1. g \notin n + 1 .. last /\ g \notin s.array[b]
          BY <1>3, <1>5, <2>1, <2>2, <4>1
        <5> QED BY <1>1, <1>2, <4>1, <5>1, StatesIs
      <4>2. CASE b # n
        BY <1>1, <1>2, <4>2, StatesIs
      <4> QED BY <4>1, <4>2
    <3> QED BY <1>2, <1>3, <1>4, <1>5, <2>1, <2>2, <3>1
  <2>3. CASE g \in n .. last
    <3>1. g \notin s.array[b] /\ g \in r.alive /\ In(r, g)
      BY <1>2, <1>3, <1>4, <1>7, <2>1, <2>3
    <3>2. g \in r.array[b] <=> b = n /\ g # n
      BY <1>1, <1>2, <1>3, <2>3, <3>1, StatesIs
    <3>3. g # n => r.home[g] = n /\ g \notin out
      BY <1>1, <1>2, <1>3, <2>3
    <3> QED BY <3>1, <3>2, <3>3
  <2>4. CASE g \notin s.alive /\ g \notin n .. last
    <3>1. g \notin s.array[b] /\ g \notin r.alive
      BY <1>2, <2>1, <2>4
    <3>2. g \notin r.array[b]
      BY <1>1, <1>2, <1>3, <2>4, <3>1, StatesIs
    <3> QED BY <3>1, <3>2
  <2> QED BY <2>2, <2>3, <2>4
<1>9. Homes(r)
  <2>1. ASSUME NEW g \in r.alive
        PROVE  /\ r.home[g] \in Blocks \cup (r.alive \ r.padding)
               /\ r.home[g] \in Ids => r.home[r.home[g]] \in Blocks
    <3>1. CASE g \in s.alive
      <4>1. /\ s.home[g] \in Blocks \cup (s.alive \ s.padding)
            /\ s.home[g] \in Ids => s.home[s.home[g]] \in Blocks
        BY <1>1, <3>1 DEF Homes
      <4>2. CASE s.home[g] \in Blocks
        BY <1>5, <3>1, <4>2, Numbers
      <4>3. CASE s.home[g] \in s.alive \ s.padding
        <5> DEFINE h == s.home[g]
        <5>1. h \in Ids /\ h \in s.alive \ s.padding /\ s.home[h] \in Blocks
          BY <1>5, <4>1, <4>3
        <5>2. r.home[g] = h /\ r.home[h] = s.home[h]
          BY <1>5, <3>1, <5>1
        <5>3. h \in r.alive \ r.padding
          BY <1>2, <5>1
        <5> QED BY <5>1, <5>2, <5>3
      <4> QED BY <4>1, <4>2, <4>3
    <3>2. CASE g = n
      <4>1. r.home[g] = a
        BY <1>2, <1>3, <3>2
      <4>2. CASE a \in Blocks
        BY <4>1, <4>2, Numbers
      <4>3. CASE a \in s.alive \ s.padding /\ s.home[a] \in Blocks
        <5>1. a \in s.alive /\ a \in r.alive \ r.padding
          BY <1>2, <4>3
        <5>2. r.home[a] = s.home[a]
          BY <1>5, <5>1
        <5> QED BY <4>1, <4>3, <5>1, <5>2
      <4> QED BY <4>2, <4>3
    <3>3. CASE g \in n .. last /\ g # n
      <4>1. r.home[g] = n
        BY <1>2, <1>3, <3>3
      <4>2. n \in r.alive \ r.padding
        BY <1>1, <1>2, <1>3
      <4>3. a \in Blocks
        <5>1. count # 0
          BY <1>3, <3>3 DEF last
        <5> QED BY <5>1
      <4> QED BY <1>2, <1>3, <4>1, <4>2, <4>3
    <3> QED BY <1>2, <3>1, <3>2, <3>3
  <2>2. ASSUME NEW g \in r.padding PROVE r.home[g] \in Blocks
    BY <1>1, <1>2, <1>5 DEF Homes
  <2> QED BY <2>1, <2>2 DEF Homes
<1>10. ASSUME NEW g, NEW k, Firm(s, g, k) PROVE Firm(r, g, k)
  <2>1. g \in s.alive
    BY <1>10 DEF Firm
  <2> QED BY <1>2, <1>4, <1>5, <1>10, <2>1 DEF Firm
<1>11. ASSUME NEW k \in DOMAIN r.history
       PROVE  Placed(r, r.history[k]) /\ \A g \in Names(r.history[k]) : Firm(r, g, k)
  <2>1. k \in DOMAIN s.history /\ r.history[k] = s.history[k]
    BY <1>2
  <2>2. r.history[k].kind = "replace" => r.history[k].replacement \in Names(r.history[k])
    BY DEF Names
  <2>3. r.history[k].group \in Names(r.history[k])
    BY DEF Names
  <2>4. Placed(r, r.history[k])
    BY <1>1, <1>5, <1>6, <2>1, <2>2, <2>3 DEF Placed
  <2> QED BY <1>1, <1>10, <2>1, <2>4
<1>12. Once(r)
  BY <1>1, <1>2 DEF Once
<1>13. r.alive \subseteq 1 .. r.made /\ r.shown <= r.made /\ r.padding \subseteq r.alive
       /\ out \cup {n} \subseteq r.alive /\ r.position <= Len(r.history)
  <2>1. n .. last \subseteq 1 .. last /\ 1 .. s.made \subseteq 1 .. last /\ n \in n .. last
    BY <1>3
  <2>2. s.shown \in Nat
    BY <1>1, StatesIs, OwnershipAssumption DEF NULL, Ids
  <2> QED BY <1>1, <1>2, <1>3, <2>1, <2>2, SMTT(60)
<1>14. Good(r, out \cup {n})
  BY <1>1, <1>2, <1>8, <1>9, <1>10, <1>11, <1>12, <1>13 DEF Good
<1>15. n \in n .. last
  BY <1>3
<1>16. In(r, n) /\ \A k : MadeBy(r, n, k)
  BY <1>4, <1>7, <1>15
<1>18. /\ n \in r.alive \ r.padding /\ n \notin s.alive
       /\ s.alive \subseteq r.alive /\ r.home[n] = a
  BY <1>1, <1>2, <1>3, <1>15
<1>19. s.made <= r.made /\ r.alive \cap 1 .. s.made \subseteq s.alive
  <2>1. \A g \in n .. last : g \notin 1 .. s.made
    BY <1>3
  <2> QED BY <1>2, <1>3, <2>1
<1> QED BY <1>2, <1>5, <1>6, <1>10, <1>14, <1>16, <1>18, <1>19 DEF Fresh

\* What depends on the history, the groups and where they are due stays when
\* a group is put into its array or taken out of it.
Alike(s, t) ==
  /\ t.alive = s.alive /\ t.made = s.made /\ t.padding = s.padding /\ t.home = s.home
  /\ t.history = s.history /\ t.position = s.position /\ t.refresh = s.refresh
  /\ t.shown = s.shown

LEMMA AlikeKeeps ==
  ASSUME NEW s, NEW t, Alike(s, t)
  PROVE  /\ \A g : In(t, g) <=> In(s, g)
         /\ \A g, k : Firm(t, g, k) <=> Firm(s, g, k)
BY SameHistory DEF Alike, Firm

LEMMA AlikeGood ==
  ASSUME NEW s, NEW t, NEW old, NEW out, Good(s, old), Alike(s, t), t \in States,
         out \subseteq s.alive, Places(t, out)
  PROVE  Good(t, out)
<1>1. /\ s.alive \subseteq 1 .. s.made /\ s.padding \subseteq s.alive /\ s.shown <= s.made
      /\ s.position <= Len(s.history) /\ Homes(s) /\ Once(s)
      /\ \A k \in DOMAIN s.history : /\ Placed(s, s.history[k])
                                     /\ \A g \in Names(s.history[k]) : Firm(s, g, k)
      /\ s.refresh # NULL => Firm(s, s.refresh, s.position)
  BY DEF Good
<1>2. /\ t.alive \subseteq 1 .. t.made /\ t.padding \subseteq t.alive /\ t.shown <= t.made
      /\ t.position <= Len(t.history) /\ out \subseteq t.alive
  BY <1>1 DEF Alike
<1>3. Homes(t) /\ Once(t)
  BY <1>1 DEF Alike, Homes, Once
<1>4. ASSUME NEW k \in DOMAIN t.history
      PROVE  Placed(t, t.history[k]) /\ \A g \in Names(t.history[k]) : Firm(t, g, k)
  <2>1. k \in DOMAIN s.history /\ t.history[k] = s.history[k]
    BY DEF Alike
  <2>2. Placed(t, t.history[k])
    BY <1>1, <2>1 DEF Alike, Placed
  <2> QED BY <1>1, <2>1, <2>2, AlikeKeeps
<1>5. t.refresh # NULL => Firm(t, t.refresh, t.position)
  BY <1>1, AlikeKeeps DEF Alike
<1> QED BY <1>2, <1>3, <1>4, <1>5 DEF Good

LEMMA PutKeeps ==
  ASSUME NEW s, NEW out, Good(s, out), NEW g \in out, In(s, g)
  PROVE  LET t == WithArray(s, s.home[g], s.array[s.home[g]] \cup {g})
         IN  Good(t, out \ {g}) /\ Alike(s, t)
<1> DEFINE a  == s.home[g]
           gs == s.array[a] \cup {g}
           t  == WithArray(s, a, gs)
<1>1. /\ s \in States /\ g \in s.alive /\ g \in Ids /\ a \in Arrays /\ out \subseteq s.alive
      /\ Places(s, out) /\ s.array \in [Arrays -> SUBSET Ids]
  BY GoodIs, StatesIs
<1>5. gs \in SUBSET Ids
  BY <1>1
<1>6. gs = s.array[a] \cup {g}
  OBVIOUS
<1> HIDE DEF a, gs
<1>2. t \in States /\ t.array = [s.array EXCEPT ![a] = gs] /\ Alike(s, t)
  <2>1. s \in States /\ a \in Arrays
    BY <1>1
  <2> QED BY <2>1, <1>5, ArrayPut DEF Alike
<1> HIDE DEF t
<1>3. Places(t, out \ {g})
  <2> SUFFICES ASSUME NEW b \in Arrays, NEW x \in Ids
               PROVE  x \in t.array[b] <=> x \in t.alive \ (out \ {g}) /\ b = t.home[x] /\ In(t, x)
    BY DEF Places
  <2>1. x \in s.array[b] <=> x \in s.alive \ out /\ b = s.home[x] /\ In(s, x)
    BY <1>1 DEF Places
  <2>2. x \in t.array[b] <=> x \in s.array[b] \/ (b = a /\ x = g)
    BY <1>1, <1>2, <1>6
  <2>3. t.alive = s.alive /\ t.home = s.home /\ (In(t, x) <=> In(s, x))
    BY <1>2, AlikeKeeps DEF Alike
  <2>4. a = s.home[g]
    BY DEF a
  <2> QED BY <1>1, <2>1, <2>2, <2>3, <2>4
<1>4. Good(t, out \ {g})
  BY <1>1, <1>2, <1>3, AlikeGood
<1> QED BY <1>2, <1>4 DEF t, a, gs

LEMMA CutKeeps ==
  ASSUME NEW s, NEW out, Good(s, out), NEW a \in Arrays, NEW g \in s.array[a]
  PROVE  LET t == Cut(s, a, g)
         IN  /\ Good(t, out \cup {g}) /\ Alike(s, t)
             /\ t.array = [s.array EXCEPT ![a] = s.array[a] \ {g}]
             /\ a = s.home[g] /\ g \in s.alive \ out /\ In(s, g)
<1> DEFINE t  == Cut(s, a, g)
           gs == s.array[a] \ {g}
<1>1. /\ s \in States /\ g \in Ids /\ out \subseteq s.alive
      /\ gs \in SUBSET Ids /\ Places(s, out) /\ s.array \in [Arrays -> SUBSET Ids]
  BY GoodIs, StatesIs
<1>2. t = WithArray(s, a, gs)
  BY Zenon DEF Cut, WithArray
<1>3. t \in States /\ t.array = [s.array EXCEPT ![a] = s.array[a] \ {g}] /\ Alike(s, t)
  <2>1. s \in States /\ gs \in SUBSET Ids
    BY <1>1
  <2>2. gs = s.array[a] \ {g}
    OBVIOUS
  <2> HIDE DEF gs, t
  <2> QED BY <1>2, <2>1, <2>2, ArrayPut DEF Alike
<1>4. a = s.home[g] /\ g \in s.alive \ out /\ In(s, g)
  BY <1>1 DEF Places
<1> HIDE DEF t
<1>5. Places(t, out \cup {g})
  <2> SUFFICES ASSUME NEW b \in Arrays, NEW x \in Ids
               PROVE  x \in t.array[b] <=> x \in t.alive \ (out \cup {g}) /\ b = t.home[x] /\ In(t, x)
    BY DEF Places
  <2>1. x \in s.array[b] <=> x \in s.alive \ out /\ b = s.home[x] /\ In(s, x)
    BY <1>1 DEF Places
  <2>2. x \in t.array[b] <=> x \in s.array[b] /\ ~(b = a /\ x = g)
    BY <1>1, <1>3
  <2>3. t.alive = s.alive /\ t.home = s.home /\ (In(t, x) <=> In(s, x))
    BY <1>3, AlikeKeeps DEF Alike
  <2> QED BY <1>4, <2>1, <2>2, <2>3
<1>6. Good(t, out \cup {g})
  BY <1>1, <1>3, <1>4, <1>5, AlikeGood
<1> QED BY <1>3, <1>4, <1>6 DEF t

\* The padding has no groups, and no entry and no rebuild is of it.
LEMMA PaddingKeeps ==
  ASSUME NEW s, NEW out, Good(s, out), NEW a \in Arrays, NEW p \in s.padding, p \in s.array[a]
  PROVE  LET t == Free(Cut(s, a, p), {p})
         IN  /\ Good(t, out)
             /\ t.alive = s.alive \ {p} /\ t.made = s.made /\ t.home = s.home
             /\ t.padding = s.padding \ {p} /\ t.history = s.history
             /\ t.position = s.position /\ t.refresh = s.refresh /\ t.shown = s.shown
             /\ \A g : In(t, g) <=> In(s, g)
             /\ \A g, k : Firm(s, g, k) => Firm(t, g, k)
<1> DEFINE c == Cut(s, a, p)
           t == Free(c, {p})
<1>1. /\ s \in States /\ s.position \in 0 .. Len(s.history)
      /\ s.alive \subseteq 1 .. s.made /\ s.padding \subseteq s.alive /\ s.shown <= s.made
      /\ out \subseteq s.alive /\ Places(s, out) /\ Homes(s) /\ Once(s)
      /\ \A k \in DOMAIN s.history : /\ Placed(s, s.history[k])
                                     /\ \A g \in Names(s.history[k]) : Firm(s, g, k)
      /\ s.refresh # NULL => Firm(s, s.refresh, s.position)
  BY GoodIs
<1>2. /\ c \in States /\ Alike(s, c) /\ c.array = [s.array EXCEPT ![a] = s.array[a] \ {p}]
      /\ a = s.home[p] /\ p \in s.alive \ out /\ In(s, p)
  <2>1. p \in s.array[a]
    OBVIOUS
  <2>2. /\ Good(c, out \cup {p}) /\ Alike(s, c) /\ c.array = [s.array EXCEPT ![a] = s.array[a] \ {p}]
        /\ a = s.home[p] /\ p \in s.alive \ out /\ In(s, p)
    BY <2>1, CutKeeps
  <2> HIDE DEF c
  <2> QED BY <2>2, GoodIs
<1>3. p \in Ids /\ p \in Arrays /\ a \in Blocks /\ a # p
  BY <1>1, <1>2, StatesIs, Numbers DEF Homes
<1>4. s.array[p] = {}
  <2>1. ASSUME NEW g \in s.array[p] PROVE FALSE
    <3>1. g \in s.alive /\ s.home[g] = p
      BY <1>1, <1>3, StatesIs DEF Places
    <3> QED BY <1>1, <1>3, <3>1, Numbers DEF Homes
  <2> QED BY <2>1
<1>5. Gone(c, {p}) = {p}
  <2>1. c.array[p] = {}
    BY <1>1, <1>2, <1>3, <1>4, StatesIs
  <2> QED BY <2>1 DEF Gone
<1>6. {p} \in SUBSET Ids
  BY <1>3
<1> HIDE DEF c
<1>7. /\ t \in States /\ t.alive = s.alive \ {p} /\ t.padding = s.padding \ {p}
      /\ t.array = [b \in Arrays |-> IF b \in {p} THEN {} ELSE c.array[b]]
      /\ t.made = s.made /\ t.home = s.home /\ t.history = s.history
      /\ t.position = s.position /\ t.refresh = s.refresh /\ t.shown = s.shown
  <2>1. c \in States
    BY <1>2
  <2>2. /\ t \in States
        /\ t.alive = c.alive \ Gone(c, {p})
        /\ t.padding = c.padding \ Gone(c, {p})
        /\ t.array = [b \in Arrays |-> IF b \in Gone(c, {p}) THEN {} ELSE c.array[b]]
        /\ t.made = c.made /\ t.home = c.home /\ t.history = c.history
        /\ t.position = c.position /\ t.refresh = c.refresh /\ t.shown = c.shown
    BY <1>6, <2>1, FreeIs
  <2> HIDE DEF t
  <2> QED BY <1>2, <1>5, <2>2 DEF Alike
<1> HIDE DEF t
<1>8. /\ \A g : In(t, g) <=> In(s, g)
      /\ \A g, k : MadeBy(t, g, k) <=> MadeBy(s, g, k)
  BY <1>7, SameHistory
<1>9. \A g, k : Firm(s, g, k) => Firm(t, g, k)
  BY <1>7, <1>8 DEF Firm
<1>10. Places(t, out)
  <2> SUFFICES ASSUME NEW b \in Arrays, NEW g \in Ids
               PROVE  g \in t.array[b] <=> g \in t.alive \ out /\ b = t.home[g] /\ In(t, g)
    BY DEF Places
  <2>1. g \in s.array[b] <=> g \in s.alive \ out /\ b = s.home[g] /\ In(s, g)
    BY <1>1 DEF Places
  <2>2. g \in c.array[b] <=> g \in s.array[b] /\ ~(b = a /\ g = p)
    BY <1>1, <1>2, StatesIs
  <2>3. g \in t.array[b] <=> b # p /\ g \in c.array[b]
    BY <1>7
  <2> QED BY <1>2, <1>4, <1>7, <1>8, <2>1, <2>2, <2>3
<1>11. Homes(t)
  BY <1>1, <1>7 DEF Homes
<1>12. Once(t)
  BY <1>1, <1>7 DEF Once
<1>13. ASSUME NEW k \in DOMAIN t.history
       PROVE  Placed(t, t.history[k]) /\ \A g \in Names(t.history[k]) : Firm(t, g, k)
  BY <1>1, <1>7, <1>9 DEF Placed
<1>14. out \subseteq t.alive
  BY <1>1, <1>2, <1>7
<1>15. Good(t, out)
  BY <1>1, <1>7, <1>9, <1>10, <1>11, <1>12, <1>13, <1>14 DEF Good
<1> QED BY <1>7, <1>8, <1>9, <1>15 DEF t, c

LEMMA InsertKeeps ==
  ASSUME NEW s, NEW out, Good(s, out), NEW g \in out, g \notin s.padding, In(s, g),
         NEW t \in Insert(s, s.home[g], g)
  PROVE  /\ Good(t, out \ {g})
         /\ s.alive \ s.padding \subseteq t.alive /\ t.alive \subseteq s.alive
         /\ t.made = s.made /\ t.home = s.home
         /\ t.padding \subseteq s.padding /\ t.history = s.history
         /\ t.position = s.position /\ t.refresh = s.refresh /\ t.shown = s.shown
         /\ \A x : In(t, x) <=> In(s, x)
         /\ \A x, k : Firm(s, x, k) => Firm(t, x, k)
<1> DEFINE a   == s.home[g]
           gs  == s.array[a] \cup {g}
           put == WithArray(s, a, gs)
<1>1. t = put \/ \E p \in s.padding \cap s.array[a] : t = Free(Cut(put, a, p), {p})
  <2>1. put = [s EXCEPT !.array[a] = @ \cup {g}]
    BY Zenon DEF WithArray
  <2> HIDE DEF put
  <2>2. Insert(s, a, g) = {put} \cup {Free(Cut(put, a, p), {p}) : p \in s.padding \cap s.array[a]}
    BY <2>1, Zenon DEF Insert
  <2> QED BY <2>2
<1>2. Good(put, out \ {g}) /\ Alike(s, put)
  BY PutKeeps
<1>3. a \in Arrays /\ put.array[a] = s.array[a] \cup {g}
  <2>1. s \in States /\ g \in Ids /\ a \in Arrays /\ s.array \in [Arrays -> SUBSET Ids]
    BY GoodIs, StatesIs
  <2>2. gs \in SUBSET Ids
    BY <2>1
  <2>3. gs = s.array[a] \cup {g}
    OBVIOUS
  <2>4. s \in States /\ a \in Arrays
    BY <2>1
  <2> HIDE DEF gs, a, put
  <2>5. put.array = [s.array EXCEPT ![a] = gs]
    BY <2>2, <2>4, ArrayPut DEF put
  <2> QED BY <2>1, <2>3, <2>5
<1> HIDE DEF a, put
<1>4. CASE t = put
  BY <1>2, <1>4, AlikeKeeps DEF Alike
<1>5. CASE \E p \in s.padding \cap s.array[a] : t = Free(Cut(put, a, p), {p})
  <2>1. PICK p \in s.padding : p \in s.array[a] /\ t = Free(Cut(put, a, p), {p})
    BY <1>5
  <2>2. p \in put.padding /\ p \in put.array[a]
    BY <1>2, <1>3, <2>1 DEF Alike
  <2>3. /\ Good(t, out \ {g})
        /\ t.alive = put.alive \ {p} /\ t.made = put.made /\ t.home = put.home
        /\ t.padding = put.padding \ {p} /\ t.history = put.history
        /\ t.position = put.position /\ t.refresh = put.refresh /\ t.shown = put.shown
        /\ \A x : In(t, x) <=> In(put, x)
        /\ \A x, k : Firm(put, x, k) => Firm(t, x, k)
    BY <1>2, <1>3, <2>1, <2>2, PaddingKeeps
  <2> QED BY <1>2, <2>1, <2>3, AlikeKeeps DEF Alike
<1> QED BY <1>1, <1>4, <1>5

\* Entries that can be recorded: they are of groups that stay, only the first
\* one may take out a group, which is out already, or make one, which no
\* entry knows yet.
Recordable(s, out, es) ==
  /\ es \in Seq(Entries) /\ es # <<>>
  /\ \A i \in DOMAIN es : /\ Placed(s, es[i])
                          /\ \A g \in Names(es[i]) : Firm(s, g, s.position)
                          /\ i > 1 => Makes(es[i]) = {} /\ Takes(es[i]) = {}
  /\ \A g \in Takes(es[1]) : g \in out /\ In(s, g)
  /\ \A g \in Makes(es[1]), k \in DOMAIN s.history :
       \A x \in Names(s.history[k]) : x # g /\ s.home[x] # g

LEMMA RecordableIs ==
  ASSUME NEW s, NEW out, NEW es, Recordable(s, out, es)
  PROVE  /\ Len(es) \in Nat \ {0} /\ DOMAIN es = 1 .. Len(es) /\ 1 \in DOMAIN es
         /\ \A i \in DOMAIN es : es[i] \in Entries
BY DEF Recordable

LEMMA AppendKeeps ==
  ASSUME NEW s, NEW out, NEW es, Good(s, out), Recordable(s, out, es),
         Len(s.history) = s.position
  PROVE  LET r == WithHistory(s, s.history \o es, s.position + Len(es))
         IN  /\ Good(r, out \ Takes(es[1]))
             /\ Len(r.history) = r.position
             /\ \A g : Firm(s, g, s.position) => Firm(r, g, r.position)
             /\ \A g : In(r, g) <=> In(s, g) /\ g \notin Takes(es[1])
<1> DEFINE p == s.position
           n == Len(es)
           q == s.history \o es
           r == WithHistory(s, q, p + n)
<1>1. /\ s \in States /\ p \in Nat /\ Len(s.history) = p
      /\ s.alive \subseteq 1 .. s.made /\ s.padding \subseteq s.alive /\ s.shown <= s.made
      /\ out \subseteq s.alive /\ Places(s, out) /\ Homes(s) /\ Once(s)
      /\ \A k \in DOMAIN s.history : /\ Placed(s, s.history[k])
                                     /\ \A g \in Names(s.history[k]) : Firm(s, g, k)
      /\ s.refresh # NULL => Firm(s, s.refresh, p)
  BY GoodIs, StatesIs
<1>2. /\ es \in Seq(Entries) /\ n \in Nat \ {0} /\ DOMAIN es = 1 .. n /\ 1 \in DOMAIN es
      /\ \A i \in DOMAIN es : /\ Placed(s, es[i]) /\ es[i] \in Entries
                              /\ \A g \in Names(es[i]) : Firm(s, g, p)
                              /\ i > 1 => Makes(es[i]) = {} /\ Takes(es[i]) = {}
      /\ \A g \in Takes(es[1]) : g \in out /\ In(s, g)
      /\ \A g \in Makes(es[1]), k \in DOMAIN s.history :
           \A x \in Names(s.history[k]) : x # g /\ s.home[x] # g
  BY RecordableIs DEF Recordable
<1>3. /\ s.history \in Seq(Entries) /\ DOMAIN s.history = 1 .. p
      /\ \A k \in DOMAIN s.history : s.history[k] \in Entries
  BY <1>1, StatesIs
<1>4. /\ q \in Seq(Entries) /\ Len(q) = p + n /\ DOMAIN q = 1 .. p + n
      /\ \A k \in 1 .. p : q[k] = s.history[k]
      /\ \A k \in p + 1 .. p + n : q[k] = es[k - p] /\ k - p \in DOMAIN es
      /\ q[p + 1] = es[1]
  <2>1. /\ es \in Seq(Entries) /\ s.history \in Seq(Entries) /\ Len(s.history) = p
        /\ p \in Nat /\ n \in Nat /\ n = Len(es)
    BY <1>1, <1>2, <1>3
  <2>2. q \in Seq(Entries) /\ Len(q) = p + n /\ DOMAIN q = 1 .. p + n
    BY <2>1
  <2>3. ASSUME NEW k \in 1 .. p PROVE q[k] = s.history[k]
    BY <2>1
  <2>4. ASSUME NEW k \in p + 1 .. p + n PROVE q[k] = es[k - p] /\ k - p \in 1 .. n
    BY <2>1, SMTT(60)
  <2>5. q[p + 1] = es[1]
    <3>1. p + 1 \in p + 1 .. p + n /\ p + 1 - p = 1
      BY <1>2, <2>1, SMTT(60)
    <3> HIDE DEF q
    <3> QED BY <2>4, <3>1
  <2> QED BY <1>2, <2>2, <2>3, <2>4, <2>5
<1>5. p + n \in Nat
  BY <1>1, <1>2
<1> HIDE DEF q
<1>6. /\ r \in States /\ r.history = q /\ r.position = p + n
      /\ r.array = s.array /\ r.alive = s.alive /\ r.made = s.made
      /\ r.padding = s.padding /\ r.home = s.home /\ r.refresh = s.refresh
      /\ r.shown = s.shown
  <2>1. s \in States /\ q \in Seq(Entries) /\ p + n \in Nat
    BY <1>1, <1>4, <1>5
  <2> HIDE DEF p, n
  <2> QED BY <2>1, HistoryPut
<1> HIDE DEF r, p, n
<1>7. ASSUME NEW k \in DOMAIN r.history
      PROVE  \/ k \in 1 .. p /\ k \in DOMAIN s.history /\ r.history[k] = s.history[k]
             \/ k = p + 1 /\ r.history[k] = es[1]
             \/ /\ k \in p + 2 .. p + n /\ Makes(r.history[k]) = {} /\ Takes(r.history[k]) = {}
                /\ k - p \in DOMAIN es /\ r.history[k] = es[k - p]
  <2>1. k \in 1 .. p + n
    BY <1>4, <1>6
  <2>2. CASE k \in 1 .. p
    BY <1>3, <1>4, <1>6, <2>2
  <2>3. CASE k = p + 1
    <3>1. k \in p + 1 .. p + n /\ k - p = 1
      BY <1>1, <1>2, <2>1, <2>3
    <3> QED BY <1>4, <1>6, <2>3, <3>1
  <2>4. CASE k \in p + 2 .. p + n
    <3>1. k \in p + 1 .. p + n /\ k - p > 1
      BY <1>1, <1>2, <2>4
    <3> QED BY <1>2, <1>4, <1>6, <2>4, <3>1
  <2> QED BY <1>1, <1>2, <2>1, <2>2, <2>3, <2>4
<1>8. /\ 1 .. p \subseteq DOMAIN r.history /\ p + 1 \in DOMAIN r.history
      /\ r.history[p + 1] = es[1] /\ \A k \in 1 .. p : r.history[k] = s.history[k]
      /\ DOMAIN r.history = 1 .. p + n
  <2>1. p + 1 \in p + 1 .. p + n /\ p + 1 - p = 1 /\ 1 .. p \subseteq 1 .. p + n
        /\ p + 1 \in 1 .. p + n
    BY <1>1, <1>2
  <2>2. DOMAIN r.history = 1 .. p + n /\ \A k \in 1 .. p : r.history[k] = s.history[k]
    BY <1>4, <1>6
  <2>3. r.history[p + 1] = es[1]
    BY <1>4, <1>6
  <2> QED BY <2>1, <2>2, <2>3
<1>9. ASSUME NEW g, NEW k \in Nat, k > p PROVE MadeBy(r, g, k)
  BY <1>1, <1>2, <1>7, <1>9, SMTT(60) DEF MadeBy
<1>10. ASSUME NEW g, NEW k \in Nat, g \notin Makes(es[1]), MadeBy(s, g, k) PROVE MadeBy(r, g, k)
  BY <1>7, <1>10 DEF MadeBy
<1>11. ASSUME NEW g PROVE In(r, g) <=> In(s, g) /\ g \notin Takes(es[1])
  <2>1. In(r, g) <=> \A k \in DOMAIN r.history : g \notin Takes(r.history[k])
    <3>1. MadeBy(r, g, r.position) /\ p + n \in Nat
      BY <1>1, <1>2, <1>6, <1>9
    <3>2. \A k \in DOMAIN r.history : k <= r.position
      BY <1>1, <1>2, <1>6, <1>8
    <3> QED BY <1>6, <3>1, <3>2, InIs
  <2>2. In(s, g) <=> \A k \in 1 .. p : g \notin Takes(s.history[k])
    <3>1. MadeBy(s, g, p)
      BY <1>3 DEF MadeBy
    <3>2. \A k \in DOMAIN s.history : k <= p
      BY <1>1, <1>3
    <3> QED BY <1>1, <1>3, <3>1, <3>2, InIs DEF p
  <2>3. (\A k \in DOMAIN r.history : g \notin Takes(r.history[k]))
          <=> (\A k \in 1 .. p : g \notin Takes(s.history[k])) /\ g \notin Takes(es[1])
    <3>1. ASSUME \A k \in 1 .. p : g \notin Takes(s.history[k]), g \notin Takes(es[1]),
                 NEW k \in DOMAIN r.history
          PROVE  g \notin Takes(r.history[k])
      BY <1>7, <3>1
    <3>2. ASSUME \A k \in DOMAIN r.history : g \notin Takes(r.history[k])
          PROVE  (\A k \in 1 .. p : g \notin Takes(s.history[k])) /\ g \notin Takes(es[1])
      BY <1>8, <3>2
    <3> QED BY <3>1, <3>2
  <2> QED BY <2>1, <2>2, <2>3
<1>12. ASSUME NEW g, Firm(s, g, p), NEW k \in Nat, k > p PROVE Firm(r, g, k)
  BY <1>6, <1>9, <1>12 DEF Firm
<1>13. Places(r, out \ Takes(es[1]))
  <2> SUFFICES ASSUME NEW b \in Arrays, NEW g \in Ids
               PROVE  g \in r.array[b] <=>
                        g \in r.alive \ (out \ Takes(es[1])) /\ b = r.home[g] /\ In(r, g)
    BY DEF Places
  <2>1. g \in s.array[b] <=> g \in s.alive \ out /\ b = s.home[g] /\ In(s, g)
    BY <1>1 DEF Places
  <2> QED BY <1>2, <1>6, <1>11, <2>1
<1>14. Homes(r)
  BY <1>1, <1>6 DEF Homes
<1>15. Once(r)
  <2> SUFFICES ASSUME NEW k \in DOMAIN r.history, NEW l \in DOMAIN r.history, NEW g \in Ids,
                      \/ g \in Makes(r.history[k]) \cap Makes(r.history[l])
                      \/ g \in Takes(r.history[k]) \cap Takes(r.history[l])
               PROVE  k = l
    BY DEF Once
  <2>1. ASSUME NEW i \in DOMAIN s.history, i \in 1 .. p
        PROVE  /\ ~(g \in Makes(s.history[i]) /\ g \in Makes(es[1]))
               /\ ~(g \in Takes(s.history[i]) /\ g \in Takes(es[1]))
    <3>1. Makes(s.history[i]) \subseteq Names(s.history[i])
      BY <1>3, EntriesIs
    <3>2. ASSUME g \in Takes(es[1]) PROVE g \notin Takes(s.history[i])
      <4>1. In(s, g)
        BY <1>2, <3>2
      <4> QED BY <1>1, <2>1, <4>1 DEF In, p
    <3> QED BY <1>2, <3>1, <3>2
  <2>2. CASE k \in 1 .. p /\ l \in 1 .. p
    BY <1>1, <1>3, <1>8, <2>2 DEF Once
  <2>3. CASE k \in 1 .. p /\ l \notin 1 .. p
    BY <1>3, <1>7, <1>8, <2>1, <2>3
  <2>4. CASE k \notin 1 .. p /\ l \in 1 .. p
    BY <1>3, <1>7, <1>8, <2>1, <2>4
  <2>5. CASE k \notin 1 .. p /\ l \notin 1 .. p
    BY <1>7, <2>5
  <2> QED BY <2>2, <2>3, <2>4, <2>5
<1>16. ASSUME NEW k \in DOMAIN r.history
       PROVE  Placed(r, r.history[k]) /\ \A g \in Names(r.history[k]) : Firm(r, g, k)
  <2>1. CASE k \in 1 .. p /\ k \in DOMAIN s.history /\ r.history[k] = s.history[k]
    <3>1. Placed(r, r.history[k])
      BY <1>1, <1>6, <2>1 DEF Placed
    <3>2. ASSUME NEW g \in Names(r.history[k]) PROVE Firm(r, g, k)
      <4>1. Firm(s, g, k) /\ g \notin Makes(es[1]) /\ s.home[g] \notin Makes(es[1])
        BY <1>1, <1>2, <2>1
      <4>2. k \in Nat
        BY <2>1
      <4> QED BY <1>6, <1>10, <4>1, <4>2 DEF Firm
    <3> QED BY <3>1, <3>2
  <2>2. CASE k \notin 1 .. p
    <3>1. PICK i \in DOMAIN es : r.history[k] = es[i]
      BY <1>2, <1>7, <2>2
    <3>2. k \in Nat /\ k > p
      BY <1>1, <1>2, <1>8, <2>2
    <3>3. Placed(r, r.history[k])
      BY <1>2, <1>6, <3>1 DEF Placed
    <3>4. ASSUME NEW g \in Names(r.history[k]) PROVE Firm(r, g, k)
      BY <1>2, <1>12, <3>1, <3>2
    <3> QED BY <3>3, <3>4
  <2> QED BY <1>3, <1>8, <2>1, <2>2
<1>17. /\ p + n \in Nat /\ p + n > p
  BY <1>1, <1>2
<1>18. /\ r.refresh # NULL => Firm(r, r.refresh, r.position)
       /\ \A g : Firm(s, g, p) => Firm(r, g, r.position)
  BY <1>1, <1>6, <1>12, <1>17
<1>19. r.position <= Len(r.history) /\ Len(r.history) = r.position /\ out \ Takes(es[1]) \subseteq r.alive
  BY <1>1, <1>4, <1>6, <1>17
<1>20. Good(r, out \ Takes(es[1]))
  BY <1>1, <1>6, <1>13, <1>14, <1>15, <1>16, <1>18, <1>19 DEF Good
<1> QED BY <1>11, <1>18, <1>19, <1>20 DEF r, p, n, q

LEMMA PushIs ==
  ASSUME NEW s \in States, s.position <= Len(s.history), NEW es
  PROVE  LET d == DropHistory(s, s.position)
         IN  PushHistory(s, es) = WithHistory(d, d.history \o es, d.position + Len(es))
<1> DEFINE d == DropHistory(s, s.position)
<1>1. PushHistory(s, es) = [d EXCEPT !.history = d.history \o es, !.position = d.position + Len(es)]
  BY Zenon DEF PushHistory
<1> QED BY <1>1 DEF WithHistory

LEMMA PushKeeps ==
  ASSUME NEW s, NEW out, NEW es, Good(s, out), Recordable(s, out, es),
         \A g \in out : Firm(s, g, s.position)
  PROVE  LET r == PushHistory(s, es)
         IN  /\ Good(r, out \ Takes(es[1]))
             /\ r.made = s.made /\ r.home = s.home /\ r.padding \subseteq s.padding
             /\ r.refresh = s.refresh /\ r.shown = s.shown
             /\ r.alive = DropHistory(s, s.position).alive
             /\ r.history = SubSeq(s.history, 1, s.position) \o es
             /\ r.position = s.position + Len(es) /\ Len(r.history) = r.position
             /\ \A g : Firm(s, g, s.position) => Firm(r, g, r.position)
             /\ \A g \in r.alive : In(r, g) <=> In(s, g) /\ g \notin Takes(es[1])
<1> DEFINE p == s.position
           d == DropHistory(s, p)
           r == PushHistory(s, es)
<1>1. s \in States /\ p \in 0 .. Len(s.history) /\ p <= Len(s.history)
  BY GoodIs, StatesIs
<1>2. /\ Good(d, out)
      /\ d.made = s.made /\ d.home = s.home /\ d.padding \subseteq s.padding
      /\ d.refresh = s.refresh /\ d.shown = s.shown
      /\ d.position = p /\ Len(d.history) = p
      /\ \A k \in 1 .. p : d.history[k] = s.history[k]
      /\ \A g : Firm(s, g, p) => Firm(d, g, p)
      /\ \A g \in d.alive : In(d, g) <=> In(s, g)
  BY DropKeeps
<1>3. d.history = SubSeq(s.history, 1, p)
  BY <1>1, DropIs
<1>4. r = WithHistory(d, d.history \o es, d.position + Len(es))
  BY <1>1, PushIs
<1> HIDE DEF d, r
<1>5. d \in States /\ DOMAIN d.history = 1 .. p /\ 1 .. p \subseteq DOMAIN s.history
      /\ out \subseteq d.alive
  BY <1>1, <1>2, GoodIs, StatesIs
<1>6. Recordable(d, out, es)
  <2>1. ASSUME NEW i \in DOMAIN es, Placed(s, es[i]) PROVE Placed(d, es[i])
    BY <1>2, <2>1 DEF Placed
  <2>2. \A g \in Takes(es[1]) : g \in out /\ In(d, g)
    BY <1>2, <1>5 DEF Recordable
  <2>3. \A g \in Makes(es[1]), k \in DOMAIN d.history :
          \A x \in Names(d.history[k]) : x # g /\ d.home[x] # g
    BY <1>2, <1>5 DEF Recordable
  <2> QED BY <1>2, <2>1, <2>2, <2>3 DEF Recordable
<1>7. /\ Good(r, out \ Takes(es[1])) /\ Len(r.history) = r.position
      /\ \A g : Firm(d, g, p) => Firm(r, g, r.position)
      /\ \A g : In(r, g) <=> In(d, g) /\ g \notin Takes(es[1])
  <2>1. Good(d, out) /\ Len(d.history) = d.position
    BY <1>2
  <2>2. LET t == WithHistory(d, d.history \o es, d.position + Len(es))
        IN  /\ Good(t, out \ Takes(es[1])) /\ Len(t.history) = t.position
            /\ \A g : Firm(d, g, d.position) => Firm(t, g, t.position)
            /\ \A g : In(t, g) <=> In(d, g) /\ g \notin Takes(es[1])
    BY <1>6, <2>1, AppendKeeps
  <2> QED BY <1>2, <1>4, <2>2
<1>8. d.history \o es \in Seq(Entries) /\ d.position + Len(es) \in Nat
  BY <1>5, <1>6, RecordableIs, StatesIs DEF Recordable
<1>9. /\ r.history = d.history \o es /\ r.position = d.position + Len(es)
      /\ r.alive = d.alive /\ r.made = d.made
      /\ r.padding = d.padding /\ r.home = d.home /\ r.refresh = d.refresh
      /\ r.shown = d.shown
  <2> DEFINE h == d.history \o es
             x == d.position + Len(es)
  <2>1. h \in Seq(Entries) /\ x \in Nat /\ d \in States /\ r = WithHistory(d, h, x)
    BY <1>4, <1>5, <1>8
  <2> HIDE DEF h, x
  <2>2. /\ r.history = h /\ r.position = x
        /\ r.alive = d.alive /\ r.made = d.made
        /\ r.padding = d.padding /\ r.home = d.home /\ r.refresh = d.refresh
        /\ r.shown = d.shown
    BY <2>1, HistoryPut
  <2> QED BY <2>2 DEF h, x
<1> QED BY <1>2, <1>3, <1>7, <1>9 DEF d, r, p

(***************************************************************************)
(* What is in the document, and what an operation does to the rest.        *)
(***************************************************************************)
LEMMA OpenIs ==
  ASSUME NEW s, Good(s, {})
  PROVE  /\ \A g : g \in InDocument(s) <=> g \in s.alive /\ In(s, g) /\ In(s, s.home[g])
         /\ InDocument(s) \subseteq s.alive /\ InDocument(s) \subseteq Ids
         /\ Roots(s) \subseteq InDocument(s)
<1>1. s \in States /\ s.alive \subseteq Ids /\ s.home \in [Ids -> Arrays] /\ Places(s, {}) /\ Homes(s)
      /\ s.array \in [Arrays -> SUBSET Ids]
  BY GoodIs, StatesIs
<1>2. \A g : g \in Roots(s) <=> g \in s.alive /\ s.home[g] \in Blocks /\ In(s, g)
  <2>1. ASSUME NEW g, NEW b \in Blocks, g \in s.array[b]
        PROVE  g \in s.alive /\ s.home[g] \in Blocks /\ In(s, g)
    <3>1. b \in Arrays /\ g \in Ids
      BY <1>1, <2>1, Numbers
    <3> QED BY <1>1, <2>1, <3>1 DEF Places
  <2>2. ASSUME NEW g, g \in s.alive, s.home[g] \in Blocks, In(s, g) PROVE g \in s.array[s.home[g]]
    <3>1. g \in Ids /\ s.home[g] \in Arrays
      BY <1>1, <2>2
    <3> QED BY <1>1, <2>2, <3>1 DEF Places
  <2> QED BY <2>1, <2>2 DEF Roots
<1>3. ASSUME NEW g \in InDocument(s)
      PROVE  g \in s.alive /\ In(s, g) /\ In(s, s.home[g])
  <2>1. CASE g \in Roots(s)
    BY <1>1, <1>2, <2>1, OfBlocks
  <2>2. CASE \E x \in Roots(s) : g \in s.array[x]
    <3>1. PICK x \in Roots(s) : g \in s.array[x]
      BY <2>2
    <3>2. x \in Arrays /\ x \in s.alive /\ In(s, x) /\ g \in Ids
      BY <1>1, <1>2, <3>1, Numbers
    <3>3. g \in s.alive /\ x = s.home[g] /\ In(s, g)
      BY <1>1, <3>1, <3>2 DEF Places
    <3> QED BY <3>2, <3>3
  <2> QED BY <2>1, <2>2 DEF InDocument
<1>4. ASSUME NEW g \in s.alive, In(s, g), In(s, s.home[g]) PROVE g \in InDocument(s)
  <2>1. s.home[g] \in Blocks \/ (s.home[g] \in s.alive /\ s.home[s.home[g]] \in Blocks)
    BY <1>1 DEF Homes
  <2>2. CASE s.home[g] \in Blocks
    BY <1>2, <1>4, <2>2 DEF InDocument
  <2>3. CASE s.home[g] \in s.alive /\ s.home[s.home[g]] \in Blocks
    <3>1. s.home[g] \in Roots(s)
      BY <1>2, <1>4, <2>3
    <3>2. g \in Ids /\ s.home[g] \in Arrays
      BY <1>1
    <3>3. g \in s.array[s.home[g]]
      BY <1>1, <1>4, <3>2 DEF Places
    <3> QED BY <3>1, <3>3 DEF InDocument
  <2> QED BY <2>1, <2>2, <2>3
<1> QED BY <1>1, <1>3, <1>4 DEF InDocument

LEMMA OpenIsFirm ==
  ASSUME NEW s, Good(s, {}), NEW g \in InDocument(s) \ s.padding
  PROVE  Firm(s, g, s.position)
<1>1. g \in s.alive /\ In(s, g) /\ In(s, s.home[g]) /\ s \in States
  BY OpenIs, GoodIs
<1> QED BY <1>1, InIs DEF Firm

LEMMA ParentIs ==
  ASSUME NEW s, NEW out, Good(s, out), NEW g
  PROVE  /\ ParentAr(s, g) # NULL <=> g \in s.alive \ out /\ In(s, g)
         /\ ParentAr(s, g) # NULL =>
              /\ ParentAr(s, g) = s.home[g] /\ s.home[g] \in Arrays /\ g \in s.array[s.home[g]]
              /\ g \in Ids
<1>1. s \in States /\ s.alive \subseteq Ids /\ s.home \in [Ids -> Arrays] /\ Places(s, out)
      /\ s.array \in [Arrays -> SUBSET Ids]
  BY GoodIs, StatesIs
<1>2. \A a \in Arrays : g \in s.array[a] <=> g \in s.alive \ out /\ a = s.home[g] /\ In(s, g)
  <2> SUFFICES ASSUME NEW a \in Arrays
               PROVE  g \in s.array[a] <=> g \in s.alive \ out /\ a = s.home[g] /\ In(s, g)
    OBVIOUS
  <2>1. g \in s.array[a] \/ g \in s.alive => g \in Ids
    BY <1>1
  <2> QED BY <1>1, <2>1 DEF Places
<1>3. CASE \E a \in Arrays : g \in s.array[a]
  <2>1. ParentAr(s, g) \in Arrays /\ g \in s.array[ParentAr(s, g)]
    BY <1>3 DEF ParentAr
  <2> QED BY <1>1, <1>2, <2>1, Numbers
<1>4. CASE ~\E a \in Arrays : g \in s.array[a]
  <2>1. ParentAr(s, g) = NULL
    BY <1>4 DEF ParentAr
  <2>2. ~(g \in s.alive \ out /\ In(s, g))
    BY <1>1, <1>2, <1>4
  <2> QED BY <2>1, <2>2
<1> QED BY <1>3, <1>4

\* Two states with the same fields are the same.
LEMMA SameState ==
  ASSUME NEW s \in States, NEW t \in States, Alike(s, t), s.array = t.array
  PROVE  s = t
BY DEF Alike, States

LEMMA ReplaceKeeps ==
  ASSUME NEW s, NEW out, Good(s, out), NEW target \in s.alive \ out, In(s, target),
         NEW new \in out, In(s, new), s.home[new] = s.home[target]
  PROVE  LET t == ReplaceGroup(s, target, new)
         IN  /\ Good(t, (out \ {new}) \cup {target}) /\ Alike(s, t)
             /\ t.array = [s.array EXCEPT ![s.home[target]] = (@ \ {target}) \cup {new}]
<1> DEFINE a  == s.home[target]
           c  == Cut(s, a, target)
           gs == c.array[a] \cup {new}
           v  == WithArray(c, a, gs)
           t  == ReplaceGroup(s, target, new)
<1>1. s \in States /\ ParentAr(s, target) = a /\ a \in Arrays /\ target \in s.array[a]
      /\ s.array \in [Arrays -> SUBSET Ids] /\ new \in Ids
  BY GoodIs, ParentIs, StatesIs
<1>2. /\ Good(c, out \cup {target}) /\ Alike(s, c)
      /\ c.array = [s.array EXCEPT ![a] = s.array[a] \ {target}]
  <2>1. a \in Arrays /\ target \in s.array[a]
    BY <1>1
  <2> HIDE DEF a
  <2> QED BY <2>1, CutKeeps
<1>3. Good(v, (out \cup {target}) \ {new}) /\ Alike(c, v)
  <2>1. new \in out \cup {target} /\ In(c, new) /\ c.home[new] = a
    BY <1>2, AlikeKeeps DEF Alike
  <2> HIDE DEF c
  <2> QED BY <1>2, <2>1, PutKeeps
<1>4. c.array[a] = s.array[a] \ {target}
  BY <1>1, <1>2
<1>5. t = WithArray(s, a, (s.array[a] \ {target}) \cup {new})
  <2>1. t = [s EXCEPT !.array[a] = (@ \ {target}) \cup {new}]
    BY <1>1 DEF ReplaceGroup
  <2> HIDE DEF t, a
  <2> QED BY <2>1 DEF WithArray
<1>6. (s.array[a] \ {target}) \cup {new} \in SUBSET Ids /\ c \in States
  BY <1>1, <1>2, GoodIs
<1> HIDE DEF c, t, a
<1>7. t \in States /\ t.array = [s.array EXCEPT ![a] = (s.array[a] \ {target}) \cup {new}] /\ Alike(s, t)
  <2> DEFINE xs == (s.array[a] \ {target}) \cup {new}
  <2>1. s \in States /\ a \in Arrays /\ xs \in SUBSET Ids
    BY <1>1, <1>6
  <2> HIDE DEF xs
  <2>2. t = WithArray(s, a, xs)
    BY <1>5 DEF xs
  <2>3. t \in States /\ t.array = [s.array EXCEPT ![a] = xs] /\ Alike(s, t)
    BY <2>1, <2>2, ArrayPut DEF Alike
  <2> QED BY <2>3 DEF xs
<1>8. v \in States /\ v.array = [c.array EXCEPT ![a] = gs]
  <2>1. c \in States /\ a \in Arrays /\ gs \in SUBSET Ids
    BY <1>1, <1>4, <1>6
  <2> HIDE DEF gs
  <2> QED BY <2>1, ArrayPut
<1>9. t = v
  <2>1. t.array = v.array
    <3>1. v.array = [c.array EXCEPT ![a] = (s.array[a] \ {target}) \cup {new}]
      BY <1>4, <1>8
    <3>2. v.array = [s.array EXCEPT ![a] = (s.array[a] \ {target}) \cup {new}]
      BY <1>1, <1>2, <3>1
    <3> QED BY <1>7, <3>2
  <2>2. Alike(t, v)
    BY <1>2, <1>3, <1>7 DEF Alike
  <2> HIDE DEF v
  <2> QED BY <1>7, <1>8, <2>1, <2>2, SameState
<1>10. (out \cup {target}) \ {new} = (out \ {new}) \cup {target}
  OBVIOUS
<1> QED BY <1>3, <1>7, <1>9, <1>10 DEF t, a

\* A rebuild may wait for any group that stays.
LEMMA RefreshKeeps ==
  ASSUME NEW s, NEW out, Good(s, out), NEW g, g = NULL \/ Firm(s, g, s.position)
  PROVE  LET t == [s EXCEPT !.refresh = g]
         IN  /\ Good(t, out)
             /\ t.alive = s.alive /\ t.made = s.made /\ t.padding = s.padding /\ t.home = s.home
             /\ t.history = s.history /\ t.position = s.position /\ t.refresh = g
             /\ t.shown = s.shown /\ t.array = s.array
<1> DEFINE t == [s EXCEPT !.refresh = g]
<1>1. s \in States /\ g \in Ids \cup {NULL}
  BY GoodIs, StatesIs DEF Firm
<1>2. /\ t \in States /\ t.alive = s.alive /\ t.made = s.made /\ t.padding = s.padding
      /\ t.home = s.home /\ t.history = s.history /\ t.position = s.position /\ t.refresh = g
      /\ t.shown = s.shown /\ t.array = s.array
  BY <1>1 DEF States
<1> HIDE DEF t
<1>3. /\ \A x : In(t, x) <=> In(s, x)
      /\ \A x, k : Firm(t, x, k) <=> Firm(s, x, k)
  BY <1>2, SameHistory DEF Firm
<1>4. Places(t, out) /\ Homes(t) /\ Once(t)
  BY <1>2, <1>3 DEF Good, Places, Homes, Once
<1>5. \A k \in DOMAIN t.history : /\ Placed(t, t.history[k])
                                  /\ \A x \in Names(t.history[k]) : Firm(t, x, k)
  BY <1>2, <1>3 DEF Good, Placed
<1>6. Good(t, out)
  BY <1>2, <1>3, <1>4, <1>5 DEF Good
<1> QED BY <1>2, <1>6 DEF t

LEMMA ShownKeeps ==
  ASSUME NEW s, NEW out, Good(s, out), NEW row \in s.alive \cup {NULL}
  PROVE  LET t == [s EXCEPT !.shown = row]
         IN  /\ Good(t, out)
             /\ t.alive = s.alive /\ t.made = s.made /\ t.padding = s.padding /\ t.home = s.home
             /\ t.history = s.history /\ t.position = s.position /\ t.refresh = s.refresh
             /\ t.shown = row /\ t.array = s.array
<1> DEFINE t == [s EXCEPT !.shown = row]
<1>1. s \in States /\ row \in Ids \cup {NULL} /\ row <= s.made
  <2>1. s \in States /\ s.alive \subseteq Ids /\ s.alive \subseteq 1 .. s.made /\ s.made \in Nat
    BY GoodIs, StatesIs, OwnershipAssumption
  <2> QED BY <2>1 DEF NULL
<1>2. /\ t \in States /\ t.alive = s.alive /\ t.made = s.made /\ t.padding = s.padding
      /\ t.home = s.home /\ t.history = s.history /\ t.position = s.position
      /\ t.refresh = s.refresh /\ t.shown = row /\ t.array = s.array
  BY <1>1 DEF States
<1> HIDE DEF t
<1>3. /\ \A x : In(t, x) <=> In(s, x)
      /\ \A x, k : Firm(t, x, k) <=> Firm(s, x, k)
  BY <1>2, SameHistory DEF Firm
<1>4. Places(t, out) /\ Homes(t) /\ Once(t)
  BY <1>2, <1>3 DEF Good, Places, Homes, Once
<1>5. \A k \in DOMAIN t.history : /\ Placed(t, t.history[k])
                                  /\ \A x \in Names(t.history[k]) : Firm(t, x, k)
  BY <1>2, <1>3 DEF Good, Placed
<1>6. Good(t, out)
  BY <1>1, <1>2, <1>3, <1>4, <1>5 DEF Good
<1> QED BY <1>2, <1>6 DEF t

Shows(s) == s.shown # NULL => s.shown \in InDocument(s)

\* A group that is to be put back by an entry behind the position is gone.
Dropped(s, t) ==
  \E k \in DOMAIN s.history : k > s.position /\ \E g \in Makes(s.history[k]) : g \notin t.alive

\* What one or several operations may do.
Effect(s, t) ==
  /\ Good(t, {})
  /\ s.made <= t.made /\ t.made \in Nat
  /\ t.alive \cap 1 .. s.made \subseteq s.alive
  /\ t.padding \subseteq s.padding
  /\ s.alive \ t.alive \subseteq s.padding \/ Dropped(s, t)

Settled(s, t) ==
  \/ Len(t.history) = t.position
  \/ t.history = s.history /\ t.position = s.position

Stays(s, t) == \A g : Firm(s, g, s.position) => Firm(t, g, t.position)

LEMMA EffectTrans ==
  ASSUME NEW s, NEW t, NEW u, Good(s, {}), Effect(s, t), Settled(s, t), Effect(t, u)
  PROVE  Effect(s, u)
<1>1. /\ s \in States /\ s.alive \subseteq 1 .. s.made /\ s.made \in Nat /\ t.made \in Nat
      /\ s.made <= t.made /\ t.made <= u.made /\ u.made \in Nat
      /\ t.alive \cap 1 .. s.made \subseteq s.alive /\ u.alive \cap 1 .. t.made \subseteq t.alive
      /\ t.padding \subseteq s.padding /\ u.padding \subseteq t.padding /\ Good(u, {})
      /\ t \in States
  BY GoodIs, StatesIs DEF Effect
<1>2. 1 .. s.made \subseteq 1 .. t.made /\ s.made <= u.made
  BY <1>1
<1>3. CASE Dropped(s, t)
  <2>1. PICK k \in DOMAIN s.history : k > s.position /\ \E g \in Makes(s.history[k]) : g \notin t.alive
    BY <1>3 DEF Dropped
  <2>2. PICK g \in Makes(s.history[k]) : g \notin t.alive
    BY <2>1
  <2>3. g \in s.alive
    BY <1>1, StatesIs, EntriesIs, GoodIs DEF Firm
  <2>4. g \notin u.alive
    BY <1>1, <1>2, <2>2, <2>3
  <2>5. Dropped(s, u)
    BY <2>1, <2>4 DEF Dropped
  <2> QED BY <1>1, <1>2, <2>5 DEF Effect
<1>4. CASE s.alive \ t.alive \subseteq s.padding
  <2>1. t.alive \ u.alive \subseteq t.padding \/ Dropped(s, u)
    <3>1. CASE Len(t.history) = t.position
      <4>1. DOMAIN t.history = 1 .. t.position /\ t.position \in Nat
        BY <1>1, <3>1, StatesIs
      <4>2. ~Dropped(t, u)
        BY <4>1 DEF Dropped
      <4> QED BY <4>2 DEF Effect
    <3>2. CASE t.history = s.history /\ t.position = s.position
      BY <3>2 DEF Effect, Dropped
    <3> QED BY <3>1, <3>2 DEF Settled
  <2>2. s.alive \ u.alive \subseteq s.padding \/ Dropped(s, u)
    BY <1>1, <1>4, <2>1
  <2> QED BY <1>1, <1>2, <2>2 DEF Effect
<1> QED BY <1>3, <1>4 DEF Effect

LEMMA EffectSame ==
  ASSUME NEW s, Good(s, {}), NEW t, Good(t, {}), t.alive = s.alive, t.made = s.made,
         t.padding = s.padding
  PROVE  Effect(s, t)
<1>1. s.made \in Nat
  BY GoodIs, StatesIs, OwnershipAssumption
<1> QED BY <1>1 DEF Effect

\* wnd_rebuild_tree selects a row there is.
LEMMA TreeKeeps ==
  ASSUME NEW s, NEW r, Good(r, {}), NEW g, NEW t \in RebuildTree(r, g)
  PROVE  /\ Good(t, {}) /\ Shows(t)
         /\ t.alive = r.alive /\ t.made = r.made /\ t.padding = r.padding /\ t.home = r.home
         /\ t.history = r.history /\ t.position = r.position /\ t.refresh = r.refresh
         /\ t.array = r.array
         /\ Effect(s, r) => Effect(s, t)
         /\ Stays(s, r) => Stays(s, t)
<1>1. PICK row \in InDocument(r) \cup {NULL} : t = [r EXCEPT !.shown = row]
  BY OpenIs DEF RebuildTree
<1>2. row \in r.alive \cup {NULL}
  BY <1>1, OpenIs
<1>3. /\ Good(t, {})
      /\ t.alive = r.alive /\ t.made = r.made /\ t.padding = r.padding /\ t.home = r.home
      /\ t.history = r.history /\ t.position = r.position /\ t.refresh = r.refresh
      /\ t.shown = row /\ t.array = r.array
  BY <1>1, <1>2, ShownKeeps
<1>4. InDocument(t) = InDocument(r)
  BY <1>3 DEF InDocument, Roots
<1>5. Shows(t)
  BY <1>1, <1>3, <1>4 DEF Shows
<1>6. \A x, k : Firm(t, x, k) <=> Firm(r, x, k)
  BY <1>3, SameHistory DEF Firm
<1>7. Effect(s, r) => Effect(s, t)
  BY <1>3 DEF Effect, Dropped
<1>8. Stays(s, r) => Stays(s, t)
  BY <1>3, <1>6 DEF Stays
<1> QED BY <1>3, <1>5, <1>7, <1>8

LEMMA TreeIs ==
  ASSUME NEW s, NEW g
  PROVE  RebuildTree(s, g) # {}
<1>1. PICK row : row \in IF g \in InDocument(s) THEN {g} ELSE Roots(s) \cup {NULL}
  OBVIOUS
<1>2. [s EXCEPT !.shown = row] \in RebuildTree(s, g)
  BY <1>1 DEF RebuildTree
<1> QED BY <1>2

\* The document stays when an entry is recorded.
LEMMA OpenStays ==
  ASSUME NEW s, NEW r, Good(s, {}), Good(r, {}), r.home = s.home,
         \A g \in s.alive : MadeBy(s, g, s.position) /\ MadeBy(s, s.home[g], s.position) =>
                              g \in r.alive,
         \A g \in r.alive : In(r, g) <=> In(s, g)
  PROVE  InDocument(s) \subseteq InDocument(r)
<1> SUFFICES ASSUME NEW g \in InDocument(s) PROVE g \in InDocument(r)
  OBVIOUS
<1>1. g \in s.alive /\ In(s, g) /\ In(s, s.home[g]) /\ s \in States /\ r \in States
  BY OpenIs, GoodIs
<1>2. g \in r.alive
  BY <1>1, InIs
<1>3. r.home[g] \in Blocks \/ r.home[g] \in r.alive
  BY <1>2 DEF Good, Homes
<1>4. In(r, r.home[g])
  BY <1>1, <1>3, OfBlocks
<1> QED BY <1>1, <1>2, <1>4, OpenIs

\* One entry is recorded.
LEMMA RecordKeeps ==
  ASSUME NEW s, NEW out, Good(s, out), NEW es, Recordable(s, out, es), out \subseteq Takes(es[1])
  PROVE  LET r == PushHistory(s, es)
         IN  /\ Good(r, {}) /\ Len(r.history) = r.position /\ Stays(s, r)
             /\ r.made = s.made /\ r.home = s.home /\ r.padding \subseteq s.padding
             /\ r.alive \subseteq s.alive /\ r.refresh = s.refresh /\ r.shown = s.shown
             /\ s.alive \ r.alive \subseteq s.padding \/ Dropped(s, r)
             /\ out = {} => (Shows(s) => Shows(r)) /\ Effect(s, r)
<1> DEFINE r == PushHistory(s, es)
<1>1. \A g \in out : Firm(s, g, s.position)
  <2>1. es[1] \in Entries /\ 1 \in DOMAIN es
    BY RecordableIs
  <2>2. Takes(es[1]) \subseteq Names(es[1])
    BY <2>1, EntriesIs
  <2> QED BY <2>1, <2>2 DEF Recordable
<1>2. /\ Good(r, out \ Takes(es[1]))
      /\ r.made = s.made /\ r.home = s.home /\ r.padding \subseteq s.padding
      /\ r.refresh = s.refresh /\ r.shown = s.shown
      /\ r.alive = DropHistory(s, s.position).alive
      /\ Len(r.history) = r.position
      /\ \A g : Firm(s, g, s.position) => Firm(r, g, r.position)
      /\ \A g \in r.alive : In(r, g) <=> In(s, g) /\ g \notin Takes(es[1])
  BY <1>1, PushKeeps
<1>3. r.alive = {g \in s.alive : MadeBy(s, g, s.position) /\ MadeBy(s, s.home[g], s.position)}
  BY <1>1, <1>2, Survivors
<1> HIDE DEF r
<1>4. Good(r, {})
  <2>1. out \ Takes(es[1]) = {}
    OBVIOUS
  <2> QED BY <1>2, <2>1
<1>5. s.alive \ r.alive \subseteq s.padding \/ Dropped(s, r)
  <2> SUFFICES ASSUME NEW x \in s.alive, x \notin r.alive PROVE Dropped(s, r)
    OBVIOUS
  <2>1. PICK y \in {x, s.home[x]} : ~MadeBy(s, y, s.position)
    BY <1>3
  <2>2. PICK l \in DOMAIN s.history : y \in Makes(s.history[l]) /\ ~(l <= s.position)
    BY <2>1 DEF MadeBy
  <2>3. l > s.position
    BY <2>2, GoodIs, StatesIs
  <2>4. y \notin r.alive
    BY <1>3, <2>1
  <2> QED BY <2>2, <2>3, <2>4 DEF Dropped
<1>6. ASSUME out = {} PROVE (Shows(s) => Shows(r)) /\ Effect(s, r)
  <2>1. Good(s, {})
    BY <1>6
  <2>2. Takes(es[1]) = {}
    BY <1>6 DEF Recordable
  <2>3. InDocument(s) \subseteq InDocument(r)
    <3>1. \A g \in r.alive : In(r, g) <=> In(s, g)
      BY <1>2, <2>2
    <3>2. \A g \in s.alive : MadeBy(s, g, s.position) /\ MadeBy(s, s.home[g], s.position) =>
                               g \in r.alive
      BY <1>3
    <3> QED BY <1>2, <1>4, <2>1, <3>1, <3>2, OpenStays
  <2>4. Shows(s) => Shows(r)
    BY <1>2, <2>3 DEF Shows
  <2>5. s.made \in Nat
    BY GoodIs, StatesIs, OwnershipAssumption
  <2> QED BY <1>2, <1>3, <1>4, <1>5, <2>4, <2>5 DEF Effect
<1> QED BY <1>2, <1>3, <1>4, <1>5, <1>6 DEF r, Stays

LEMMA EntryIs ==
  ASSUME NEW kind \in Kinds, NEW g \in Ids, NEW r \in Ids \cup {NULL}, NEW a \in Arrays \cup {NULL},
         NEW j \in BOOLEAN, kind = "replace" => r # NULL
  PROVE  LET e == Entry(kind, g, r, a, j)
         IN  /\ e \in Entries /\ e.kind = kind /\ e.group = g /\ e.replacement = r /\ e.array = a
             /\ Names(e) = IF kind = "replace" THEN {g, r} ELSE {g}
             /\ Makes(e) = IF kind = "insert" THEN {g} ELSE IF kind = "replace" THEN {r} ELSE {}
             /\ Takes(e) = IF kind \in {"remove", "replace"} THEN {g} ELSE {}
<1> DEFINE e == Entry(kind, g, r, a, j)
<1>1. e = [kind |-> kind, group |-> g, replacement |-> r, array |-> a, joined |-> j]
  BY DEF Entry
<1> HIDE DEF e
<1>2. /\ e \in Entries /\ e.kind = kind /\ e.group = g /\ e.replacement = r /\ e.array = a
  BY <1>1 DEF Entries
<1>3. Names(e) = IF kind = "replace" THEN {g, r} ELSE {g}
  BY <1>2 DEF Names
<1>4. Makes(e) = IF kind = "insert" THEN {g} ELSE IF kind = "replace" THEN {r} ELSE {}
  BY <1>2 DEF Makes
<1>5. Takes(e) = IF kind \in {"remove", "replace"} THEN {g} ELSE {}
  BY <1>2 DEF Takes
<1> QED BY <1>2, <1>3, <1>4, <1>5 DEF e

LEMMA OneEntry ==
  ASSUME NEW s, NEW out, NEW e \in Entries, Placed(s, e),
         \A g \in Names(e) : Firm(s, g, s.position),
         \A g \in Takes(e) : g \in out /\ In(s, g),
         \A g \in Makes(e), k \in DOMAIN s.history :
           \A x \in Names(s.history[k]) : x # g /\ s.home[x] # g
  PROVE  Recordable(s, out, <<e>>) /\ <<e>>[1] = e /\ Len(<<e>>) = 1
BY DEF Recordable

\* A new group is put into the document.
LEMMA InsertedKeeps ==
  ASSUME NEW s, Good(s, {}), NEW a \in Arrays, NEW count \in Nat, New(s) + count <= MaxGroups,
         \/ a \in Blocks
         \/ a \in s.alive \ s.padding /\ s.home[a] \in Blocks /\ count = 0,
         MadeBy(s, a, s.position), NEW u \in Inserted(s, a, count)
  PROVE  Effect(s, u) /\ Shows(u) /\ u.refresh = s.refresh /\ Len(u.history) = u.position
<1> DEFINE n == New(s)
           m == Make(s, a, count)
           j == FALSE
           e == Entry("insert", n, NULL, a, j)
<1>1a. Good(m, {n}) /\ Fresh(s, m, n, a)
  <2> DEFINE o == {}
  <2>1. o \cup {n} = {n} /\ Good(s, o)
    OBVIOUS
  <2> HIDE DEF o
  <2>2. n = New(s) /\ m = Make(s, a, count) /\ n + count <= MaxGroups
    OBVIOUS
  <2> HIDE DEF n, m
  <2>3. Good(m, o \cup {n}) /\ Fresh(s, m, n, a)
    BY <2>1, <2>2, MakeKeeps
  <2> QED BY <2>1, <2>3
<1>1. /\ Good(m, {n}) /\ n \in m.alive \ m.padding /\ n \notin s.alive
      /\ s.alive \subseteq m.alive /\ m.home[n] = a
      /\ s.made <= m.made /\ m.alive \cap 1 .. s.made \subseteq s.alive
      /\ \A x \in s.alive : m.home[x] = s.home[x]
      /\ m.padding = s.padding /\ m.history = s.history /\ m.position = s.position
      /\ m.refresh = s.refresh
      /\ \A x, k : Firm(s, x, k) => Firm(m, x, k)
      /\ \A k : MadeBy(m, n, k)
      /\ In(m, n)
      /\ \A k \in DOMAIN s.history : \A x \in Names(s.history[k]) : x # n /\ s.home[x] # n
  BY <1>1a DEF Fresh
<1>2. PICK t \in Insert(m, a, n) : u \in RebuildTree(PushHistory(t, <<e>>), n)
  BY DEF Inserted
<1> HIDE DEF n, m
<1>3. /\ Good(t, {}) /\ m.alive \ m.padding \subseteq t.alive /\ t.alive \subseteq m.alive
      /\ t.made = m.made /\ t.home = m.home
      /\ t.padding \subseteq m.padding /\ t.history = m.history
      /\ t.position = m.position /\ t.refresh = m.refresh
      /\ \A x, k : Firm(m, x, k) => Firm(t, x, k)
  <2> DEFINE o == {n}
  <2>1. o \ {n} = {} /\ n \in o /\ Good(m, o) /\ n \notin m.padding /\ In(m, n) /\ m.home[n] = a
    BY <1>1
  <2> HIDE DEF o
  <2>2. /\ Good(t, o \ {n}) /\ m.alive \ m.padding \subseteq t.alive /\ t.alive \subseteq m.alive
        /\ t.made = m.made /\ t.home = m.home
        /\ t.padding \subseteq m.padding /\ t.history = m.history
        /\ t.position = m.position /\ t.refresh = m.refresh
        /\ \A x, k : Firm(m, x, k) => Firm(t, x, k)
    BY <1>2, <2>1, InsertKeeps
  <2> QED BY <2>1, <2>2
<1>4. MadeBy(m, a, s.position)
  BY <1>1, SameHistory
<1>5. Firm(t, n, t.position)
  BY <1>1, <1>3, <1>4 DEF Firm
<1>6. /\ m.made \in Nat /\ n \in Ids /\ s \in States /\ s.made \in Nat
  <2>1. m \in States /\ m.alive \subseteq Ids /\ s \in States
    BY <1>1, GoodIs, StatesIs
  <2> QED BY <1>1, <2>1, StatesIs, OwnershipAssumption
<1>7. Effect(s, t)
  BY <1>1, <1>3, <1>6 DEF Effect
<1>8. /\ e \in Entries /\ e.kind = "insert" /\ e.group = n /\ e.array = a
      /\ Names(e) = {n} /\ Makes(e) = {n} /\ Takes(e) = {}
  <2>1. "insert" \in Kinds /\ n \in Ids /\ NULL \in Ids \cup {NULL} /\ a \in Arrays \cup {NULL}
    BY <1>6 DEF Kinds
  <2>2. j \in BOOLEAN
    OBVIOUS
  <2> HIDE DEF j
  <2> QED BY <2>1, <2>2, EntryIs
<1> HIDE DEF e
<1>9. Placed(t, e)
  BY <1>1, <1>3, <1>8 DEF Placed
<1>10. ASSUME NEW g \in Makes(e), NEW k \in DOMAIN t.history, NEW x \in Names(t.history[k])
       PROVE  x # g /\ t.home[x] # g
  <2>1. k \in DOMAIN s.history /\ x \in Names(s.history[k]) /\ x \in s.alive
    BY <1>1, <1>3, GoodIs DEF Firm
  <2> QED BY <1>1, <1>3, <1>8, <2>1
<1>11. Recordable(t, {}, <<e>>)
  <2>1. (\A g \in Names(e) : Firm(t, g, t.position)) /\ \A g \in Takes(e) : g \in {} /\ In(t, g)
    BY <1>5, <1>8
  <2> QED BY <1>8, <1>9, <1>10, <2>1, OneEntry
<1> DEFINE r == PushHistory(t, <<e>>)
<1>12. Good(r, {}) /\ Len(r.history) = r.position /\ r.refresh = t.refresh /\ Effect(t, r)
  <2>1. {} \subseteq Takes(<<e>>[1])
    OBVIOUS
  <2> QED BY <1>3, <1>11, <2>1, RecordKeeps
<1> HIDE DEF r
<1>13. Effect(s, r)
  <2>1. Settled(s, t)
    BY <1>1, <1>3 DEF Settled
  <2> QED BY <1>7, <1>12, <2>1, EffectTrans
<1>14. u \in RebuildTree(r, n)
  BY <1>2 DEF r
<1> QED BY <1>1, <1>3, <1>12, <1>13, <1>14, TreeKeeps

\* The rebuild of a group: the new one takes the place of the target.
LEMMA RebuiltKeeps ==
  ASSUME NEW s, Good(s, {}), NEW target, ParentAr(s, target) # NULL, target \notin s.padding,
         MadeBy(s, s.home[target], s.position),
         NEW count \in Nat, count # 0 => s.home[target] \in Blocks, New(s) + count <= MaxGroups,
         NEW g, NEW joined \in BOOLEAN, NEW u \in Rebuilt(s, g, target, count, joined)
  PROVE  Effect(s, u) /\ Shows(u) /\ u.refresh = s.refresh /\ Stays(s, u)
         /\ Len(u.history) = u.position
<1> DEFINE a == s.home[target]
           n == New(s)
           m == Make(s, a, count)
           w == ReplaceGroup(m, target, n)
           e == Entry("replace", target, n, a, joined)
           r == PushHistory(w, <<e>>)
<1>1. /\ target \in s.alive /\ In(s, target) /\ ParentAr(s, target) = a /\ a \in Arrays
      /\ target \in Ids /\ s \in States /\ s.made \in Nat
  BY ParentIs, GoodIs, StatesIs, OwnershipAssumption
<1>2. a \in Blocks \/ (a \in s.alive \ s.padding /\ s.home[a] \in Blocks /\ count = 0)
  <2>1. /\ a \in Blocks \cup (s.alive \ s.padding)
        /\ a \in Ids => s.home[a] \in Blocks
    BY <1>1, GoodIs DEF Homes
  <2> QED BY <1>1, <2>1 DEF Arrays
<1>3. \E row : u \in RebuildTree(r, row)
  BY <1>1 DEF Rebuilt
<1> HIDE DEF a
<1>4a. Good(m, {n}) /\ Fresh(s, m, n, a)
  <2> DEFINE o == {}
  <2>1. o \cup {n} = {n} /\ Good(s, o)
    OBVIOUS
  <2> HIDE DEF o
  <2>2. n = New(s) /\ m = Make(s, a, count) /\ n + count <= MaxGroups /\ a \in Arrays
        /\ (a \in Blocks \/ (a \in s.alive \ s.padding /\ s.home[a] \in Blocks /\ count = 0))
    BY <1>1, <1>2
  <2> HIDE DEF n, m
  <2>3. Good(m, o \cup {n}) /\ Fresh(s, m, n, a)
    BY <2>1, <2>2, MakeKeeps
  <2> QED BY <2>1, <2>3
<1>4. /\ Good(m, {n}) /\ n \in m.alive \ m.padding /\ n \notin s.alive
      /\ s.alive \subseteq m.alive /\ m.home[n] = a
      /\ s.made <= m.made /\ m.alive \cap 1 .. s.made \subseteq s.alive
      /\ \A x \in s.alive : m.home[x] = s.home[x]
      /\ m.padding = s.padding /\ m.history = s.history /\ m.position = s.position
      /\ m.refresh = s.refresh
      /\ \A x, k : Firm(s, x, k) => Firm(m, x, k)
      /\ \A k : MadeBy(m, n, k)
      /\ In(m, n)
      /\ \A k \in DOMAIN s.history : \A x \in Names(s.history[k]) : x # n /\ s.home[x] # n
  BY <1>4a DEF Fresh
<1> HIDE DEF n, m
<1>5. /\ \A x : In(m, x) <=> In(s, x)
      /\ \A x, k : MadeBy(m, x, k) <=> MadeBy(s, x, k)
  BY <1>4, SameHistory
<1>6. m.home[target] = a /\ target # n /\ In(m, target) /\ target \in m.alive \ {n}
  BY <1>1, <1>4, <1>5 DEF a
<1>7. Good(w, {target}) /\ Alike(m, w)
  <2>1. n \in {n} /\ m.home[n] = m.home[target] /\ ({n} \ {n}) \cup {target} = {target}
    BY <1>4, <1>6
  <2> HIDE DEF w
  <2>2. Good(w, ({n} \ {n}) \cup {target}) /\ Alike(m, w)
    BY <1>4, <1>6, <2>1, ReplaceKeeps DEF w
  <2> QED BY <2>1, <2>2
<1> HIDE DEF w
<1>8. /\ \A x : In(w, x) <=> In(m, x)
      /\ \A x, k : Firm(w, x, k) <=> Firm(m, x, k)
  BY <1>7, AlikeKeeps
<1>9. Firm(w, target, w.position) /\ Firm(w, n, w.position) /\ In(w, target)
  <2>1. MadeBy(m, target, s.position) /\ MadeBy(m, a, s.position)
    BY <1>1, <1>5, InIs DEF a
  <2>2. Firm(m, target, m.position) /\ Firm(m, n, m.position)
    BY <1>4, <1>6, <2>1 DEF Firm
  <2> QED BY <1>6, <1>7, <1>8, <2>2 DEF Alike
<1>10. n \in Ids /\ m.made \in Nat
  <2>1. m \in States
    BY <1>4, GoodIs
  <2> QED BY <1>4, <2>1, StatesIs, OwnershipAssumption
<1>11. /\ e \in Entries /\ e.kind = "replace" /\ e.group = target /\ e.array = a /\ e.replacement = n
       /\ Names(e) = {target, n} /\ Makes(e) = {n} /\ Takes(e) = {target}
  <2>1. "replace" \in Kinds /\ n # NULL /\ n \in Ids \cup {NULL} /\ a \in Arrays \cup {NULL}
    BY <1>1, <1>10, Numbers DEF Kinds
  <2> QED BY <1>1, <2>1, EntryIs
<1> HIDE DEF e
<1>12. Placed(w, e)
  BY <1>4, <1>6, <1>7, <1>11 DEF Placed, Alike
<1>13. ASSUME NEW x \in Makes(e), NEW k \in DOMAIN w.history, NEW y \in Names(w.history[k])
       PROVE  y # x /\ w.home[y] # x
  <2>1. k \in DOMAIN s.history /\ y \in Names(s.history[k]) /\ y \in s.alive
    BY <1>4, <1>7, GoodIs DEF Firm, Alike
  <2> QED BY <1>4, <1>7, <1>11, <2>1 DEF Alike
<1>14. Recordable(w, {target}, <<e>>) /\ <<e>>[1] = e
  <2>1. (\A x \in Names(e) : Firm(w, x, w.position)) /\ \A x \in Takes(e) : x \in {target} /\ In(w, x)
    BY <1>9, <1>11
  <2> QED BY <1>11, <1>12, <1>13, <2>1, OneEntry
<1>15. /\ Good(r, {}) /\ Len(r.history) = r.position /\ Stays(w, r)
       /\ r.made = w.made /\ r.padding \subseteq w.padding
       /\ r.alive \subseteq w.alive /\ r.refresh = w.refresh
       /\ w.alive \ r.alive \subseteq w.padding \/ Dropped(w, r)
  <2>1. {target} \subseteq Takes(<<e>>[1])
    BY <1>11, <1>14
  <2> QED BY <1>7, <1>14, <2>1, RecordKeeps
<1> HIDE DEF r
<1>16. Effect(s, r)
  <2>1. r.alive \cap 1 .. s.made \subseteq s.alive /\ r.padding \subseteq s.padding
        /\ s.made <= r.made /\ r.made \in Nat
    BY <1>4, <1>7, <1>10, <1>15 DEF Alike
  <2>2. s.alive \ r.alive \subseteq s.padding \/ Dropped(s, r)
    BY <1>4, <1>7, <1>15 DEF Alike, Dropped
  <2> QED BY <1>15, <2>1, <2>2 DEF Effect
<1>17. Stays(s, r)
  BY <1>4, <1>7, <1>8, <1>15 DEF Stays, Alike
<1>18. r.refresh = s.refresh
  BY <1>4, <1>7, <1>15 DEF Alike
<1> QED BY <1>3, <1>15, <1>16, <1>17, <1>18, TreeKeeps

Forgotten(s) == WithHistory(s, SubSeq(s.history, 1, s.position - 1), s.position - 1)

LEMMA ForgottenIs ==
  ASSUME NEW s, Good(s, {}), NEW g, LastWrites(s, g)
  PROVE  /\ Forgotten(s) \in States
         /\ Forgotten(s).history = SubSeq(s.history, 1, s.position - 1)
         /\ Forgotten(s).position = s.position - 1
         /\ Forgotten(s).array = s.array /\ Forgotten(s).alive = s.alive
         /\ Forgotten(s).made = s.made /\ Forgotten(s).padding = s.padding
         /\ Forgotten(s).home = s.home /\ Forgotten(s).refresh = s.refresh
         /\ Forgotten(s).shown = s.shown
         /\ Forgotten(s) = [s EXCEPT !.history = SubSeq(@, 1, s.position - 1), !.position = @ - 1]
         /\ Forgotten(s) = DropHistory([s EXCEPT !.position = @ - 1], s.position - 1)
<1> DEFINE p == s.position
           q == SubSeq(s.history, 1, p - 1)
           f == Forgotten(s)
           u == [s EXCEPT !.position = p - 1]
           d == DropHistory(u, p - 1)
<1>1. /\ s \in States /\ s.history \in Seq(Entries) /\ p \in Nat \ {0} /\ p = Len(s.history)
      /\ p \in DOMAIN s.history /\ s.history[p].kind = "field"
  BY GoodIs, StatesIs DEF LastWrites
<1>2. q \in Seq(Entries) /\ p - 1 \in Nat
  BY <1>1
<1>3. /\ f \in States /\ f.history = q /\ f.position = p - 1
      /\ f.array = s.array /\ f.alive = s.alive /\ f.made = s.made
      /\ f.padding = s.padding /\ f.home = s.home /\ f.refresh = s.refresh /\ f.shown = s.shown
  <2> HIDE DEF q, p
  <2>1. f = WithHistory(s, q, p - 1)
    BY DEF Forgotten, q, p
  <2>2. s \in States /\ q \in Seq(Entries) /\ p - 1 \in Nat
    BY <1>1, <1>2
  <2> HIDE DEF f
  <2> QED BY <2>1, <2>2, HistoryPut
<1>4. f = [s EXCEPT !.history = SubSeq(@, 1, s.position - 1), !.position = @ - 1]
  BY DEF Forgotten, WithHistory
<1>5. /\ u \in States /\ u.history = s.history /\ u.position = p - 1
      /\ u.array = s.array /\ u.alive = s.alive /\ u.made = s.made
      /\ u.padding = s.padding /\ u.home = s.home /\ u.refresh = s.refresh /\ u.shown = s.shown
  <2> HIDE DEF p
  <2> QED BY <1>1, <1>2 DEF States
<1> HIDE DEF u, f, q
<1> DEFINE gone == UNION {Owned(u, i) : i \in p - 1 + 1 .. Len(u.history)}
<1>6. gone = {}
  <2> SUFFICES ASSUME NEW i \in p - 1 + 1 .. Len(u.history) PROVE Owned(u, i) = {}
    OBVIOUS
  <2>1. i = p /\ i \in DOMAIN u.history
    BY <1>1, <1>5
  <2>2. Owned(u, i) = IF i <= u.position THEN Takes(u.history[i]) ELSE Makes(u.history[i])
    BY <1>5, <2>1, KindsOf
  <2>3. Takes(u.history[i]) = {} /\ Makes(u.history[i]) = {}
    BY <1>1, <1>5, <2>1 DEF Takes, Makes
  <2> QED BY <2>2, <2>3
<1>7. /\ d \in States
      /\ d.alive = u.alive \ Gone(u, gone) /\ d.padding = u.padding \ Gone(u, gone)
      /\ d.array = [a \in Arrays |-> IF a \in Gone(u, gone) THEN {} ELSE u.array[a]]
      /\ d.made = u.made /\ d.home = u.home
      /\ d.history = SubSeq(u.history, 1, p - 1)
      /\ d.position = u.position /\ d.refresh = u.refresh /\ d.shown = u.shown
  <2>1. p - 1 \in 0 .. Len(u.history)
    BY <1>1, <1>5
  <2> QED BY <1>5, <2>1, DropIs
<1> HIDE DEF d
<1>8. Gone(u, gone) = {}
  BY <1>6 DEF Gone
<1>9. d.array = s.array
  BY <1>1, <1>5, <1>7, <1>8, StatesIs
<1>10. f = d
  <2>1. Alike(f, d) /\ f.array = d.array
    BY <1>3, <1>5, <1>7, <1>8, <1>9 DEF Alike, q
  <2> QED BY <1>3, <1>7, <2>1, SameState
<1>11. d = DropHistory([s EXCEPT !.position = @ - 1], s.position - 1)
  BY DEF d, u, p
<1> QED BY <1>3, <1>4, <1>10, <1>11 DEF f, p, q

\* The newest write is taken back, and its entry dropped.
LEMMA ForgetKeeps ==
  ASSUME NEW s, Good(s, {}), NEW g, LastWrites(s, g), NEW r, r = Forgotten(s)
  PROVE  /\ Effect(s, r) /\ Stays(s, r) /\ Len(r.history) = r.position
         /\ r.refresh = s.refresh /\ r.shown = s.shown
         /\ InDocument(r) = InDocument(s)
<1> DEFINE p == s.position
<1>1. /\ s \in States /\ s.history \in Seq(Entries) /\ p \in Nat \ {0} /\ p = Len(s.history)
      /\ s.history[p].kind = "field"
  BY GoodIs, StatesIs DEF LastWrites
<1>2. /\ r \in States /\ r.history = SubSeq(s.history, 1, p - 1) /\ r.position = p - 1
      /\ r.array = s.array /\ r.alive = s.alive /\ r.made = s.made
      /\ r.padding = s.padding /\ r.home = s.home /\ r.refresh = s.refresh
      /\ r.shown = s.shown
  BY ForgottenIs
<1>3. /\ Len(r.history) = p - 1 /\ DOMAIN r.history = 1 .. p - 1 /\ DOMAIN s.history = 1 .. p
      /\ \A k \in 1 .. p - 1 : r.history[k] = s.history[k]
  BY <1>1, <1>2
<1>4. Makes(s.history[p]) = {} /\ Takes(s.history[p]) = {}
  BY <1>1 DEF Makes, Takes
<1> HIDE DEF p
<1>5. \A k \in 1 .. p : k \in 1 .. p - 1 \/ k = p
  BY <1>1
<1>6. 1 .. p - 1 \subseteq 1 .. p
  BY <1>1
<1>7. ASSUME NEW x, NEW k PROVE MadeBy(r, x, k) <=> MadeBy(s, x, k)
  BY <1>3, <1>4, <1>5, <1>6 DEF MadeBy
<1>8. ASSUME NEW x PROVE MadeBy(s, x, p) /\ MadeBy(s, x, p - 1)
  <2>1. ASSUME NEW l \in 1 .. p, x \in Makes(s.history[l]) PROVE l <= p /\ l <= p - 1
    <3>1. l # p
      BY <1>4, <2>1
    <3> QED BY <1>1, <3>1
  <2> QED BY <1>3, <2>1 DEF MadeBy
<1>9. ASSUME NEW x PROVE In(r, x) <=> In(s, x)
  <2>1. In(r, x) <=> /\ MadeBy(r, x, p - 1)
                     /\ \A k \in 1 .. p - 1 : k <= p - 1 => x \notin Takes(s.history[k])
    BY <1>2, <1>3, InIs
  <2>2. In(s, x) <=> /\ MadeBy(s, x, p)
                     /\ \A k \in 1 .. p : k <= p => x \notin Takes(s.history[k])
    BY <1>1, <1>3, InIs DEF p
  <2>3. (\A k \in 1 .. p : k <= p => x \notin Takes(s.history[k]))
          <=> (\A k \in 1 .. p - 1 : k <= p - 1 => x \notin Takes(s.history[k]))
    <3>1. ASSUME \A k \in 1 .. p : k <= p => x \notin Takes(s.history[k]), NEW k \in 1 .. p - 1
          PROVE  x \notin Takes(s.history[k])
      <4>1. k \in 1 .. p /\ k <= p
        BY <1>1
      <4> QED BY <3>1, <4>1
    <3>2. ASSUME \A k \in 1 .. p - 1 : k <= p - 1 => x \notin Takes(s.history[k]), NEW k \in 1 .. p
          PROVE  x \notin Takes(s.history[k])
      <4>1. CASE k = p
        BY <1>4, <4>1
      <4>2. CASE k # p
        <5>1. k \in 1 .. p - 1 /\ k <= p - 1
          BY <1>1, <4>2
        <5> QED BY <3>2, <5>1
      <4> QED BY <4>1, <4>2
    <3> QED BY <3>1, <3>2
  <2> QED BY <1>7, <1>8, <2>1, <2>2, <2>3
<1>10. ASSUME NEW x, NEW k PROVE Firm(r, x, k) <=> Firm(s, x, k)
  BY <1>2, <1>7 DEF Firm
<1>11. ASSUME NEW x, Firm(s, x, p) PROVE Firm(r, x, p - 1)
  BY <1>2, <1>7, <1>8, <1>11 DEF Firm
<1>12. Places(r, {}) /\ Homes(r)
  BY <1>2, <1>9 DEF Good, Places, Homes
<1>13. Once(r)
  BY <1>3, <1>6 DEF Good, Once
<1>14. ASSUME NEW k \in DOMAIN r.history
       PROVE  Placed(r, r.history[k]) /\ \A x \in Names(r.history[k]) : Firm(r, x, k)
  <2>1. k \in DOMAIN s.history /\ r.history[k] = s.history[k]
    BY <1>3, <1>6
  <2>2. Placed(s, s.history[k]) /\ \A x \in Names(s.history[k]) : Firm(s, x, k)
    BY <2>1, GoodIs
  <2> QED BY <1>2, <1>10, <2>1, <2>2 DEF Placed
<1>15. r.position <= Len(r.history) /\ (r.refresh # NULL => Firm(r, r.refresh, r.position))
  BY <1>1, <1>2, <1>3, <1>11, GoodIs DEF p
<1>16. Good(r, {})
  BY <1>2, <1>12, <1>13, <1>14, <1>15 DEF Good
<1>17. InDocument(r) = InDocument(s)
  BY <1>2 DEF InDocument, Roots
<1>18. Stays(s, r)
  BY <1>2, <1>11 DEF Stays, p
<1> QED BY <1>2, <1>3, <1>16, <1>17, <1>18, EffectSame

LEMMA StaysTrans ==
  ASSUME NEW s, NEW t, NEW u, Stays(s, t), Stays(t, u)
  PROVE  Stays(s, u)
BY DEF Stays

\* The rebuild that waits is done or refused.
LEMMA FlushKeeps ==
  ASSUME NEW s, Good(s, {}), NEW t \in FlushRefresh(s)
  PROVE  /\ Effect(s, t) /\ Settled(s, t) /\ Stays(s, t)
         /\ t.refresh = NULL /\ (Shows(s) => Shows(t))
<1> DEFINE g    == s.refresh
           rest == [s EXCEPT !.refresh = NULL]
<1>1. /\ Good(rest, {})
      /\ rest.alive = s.alive /\ rest.made = s.made /\ rest.padding = s.padding
      /\ rest.home = s.home /\ rest.history = s.history /\ rest.position = s.position
      /\ rest.refresh = NULL /\ rest.shown = s.shown /\ rest.array = s.array
  BY RefreshKeeps
<1> HIDE DEF rest
<1>2. /\ \A x : In(rest, x) <=> In(s, x)
      /\ \A x, k : MadeBy(rest, x, k) <=> MadeBy(s, x, k)
      /\ \A x, k : Firm(rest, x, k) <=> Firm(s, x, k)
  BY <1>1, SameHistory DEF Firm
<1>3. Effect(s, rest) /\ Settled(s, rest) /\ Stays(s, rest)
  BY <1>1, <1>2, EffectSame DEF Settled, Stays
<1>4. InDocument(rest) = InDocument(s) /\ (Shows(s) => Shows(rest))
  BY <1>1 DEF InDocument, Roots, Shows
<1>5. CASE t = rest
  BY <1>1, <1>3, <1>4, <1>5
<1>6. CASE LastWrites(s, g) /\ t = DropHistory([rest EXCEPT !.position = @ - 1], s.position - 1)
  <2>1. LastWrites(rest, g)
    BY <1>1, <1>6 DEF LastWrites
  <2>2. t = Forgotten(rest)
    BY <1>1, <1>6, <2>1, ForgottenIs
  <2>3. /\ Effect(rest, t) /\ Stays(rest, t) /\ Len(t.history) = t.position
        /\ t.refresh = NULL /\ t.shown = rest.shown /\ InDocument(t) = InDocument(rest)
    BY <1>1, <2>1, <2>2, ForgetKeeps
  <2>4. Effect(s, t) /\ Stays(s, t)
    BY <1>3, <2>3, EffectTrans, StaysTrans
  <2> QED BY <1>1, <1>4, <2>3, <2>4 DEF Settled, Shows
<1>7. CASE g # NULL /\ \E target \in Targets(s, g) :
             \E count \in {n \in Counts(ParentAr(s, target)) : New(s) + n <= MaxGroups} :
               \E joined \in BOOLEAN : t \in Rebuilt(rest, g, target, count, joined)
  <2>9. PICK target \in Targets(s, g) :
             \E count \in {n \in Counts(ParentAr(s, target)) : New(s) + n <= MaxGroups} :
               \E joined \in BOOLEAN : t \in Rebuilt(rest, g, target, count, joined)
    BY <1>7
  <2>1. PICK count \in {n \in Counts(ParentAr(s, target)) : New(s) + n <= MaxGroups} :
               \E joined \in BOOLEAN : t \in Rebuilt(rest, g, target, count, joined)
    BY <2>9
  <2>2. /\ target \in Ids /\ ParentAr(s, target) # NULL
        /\ target = g \/ target = ParentAr(s, g)
    BY <2>9 DEF Targets
  <2>3. ParentAr(s, target) = s.home[target] /\ Firm(s, g, s.position) /\ s \in States
    BY <1>7, <2>2, ParentIs, GoodIs
  <2>4. target \notin s.padding /\ MadeBy(s, s.home[target], s.position)
    <3>1. CASE target = g
      BY <2>3, <3>1 DEF Firm
    <3>2. CASE target = ParentAr(s, g)
      <4>1. target = s.home[g] /\ g \in s.alive
        BY <2>2, <2>3, <3>2, ParentIs, Numbers DEF Firm
      <4>2. target \notin s.padding /\ s.home[target] \in Blocks
        BY <2>2, <4>1, GoodIs, Numbers DEF Homes
      <4> QED BY <2>3, <4>2, OfBlocks
    <3> QED BY <2>2, <3>1, <3>2
  <2>5. /\ count \in Nat /\ New(s) + count <= MaxGroups
        /\ count # 0 => s.home[target] \in Blocks
    BY <2>1, <2>3, OwnershipAssumption DEF Counts
  <2>6. /\ ParentAr(rest, target) # NULL /\ target \notin rest.padding
        /\ MadeBy(rest, rest.home[target], rest.position) /\ New(rest) + count <= MaxGroups
        /\ count # 0 => rest.home[target] \in Blocks
    <3>1. ParentAr(rest, target) = ParentAr(s, target) /\ New(rest) = New(s)
      BY <1>1 DEF ParentAr, New
    <3> QED BY <1>1, <1>2, <2>2, <2>4, <2>5, <3>1
  <2>7. Effect(rest, t) /\ Shows(t) /\ t.refresh = rest.refresh /\ Stays(rest, t)
        /\ Len(t.history) = t.position
    BY <1>1, <2>1, <2>5, <2>6, RebuiltKeeps
  <2>8. Effect(s, t) /\ Stays(s, t)
    BY <1>3, <2>7, EffectTrans, StaysTrans
  <2> QED BY <1>1, <2>7, <2>8 DEF Settled
<1> DEFINE writes  == {FALSE} \cup (IF LastWrites(s, g) THEN {TRUE} ELSE {})
           sizes(target) == {n \in Counts(ParentAr(s, target)) : New(s) + n <= MaxGroups}
           rebuilt == UNION {UNION {UNION {Rebuilt(rest, g, target, count, joined) :
                        joined \in writes} : count \in sizes(target)} : target \in Targets(s, g)}
<1>8. FlushRefresh(s) = {rest}
        \cup (IF g # NULL /\ LastWrites(s, g)
              THEN {DropHistory([rest EXCEPT !.position = @ - 1], s.position - 1)} ELSE {})
        \cup (IF g = NULL THEN {} ELSE rebuilt)
  BY DEF FlushRefresh, rest
<1> HIDE DEF rebuilt, writes, sizes
<1>9. \/ t = rest
      \/ LastWrites(s, g) /\ t = DropHistory([rest EXCEPT !.position = @ - 1], s.position - 1)
      \/ g # NULL /\ t \in rebuilt
  BY <1>8
<1>10. CASE g # NULL /\ t \in rebuilt
  <2>1. PICK target \in Targets(s, g) : \E count \in sizes(target) : \E joined \in writes :
               t \in Rebuilt(rest, g, target, count, joined)
    BY <1>10 DEF rebuilt
  <2>2. writes \subseteq BOOLEAN
    BY DEF writes
  <2> QED BY <1>7, <1>10, <2>1, <2>2 DEF sizes
<1> QED BY <1>5, <1>6, <1>9, <1>10

(***************************************************************************)
(* Undo and redo.                                                          *)
(***************************************************************************)
Leaving(e, redo) == IF redo THEN Takes(e) ELSE Makes(e)
Coming(e, redo)  == IF redo THEN Makes(e) ELSE Takes(e)

At(s, redo) == [s EXCEPT !.position = IF redo THEN @ + 1 ELSE @ - 1]

AtPosition(s, redo) == IF redo THEN s.position + 1 ELSE s.position - 1

LEMMA AtIs ==
  ASSUME NEW s \in States, NEW redo \in BOOLEAN, redo \/ s.position > 0
  PROVE  /\ At(s, redo) \in States /\ At(s, redo).position = AtPosition(s, redo)
         /\ At(s, redo).array = s.array /\ At(s, redo).alive = s.alive
         /\ At(s, redo).made = s.made /\ At(s, redo).padding = s.padding
         /\ At(s, redo).home = s.home /\ At(s, redo).history = s.history
         /\ At(s, redo).refresh = s.refresh /\ At(s, redo).shown = s.shown
<1>1. AtPosition(s, redo) \in Nat
  BY StatesIs DEF AtPosition
<1>2. At(s, redo) = [s EXCEPT !.position = AtPosition(s, redo)]
  BY DEF At, AtPosition
<1> QED BY <1>1, <1>2 DEF States

LEMMA StepIs ==
  ASSUME NEW s, NEW out, Good(s, out), NEW redo \in BOOLEAN, CanStep(s, redo),
         NEW e, e = StepEntry(s, redo)
  PROVE  LET k == IF redo THEN s.position + 1 ELSE s.position
         IN  /\ k \in DOMAIN s.history /\ k \in Nat /\ e = s.history[k] /\ e \in Entries
             /\ Placed(s, e) /\ \A g \in Names(e) : Firm(s, g, k)
             /\ Makes(e) \cap Takes(e) = {} /\ (redo \/ s.position > 0)
<1> DEFINE k == IF redo THEN s.position + 1 ELSE s.position
<1>1. k \in DOMAIN s.history /\ k \in Nat /\ (redo \/ s.position > 0)
  BY GoodIs, StatesIs DEF CanStep
<1>2. e = s.history[k]
  BY DEF StepEntry
<1> HIDE DEF k
<1>3. e \in Entries /\ Placed(s, e) /\ \A g \in Names(e) : Firm(s, g, k)
  BY <1>1, <1>2, GoodIs, StatesIs
<1>4. Makes(e) \cap Takes(e) = {}
  BY <1>3 DEF Placed, Makes, Takes
<1> QED BY <1>1, <1>2, <1>3, <1>4 DEF k

\* What the step moves: what leaves was in its array, what comes was not.
LEMMA StepIn ==
  ASSUME NEW s, NEW out, Good(s, out), NEW redo \in BOOLEAN, CanStep(s, redo),
         NEW e, e = StepEntry(s, redo)
  PROVE  /\ \A g \in Leaving(e, redo) : In(s, g)
         /\ \A g \in Coming(e, redo) : ~In(s, g)
         /\ \A g : In(At(s, redo), g) <=>
                     \/ In(s, g) /\ g \notin Leaving(e, redo)
                     \/ g \in Coming(e, redo)
<1> DEFINE p == s.position
           k == IF redo THEN p + 1 ELSE p
           u == At(s, redo)
<1>1. /\ k \in DOMAIN s.history /\ k \in Nat /\ e = s.history[k] /\ e \in Entries
      /\ Placed(s, e) /\ \A g \in Names(e) : Firm(s, g, k)
      /\ Makes(e) \cap Takes(e) = {} /\ (redo \/ p > 0)
  BY StepIs
<1>2. /\ s \in States /\ p \in Nat /\ Once(s) /\ \A l \in DOMAIN s.history : l \in Nat
      /\ \A l \in DOMAIN s.history : /\ \A g \in Names(s.history[l]) : Firm(s, g, l)
                                     /\ Makes(s.history[l]) \subseteq Ids
                                     /\ Takes(s.history[l]) \subseteq Ids
                                     /\ Makes(s.history[l]) \subseteq Names(s.history[l])
                                     /\ Takes(s.history[l]) \subseteq Names(s.history[l])
  BY GoodIs, StatesIs, EntriesIs
<1>3. u \in States /\ u.history = s.history /\ u.position = AtPosition(s, redo)
  BY <1>1, <1>2, AtIs
<1> HIDE DEF u, k
\* A group is taken out behind the entry that makes it.
<1>4. ASSUME NEW g, NEW l \in DOMAIN s.history, g \in Makes(s.history[l]),
             NEW i \in DOMAIN s.history, g \in Names(s.history[i])
      PROVE  l <= i
  BY <1>2, <1>4 DEF Firm, MadeBy
<1>5. ASSUME NEW g, NEW i \in DOMAIN s.history, NEW l \in DOMAIN s.history
      PROVE  /\ g \in Makes(s.history[i]) /\ g \in Makes(s.history[l]) => i = l
             /\ g \in Takes(s.history[i]) /\ g \in Takes(s.history[l]) => i = l
  BY <1>2 DEF Once
<1>6. ASSUME NEW g
      PROVE  /\ In(s, g) <=> \A l \in DOMAIN s.history : /\ g \in Makes(s.history[l]) => l <= p
                                                         /\ g \in Takes(s.history[l]) => l > p
             /\ In(u, g) <=> \A l \in DOMAIN s.history :
                               /\ g \in Makes(s.history[l]) => l <= AtPosition(s, redo)
                               /\ g \in Takes(s.history[l]) => l > AtPosition(s, redo)
  BY <1>3 DEF In
<1>7. CASE redo
  <2>1. k = p + 1 /\ AtPosition(s, redo) = p + 1 /\ Leaving(e, redo) = Takes(e)
        /\ Coming(e, redo) = Makes(e)
    BY <1>7 DEF k, AtPosition, Leaving, Coming
  <2>2. ASSUME NEW g \in Takes(e) PROVE In(s, g)
    <3>1. ASSUME NEW l \in DOMAIN s.history, g \in Makes(s.history[l]) PROVE l <= p
      <4>1. l <= k /\ l # k
        BY <1>1, <1>2, <1>4, <3>1
      <4> QED BY <1>2, <2>1, <4>1
    <3>2. ASSUME NEW l \in DOMAIN s.history, g \in Takes(s.history[l]) PROVE l > p
      <4>1. l = k
        BY <1>1, <1>5, <3>2
      <4> QED BY <1>2, <2>1, <4>1
    <3> QED BY <1>6, <3>1, <3>2
  <2>3. ASSUME NEW g \in Makes(e) PROVE ~In(s, g)
    BY <1>1, <1>2, <1>6, <2>1
  <2>4. ASSUME NEW g, In(u, g) PROVE (In(s, g) /\ g \notin Takes(e)) \/ g \in Makes(e)
    <3> SUFFICES ASSUME g \notin Makes(e) PROVE In(s, g) /\ g \notin Takes(e)
      OBVIOUS
    <3>1. g \notin Takes(e)
      BY <1>1, <1>2, <1>6, <2>1, <2>4
    <3>2. ASSUME NEW l \in DOMAIN s.history, g \in Makes(s.history[l]) PROVE l <= p
      <4>1. l <= p + 1 /\ l # k
        BY <1>1, <1>6, <2>1, <2>4, <3>2
      <4> QED BY <1>2, <2>1, <4>1
    <3>3. ASSUME NEW l \in DOMAIN s.history, g \in Takes(s.history[l]) PROVE l > p
      <4>1. l > p + 1
        BY <1>6, <2>1, <2>4, <3>3
      <4> QED BY <1>2, <4>1
    <3> QED BY <1>6, <3>1, <3>2, <3>3
  <2>5. ASSUME NEW g, In(s, g), g \notin Takes(e) PROVE In(u, g)
    <3>1. ASSUME NEW l \in DOMAIN s.history, g \in Makes(s.history[l]) PROVE l <= p + 1
      BY <1>2, <1>6, <2>5, <3>1
    <3>2. ASSUME NEW l \in DOMAIN s.history, g \in Takes(s.history[l]) PROVE l > p + 1
      <4>1. l > p /\ l # k
        BY <1>1, <1>6, <2>5, <3>2
      <4> QED BY <1>2, <2>1, <4>1
    <3> QED BY <1>6, <2>1, <3>1, <3>2
  <2>6. ASSUME NEW g \in Makes(e) PROVE In(u, g)
    <3>1. ASSUME NEW l \in DOMAIN s.history, g \in Makes(s.history[l]) PROVE l <= p + 1
      <4>1. l = k
        BY <1>1, <1>5, <3>1
      <4> QED BY <1>2, <2>1, <4>1
    <3>2. ASSUME NEW l \in DOMAIN s.history, g \in Takes(s.history[l]) PROVE l > p + 1
      <4>1. k <= l /\ l # k
        BY <1>1, <1>2, <1>4, <3>2
      <4> QED BY <1>2, <2>1, <4>1
    <3> QED BY <1>6, <2>1, <3>1, <3>2
  <2> QED BY <2>1, <2>2, <2>3, <2>4, <2>5, <2>6 DEF u
<1>8. CASE ~redo
  <2>1. k = p /\ AtPosition(s, redo) = p - 1 /\ Leaving(e, redo) = Makes(e)
        /\ Coming(e, redo) = Takes(e)
    BY <1>8 DEF k, AtPosition, Leaving, Coming
  <2>2. ASSUME NEW g \in Makes(e) PROVE In(s, g)
    <3>1. ASSUME NEW l \in DOMAIN s.history, g \in Makes(s.history[l]) PROVE l <= p
      <4>1. l = k
        BY <1>1, <1>5, <3>1
      <4> QED BY <1>2, <2>1, <4>1
    <3>2. ASSUME NEW l \in DOMAIN s.history, g \in Takes(s.history[l]) PROVE l > p
      <4>1. k <= l /\ l # k
        BY <1>1, <1>2, <1>4, <3>2
      <4> QED BY <1>2, <2>1, <4>1
    <3> QED BY <1>6, <3>1, <3>2
  <2>3. ASSUME NEW g \in Takes(e) PROVE ~In(s, g)
    BY <1>1, <1>2, <1>6, <2>1
  <2>4. ASSUME NEW g, In(u, g) PROVE (In(s, g) /\ g \notin Makes(e)) \/ g \in Takes(e)
    <3> SUFFICES ASSUME g \notin Takes(e) PROVE In(s, g) /\ g \notin Makes(e)
      OBVIOUS
    <3>1. g \notin Makes(e)
      BY <1>1, <1>2, <1>6, <2>1, <2>4
    <3>2. ASSUME NEW l \in DOMAIN s.history, g \in Makes(s.history[l]) PROVE l <= p
      <4>1. l <= p - 1
        BY <1>6, <2>1, <2>4, <3>2
      <4> QED BY <1>2, <4>1
    <3>3. ASSUME NEW l \in DOMAIN s.history, g \in Takes(s.history[l]) PROVE l > p
      <4>1. l > p - 1 /\ l # k
        BY <1>1, <1>6, <2>1, <2>4, <3>3
      <4> QED BY <1>2, <2>1, <4>1
    <3> QED BY <1>6, <3>1, <3>2, <3>3
  <2>5. ASSUME NEW g, In(s, g), g \notin Makes(e) PROVE In(u, g)
    <3>1. ASSUME NEW l \in DOMAIN s.history, g \in Makes(s.history[l]) PROVE l <= p - 1
      <4>1. l <= p /\ l # k
        BY <1>1, <1>6, <2>5, <3>1
      <4> QED BY <1>2, <2>1, <4>1
    <3>2. ASSUME NEW l \in DOMAIN s.history, g \in Takes(s.history[l]) PROVE l > p - 1
      <4>1. l > p
        BY <1>6, <2>5, <3>2
      <4> QED BY <1>2, <4>1
    <3> QED BY <1>6, <2>1, <3>1, <3>2
  <2>6. ASSUME NEW g \in Takes(e) PROVE In(u, g)
    <3>1. ASSUME NEW l \in DOMAIN s.history, g \in Makes(s.history[l]) PROVE l <= p - 1
      <4>1. l <= k /\ l # k
        BY <1>1, <1>2, <1>4, <3>1
      <4> QED BY <1>2, <2>1, <4>1
    <3>2. ASSUME NEW l \in DOMAIN s.history, g \in Takes(s.history[l]) PROVE l > p - 1
      <4>1. l = k
        BY <1>1, <1>5, <3>2
      <4> QED BY <1>2, <2>1, <4>1
    <3> QED BY <1>6, <2>1, <3>1, <3>2
  <2> QED BY <2>1, <2>2, <2>3, <2>4, <2>5, <2>6 DEF u
<1> QED BY <1>7, <1>8

\* What leaves is out of its array before the step, what comes is out of it
\* after the step.
LEMMA MoveKeeps ==
  ASSUME NEW s, NEW redo \in BOOLEAN, CanStep(s, redo), NEW e, e = StepEntry(s, redo),
         Good(s, Leaving(e, redo)), s.refresh = NULL
  PROVE  /\ Good(At(s, redo), Coming(e, redo))
         /\ \A g \in Coming(e, redo) : In(At(s, redo), g) /\ g \in s.alive \ s.padding
<1> DEFINE u == At(s, redo)
           k == IF redo THEN s.position + 1 ELSE s.position
           old == Leaving(e, redo)
           new == Coming(e, redo)
<1>1. /\ k \in DOMAIN s.history /\ k \in Nat /\ e = s.history[k] /\ e \in Entries
      /\ \A g \in Names(e) : Firm(s, g, k)
      /\ redo \/ s.position > 0
  BY StepIs
<1>2. /\ s \in States /\ s.position \in Nat /\ s.position <= Len(s.history)
      /\ Len(s.history) \in Nat /\ DOMAIN s.history = 1 .. Len(s.history)
      /\ s.alive \subseteq 1 .. s.made /\ s.padding \subseteq s.alive /\ s.shown <= s.made
      /\ Places(s, old) /\ Homes(s) /\ Once(s)
      /\ \A l \in DOMAIN s.history : /\ Placed(s, s.history[l])
                                     /\ \A g \in Names(s.history[l]) : Firm(s, g, l)
  BY GoodIs, StatesIs
<1>3. /\ u \in States /\ u.position = AtPosition(s, redo)
      /\ u.array = s.array /\ u.alive = s.alive /\ u.made = s.made /\ u.padding = s.padding
      /\ u.home = s.home /\ u.history = s.history /\ u.refresh = NULL /\ u.shown = s.shown
  BY <1>1, <1>2, AtIs
<1>4. /\ \A g \in old : In(s, g)
      /\ \A g \in new : ~In(s, g)
      /\ \A g : In(u, g) <=> (In(s, g) /\ g \notin old) \/ g \in new
  BY StepIn
<1>5. u.position <= Len(u.history)
  BY <1>1, <1>2, <1>3 DEF AtPosition
<1>6. ASSUME NEW g \in new PROVE g \in s.alive \ s.padding
  <2>1. g \in Names(e)
    BY <1>1, EntriesIs DEF Coming
  <2> QED BY <1>1, <2>1 DEF Firm
<1> HIDE DEF u, old, new, k
<1>7. Places(u, new)
  <2> SUFFICES ASSUME NEW b \in Arrays, NEW g \in Ids
               PROVE  g \in u.array[b] <=> g \in u.alive \ new /\ b = u.home[g] /\ In(u, g)
    BY DEF Places
  <2>1. g \in s.array[b] <=> g \in s.alive \ old /\ b = s.home[g] /\ In(s, g)
    BY <1>2 DEF Places
  <2> QED BY <1>3, <1>4, <2>1
<1>8. \A x, l : Firm(u, x, l) <=> Firm(s, x, l)
  BY <1>3 DEF Firm, MadeBy
<1>9. Homes(u) /\ Once(u)
  BY <1>2, <1>3 DEF Homes, Once
<1>10. \A l \in DOMAIN u.history : /\ Placed(u, u.history[l])
                                   /\ \A g \in Names(u.history[l]) : Firm(u, g, l)
  BY <1>2, <1>3, <1>8 DEF Placed
<1>11. Good(u, new)
  BY <1>2, <1>3, <1>5, <1>6, <1>7, <1>9, <1>10 DEF Good
<1> QED BY <1>4, <1>6, <1>11 DEF u, new


\* A step of the position and a change of the arrays may change places.
LEMMA AtArray ==
  ASSUME NEW s \in States, NEW redo \in BOOLEAN, redo \/ s.position > 0,
         NEW a \in Arrays, NEW gs \in SUBSET Ids
  PROVE  At(WithArray(s, a, gs), redo) = WithArray(At(s, redo), a, gs)
<1> DEFINE x == WithArray(s, a, gs)
           u == At(s, redo)
           v == WithArray(u, a, gs)
           w == At(x, redo)
<1>1. /\ x \in States /\ x.array = [s.array EXCEPT ![a] = gs]
      /\ x.alive = s.alive /\ x.made = s.made /\ x.padding = s.padding
      /\ x.home = s.home /\ x.history = s.history /\ x.position = s.position
      /\ x.refresh = s.refresh /\ x.shown = s.shown
  BY ArrayPut
<1>2. /\ u \in States /\ u.position = AtPosition(s, redo)
      /\ u.array = s.array /\ u.alive = s.alive /\ u.made = s.made /\ u.padding = s.padding
      /\ u.home = s.home /\ u.history = s.history /\ u.refresh = s.refresh /\ u.shown = s.shown
  BY AtIs
<1> HIDE DEF x, u
<1>3. /\ v \in States /\ v.array = [u.array EXCEPT ![a] = gs]
      /\ v.alive = u.alive /\ v.made = u.made /\ v.padding = u.padding
      /\ v.home = u.home /\ v.history = u.history /\ v.position = u.position
      /\ v.refresh = u.refresh /\ v.shown = u.shown
  BY <1>2, ArrayPut
<1>4. redo \/ x.position > 0
  BY <1>1
<1>5. /\ w \in States /\ w.position = AtPosition(x, redo)
      /\ w.array = x.array /\ w.alive = x.alive /\ w.made = x.made /\ w.padding = x.padding
      /\ w.home = x.home /\ w.history = x.history /\ w.refresh = x.refresh /\ w.shown = x.shown
  BY <1>1, <1>4, AtIs
<1> HIDE DEF v, w
<1>6. Alike(w, v) /\ w.array = v.array
  BY <1>1, <1>2, <1>3, <1>5 DEF Alike, AtPosition
<1>7. w = v
  BY <1>3, <1>5, <1>6, SameState
<1> QED BY <1>7 DEF v, w, x, u

LEMMA AtFree ==
  ASSUME NEW s \in States, NEW redo \in BOOLEAN, redo \/ s.position > 0, NEW gs \in SUBSET Ids
  PROVE  At(Free(s, gs), redo) = Free(At(s, redo), gs)
<1> DEFINE x == Free(s, gs)
           u == At(s, redo)
           v == Free(u, gs)
           w == At(x, redo)
<1>1. /\ x \in States
      /\ x.array = [a \in Arrays |-> IF a \in Gone(s, gs) THEN {} ELSE s.array[a]]
      /\ x.alive = s.alive \ Gone(s, gs) /\ x.made = s.made
      /\ x.padding = s.padding \ Gone(s, gs)
      /\ x.home = s.home /\ x.history = s.history /\ x.position = s.position
      /\ x.refresh = s.refresh /\ x.shown = s.shown
  BY FreeIs
<1>2. /\ u \in States /\ u.position = AtPosition(s, redo)
      /\ u.array = s.array /\ u.alive = s.alive /\ u.made = s.made /\ u.padding = s.padding
      /\ u.home = s.home /\ u.history = s.history /\ u.refresh = s.refresh /\ u.shown = s.shown
  BY AtIs
<1> HIDE DEF x, u
<1>3. /\ v \in States
      /\ v.array = [a \in Arrays |-> IF a \in Gone(u, gs) THEN {} ELSE u.array[a]]
      /\ v.alive = u.alive \ Gone(u, gs) /\ v.made = u.made
      /\ v.padding = u.padding \ Gone(u, gs)
      /\ v.home = u.home /\ v.history = u.history /\ v.position = u.position
      /\ v.refresh = u.refresh /\ v.shown = u.shown
  BY <1>2, FreeIs
<1>4. redo \/ x.position > 0
  BY <1>1
<1>5. /\ w \in States /\ w.position = AtPosition(x, redo)
      /\ w.array = x.array /\ w.alive = x.alive /\ w.made = x.made /\ w.padding = x.padding
      /\ w.home = x.home /\ w.history = x.history /\ w.refresh = x.refresh /\ w.shown = x.shown
  BY <1>1, <1>4, AtIs
<1> HIDE DEF v, w
<1>6. Gone(u, gs) = Gone(s, gs)
  BY <1>2 DEF Gone
<1>7. Alike(w, v) /\ w.array = v.array
  BY <1>1, <1>2, <1>3, <1>5, <1>6 DEF Alike, AtPosition
<1>8. w = v
  BY <1>3, <1>5, <1>7, SameState
<1> QED BY <1>8 DEF v, w, x, u

LEMMA CutIs ==
  ASSUME NEW s \in States, NEW a \in Arrays, NEW g
  PROVE  Cut(s, a, g) = WithArray(s, a, s.array[a] \ {g}) /\ s.array[a] \ {g} \in SUBSET Ids
BY StatesIs DEF Cut, WithArray, States

LEMMA PutIs ==
  ASSUME NEW s \in States, NEW a \in Arrays, NEW g \in Ids
  PROVE  /\ [s EXCEPT !.array[a] = @ \cup {g}] = WithArray(s, a, s.array[a] \cup {g})
         /\ s.array[a] \cup {g} \in SUBSET Ids
BY StatesIs DEF WithArray, States

LEMMA AtCut ==
  ASSUME NEW s \in States, NEW redo \in BOOLEAN, redo \/ s.position > 0, NEW a \in Arrays, NEW g
  PROVE  At(Cut(s, a, g), redo) = Cut(At(s, redo), a, g)
<1> DEFINE gs == s.array[a] \ {g}
<1>1. Cut(s, a, g) = WithArray(s, a, gs) /\ gs \in SUBSET Ids
  BY CutIs
<1>2. At(s, redo) \in States /\ At(s, redo).array = s.array
  BY AtIs
<1>3. Cut(At(s, redo), a, g) = WithArray(At(s, redo), a, gs)
  BY <1>2, CutIs
<1> HIDE DEF gs
<1>4. At(WithArray(s, a, gs), redo) = WithArray(At(s, redo), a, gs)
  BY <1>1, AtArray
<1> QED BY <1>1, <1>3, <1>4

LEMMA InsertAt ==
  ASSUME NEW s \in States, NEW redo \in BOOLEAN, redo \/ s.position > 0, NEW a \in Arrays,
         NEW g \in Ids, NEW x \in Insert(s, a, g)
  PROVE  At(x, redo) \in Insert(At(s, redo), a, g)
<1> DEFINE gs  == s.array[a] \cup {g}
           put == WithArray(s, a, gs)
           u   == At(s, redo)
           to  == WithArray(u, a, gs)
<1>1. u \in States /\ u.array = s.array /\ u.padding = s.padding
  BY AtIs
<1>2. [s EXCEPT !.array[a] = @ \cup {g}] = put /\ gs \in SUBSET Ids
  BY PutIs
<1>3. [u EXCEPT !.array[a] = @ \cup {g}] = to
  BY <1>1, PutIs
<1> HIDE DEF gs, u
<1>4. At(put, redo) = to
  BY <1>2, AtArray DEF u
<1>5. put \in States /\ put.position = s.position
  BY <1>2, ArrayPut
<1> HIDE DEF put, to
<1>6. x \in {put} \cup {Free(Cut(put, a, p), {p}) : p \in s.padding \cap s.array[a]}
  BY <1>2 DEF Insert
<1>7. Insert(u, a, g) = {to} \cup {Free(Cut(to, a, p), {p}) : p \in u.padding \cap u.array[a]}
  BY <1>3 DEF Insert
<1>8. ASSUME NEW p \in s.padding, x = Free(Cut(put, a, p), {p})
      PROVE  At(x, redo) = Free(Cut(to, a, p), {p})
  <2>1. p \in Ids /\ (redo \/ put.position > 0)
    BY <1>5, StatesIs
  <2>2. Cut(put, a, p) \in States /\ Cut(put, a, p).position = put.position
    <3>1. Cut(put, a, p) = WithArray(put, a, put.array[a] \ {p})
          /\ put.array[a] \ {p} \in SUBSET Ids
      BY <1>5, CutIs
    <3> DEFINE hs == put.array[a] \ {p}
    <3> HIDE DEF hs
    <3>2. WithArray(put, a, hs) \in States /\ WithArray(put, a, hs).position = put.position
      BY <1>5, <3>1, ArrayPut DEF hs
    <3> QED BY <3>1, <3>2 DEF hs
  <2>3. At(Cut(put, a, p), redo) = Cut(to, a, p)
    BY <1>4, <1>5, <2>1, AtCut
  <2> DEFINE c == Cut(put, a, p)
             o == {p}
  <2>4. c \in States /\ o \in SUBSET Ids /\ (redo \/ c.position > 0)
    BY <2>1, <2>2
  <2> HIDE DEF c, o
  <2>5. At(Free(c, o), redo) = Free(At(c, redo), o)
    BY <2>4, AtFree
  <2> QED BY <1>8, <2>3, <2>5 DEF c, o
<1>9. At(x, redo) \in Insert(u, a, g)
  BY <1>1, <1>4, <1>6, <1>7, <1>8
<1> QED BY <1>9 DEF u

Stepped(s, t, redo) ==
  /\ Good(t, {})
  /\ s.alive \ s.padding \subseteq t.alive /\ t.alive \subseteq s.alive
  /\ t.made = s.made /\ t.padding \subseteq s.padding
  /\ t.history = s.history /\ t.refresh = NULL /\ t.position = AtPosition(s, redo)

LEMMA SteppedAlike ==
  ASSUME NEW s, NEW x, NEW t, NEW redo, Alike(s, x), Stepped(x, t, redo)
  PROVE  Stepped(s, t, redo)
BY DEF Alike, Stepped, AtPosition

LEMMA CanStepAlike ==
  ASSUME NEW s, NEW x, NEW redo, Alike(s, x), CanStep(s, redo)
  PROVE  CanStep(x, redo) /\ StepEntry(x, redo) = StepEntry(s, redo)
BY DEF Alike, CanStep, StepEntry

LEMMA MovedIs ==
  ASSUME NEW s, NEW redo \in BOOLEAN, CanStep(s, redo), NEW e, e = StepEntry(s, redo),
         Good(s, Leaving(e, redo)), s.refresh = NULL, Coming(e, redo) = {}
  PROVE  Stepped(s, At(s, redo), redo)
<1> DEFINE o == Coming(e, redo)
           u == At(s, redo)
<1>1. Good(u, o)
  BY MoveKeeps
<1>2. s \in States /\ (redo \/ s.position > 0)
  BY GoodIs, StepIs
<1>3. /\ u.position = AtPosition(s, redo) /\ u.alive = s.alive /\ u.made = s.made
      /\ u.padding = s.padding /\ u.history = s.history /\ u.refresh = s.refresh
  BY <1>2, AtIs
<1> HIDE DEF u
<1>4. Good(u, {})
  BY <1>1
<1> QED BY <1>3, <1>4 DEF Stepped, u

LEMMA CutStepKeeps ==
  ASSUME NEW s, Good(s, {}), s.refresh = NULL, NEW redo \in BOOLEAN, CanStep(s, redo),
         NEW e, e = StepEntry(s, redo), Leaving(e, redo) = {e.group}, Coming(e, redo) = {},
         e.array \in Arrays, e.group \in s.array[e.array]
  PROVE  Stepped(s, At(Cut(s, e.array, e.group), redo), redo)
<1> DEFINE o == {}
           g == e.group
           a == e.array
           x == Cut(s, a, g)
<1>1. o \cup {g} = Leaving(e, redo) /\ Good(s, o) /\ a \in Arrays /\ g \in s.array[a]
  OBVIOUS
<1> HIDE DEF o, g, a, x
<1>2. Good(x, o \cup {g}) /\ Alike(s, x)
  BY <1>1, CutKeeps DEF x
<1>3. CanStep(x, redo) /\ e = StepEntry(x, redo)
  BY <1>2, CanStepAlike
<1>4. Good(x, Leaving(e, redo)) /\ x.refresh = NULL
  BY <1>1, <1>2 DEF Alike
<1>5. Stepped(x, At(x, redo), redo)
  BY <1>3, <1>4, MovedIs
<1>6. Stepped(s, At(x, redo), redo)
  BY <1>2, <1>5, SteppedAlike
<1> QED BY <1>6 DEF x, g, a

LEMMA InsertStepKeeps ==
  ASSUME NEW s, Good(s, {}), s.refresh = NULL, NEW redo \in BOOLEAN, CanStep(s, redo),
         NEW e, e = StepEntry(s, redo), Leaving(e, redo) = {}, Coming(e, redo) = {e.group},
         NEW x \in Insert(s, e.array, e.group)
  PROVE  e.kind \in {"insert", "remove"} => Stepped(s, At(x, redo), redo)
<1> SUFFICES ASSUME e.kind \in {"insert", "remove"}
             PROVE  Stepped(s, At(x, redo), redo)
  OBVIOUS
<1> DEFINE o == Coming(e, redo)
           g == e.group
           a == e.array
           u == At(s, redo)
           t == At(x, redo)
<1>1. s \in States /\ (redo \/ s.position > 0) /\ e \in Entries /\ Placed(s, e)
  BY GoodIs, StepIs
<1>2. /\ u \in States /\ u.position = AtPosition(s, redo)
      /\ u.array = s.array /\ u.alive = s.alive /\ u.made = s.made /\ u.padding = s.padding
      /\ u.home = s.home /\ u.history = s.history /\ u.refresh = s.refresh
  BY <1>1, AtIs
<1>3. Good(s, Leaving(e, redo))
  OBVIOUS
<1>4. Good(u, o) /\ \A y \in o : In(u, y) /\ y \in s.alive \ s.padding
  BY <1>3, MoveKeeps
<1>5. a = s.home[g] /\ g \in Ids /\ a \in Arrays
  BY <1>1, StatesIs, EntriesIs DEF Placed
<1>6. g \in o /\ o \ {g} = {}
  OBVIOUS
<1> HIDE DEF o, g, a, u, t
<1>7. x \in Insert(s, a, g)
  BY DEF a, g
<1>8. t \in Insert(u, a, g)
  BY <1>1, <1>5, <1>7, InsertAt DEF u, t
<1>9. In(u, g) /\ g \in s.alive \ s.padding
  BY <1>4, <1>6
<1>10. /\ t \in Insert(u, u.home[g], g) /\ g \notin u.padding
       /\ g \in o /\ Good(u, o) /\ In(u, g)
  <2>1. u.home[g] = a
    BY <1>2, <1>5
  <2> QED BY <1>2, <1>4, <1>6, <1>8, <1>9, <2>1
<1>11. /\ Good(t, o \ {g})
       /\ u.alive \ u.padding \subseteq t.alive /\ t.alive \subseteq u.alive
       /\ t.made = u.made /\ t.padding \subseteq u.padding /\ t.history = u.history
       /\ t.position = u.position /\ t.refresh = u.refresh
  BY <1>10, InsertKeeps
<1>12. Stepped(s, t, redo)
  BY <1>2, <1>6, <1>11 DEF Stepped
<1> QED BY <1>12 DEF t

LEMMA ReplaceStepKeeps ==
  ASSUME NEW s, Good(s, {}), s.refresh = NULL, NEW redo \in BOOLEAN, CanStep(s, redo),
         NEW e, e = StepEntry(s, redo), NEW cur, NEW next,
         Leaving(e, redo) = {cur}, Coming(e, redo) = {next}, s.home[next] = s.home[cur],
         ParentAr(s, cur) # NULL
  PROVE  Stepped(s, At(ReplaceGroup(s, cur, next), redo), redo)
<1> DEFINE o  == {}
           in == Coming(e, redo)
           a  == s.home[cur]
           x  == Cut(s, a, cur)
           u  == At(x, redo)
           hs == u.array[u.home[next]] \cup {next}
           t  == WithArray(u, u.home[next], hs)
           gs == (s.array[a] \ {cur}) \cup {next}
           r  == ReplaceGroup(s, cur, next)
<1>1. /\ s \in States /\ (redo \/ s.position > 0) /\ e \in Entries
      /\ ParentAr(s, cur) = a /\ a \in Arrays /\ cur \in s.array[a]
  BY GoodIs, StepIs, ParentIs
<1>2. o \cup {cur} = Leaving(e, redo) /\ Good(s, o) /\ next \in in /\ in \ {next} = {}
  OBVIOUS
<1>3. next \in Ids
  <2>1. next \in Makes(e) \cup Takes(e)
    BY DEF Coming
  <2> QED BY <1>1, <2>1, EntriesIs
<1>4. a = s.home[next]
  OBVIOUS
<1> HIDE DEF o, in, a, x
<1>5. /\ Good(x, o \cup {cur}) /\ Alike(s, x)
      /\ x.array = [s.array EXCEPT ![a] = s.array[a] \ {cur}]
  BY <1>1, <1>2, CutKeeps DEF x
<1>6. CanStep(x, redo) /\ e = StepEntry(x, redo)
  BY <1>5, CanStepAlike
<1>7. Good(x, Leaving(e, redo)) /\ x.refresh = NULL /\ x \in States /\ x.home = s.home
      /\ x.position = s.position /\ (redo \/ x.position > 0)
  BY <1>1, <1>2, <1>5, GoodIs DEF Alike
<1>8. Good(u, in) /\ \A g \in in : In(u, g) /\ g \in x.alive \ x.padding
  BY <1>6, <1>7, MoveKeeps DEF in
<1>9. /\ u \in States /\ u.position = AtPosition(x, redo)
      /\ u.array = x.array /\ u.alive = x.alive /\ u.made = x.made /\ u.padding = x.padding
      /\ u.home = x.home /\ u.history = x.history /\ u.refresh = x.refresh /\ u.shown = x.shown
  BY <1>7, AtIs
<1> HIDE DEF u
<1>10. In(u, next)
  BY <1>2, <1>8
<1>11. Good(t, in \ {next}) /\ Alike(u, t)
  BY <1>2, <1>8, <1>10, PutKeeps
<1>12. u.home[next] = a
  BY <1>4, <1>7, <1>9
<1>13. hs = gs /\ gs \in SUBSET Ids
  BY <1>1, <1>3, <1>5, <1>9, <1>12, StatesIs
<1>14. r = [s EXCEPT !.array[a] = (@ \ {cur}) \cup {next}]
  BY <1>1 DEF ReplaceGroup
<1>15. r = WithArray(s, a, gs)
  BY <1>1, <1>14, StatesIs DEF WithArray, States
<1> HIDE DEF hs, gs, r
<1>16. t = WithArray(u, a, gs)
  BY <1>12, <1>13
<1>17. At(r, redo) = WithArray(At(s, redo), a, gs)
  BY <1>1, <1>13, <1>15, AtArray
<1>18. At(r, redo) = t
  <2> DEFINE v == At(s, redo)
             w == WithArray(v, a, gs)
  <2>1. /\ v \in States /\ v.position = AtPosition(s, redo)
        /\ v.array = s.array /\ v.alive = s.alive /\ v.made = s.made /\ v.padding = s.padding
        /\ v.home = s.home /\ v.history = s.history /\ v.refresh = s.refresh /\ v.shown = s.shown
    BY <1>1, AtIs
  <2> HIDE DEF v
  <2>2. /\ w \in States /\ w.array = [v.array EXCEPT ![a] = gs]
        /\ w.alive = v.alive /\ w.made = v.made /\ w.padding = v.padding
        /\ w.home = v.home /\ w.history = v.history /\ w.position = v.position
        /\ w.refresh = v.refresh /\ w.shown = v.shown
    BY <1>1, <1>13, <2>1, ArrayPut
  <2> HIDE DEF w, t
  <2>3. t.array = [u.array EXCEPT ![a] = gs]
    BY <1>1, <1>9, <1>13, <1>16, ArrayPut
  <2>4. [u.array EXCEPT ![a] = gs] = [s.array EXCEPT ![a] = gs]
    BY <1>1, <1>5, <1>9, StatesIs
  <2>5. t \in States /\ Alike(w, t) /\ w.array = t.array
    BY <1>5, <1>9, <1>11, <2>1, <2>2, <2>3, <2>4, GoodIs DEF Alike, AtPosition
  <2>6. w = t
    BY <2>2, <2>5, SameState
  <2> QED BY <1>17, <2>6 DEF w, v
<1>19. Good(t, {})
  BY <1>2, <1>11
<1>20. Stepped(s, t, redo)
  BY <1>5, <1>7, <1>9, <1>11, <1>19 DEF Stepped, Alike, AtPosition
<1> QED BY <1>18, <1>20 DEF r

\* What the entry of a step moves, by its kind.
LEMMA MovesIs ==
  ASSUME NEW s, Good(s, {}), NEW redo \in BOOLEAN, CanStep(s, redo),
         NEW e, e = StepEntry(s, redo)
  PROVE  /\ e.kind \in Kinds /\ e.group \in s.alive
         /\ e.kind \in {"field", "data", "move"} => Leaving(e, redo) = {} /\ Coming(e, redo) = {}
         /\ e.kind = "replace" =>
              LET cur  == IF redo THEN e.group ELSE e.replacement
                  next == IF redo THEN e.replacement ELSE e.group
              IN  /\ Leaving(e, redo) = {cur} /\ Coming(e, redo) = {next}
                  /\ s.home[next] = s.home[cur] /\ ParentAr(s, cur) # NULL
         /\ (e.kind = "insert" /\ redo) \/ (e.kind = "remove" /\ ~redo) =>
              Leaving(e, redo) = {} /\ Coming(e, redo) = {e.group}
         /\ (e.kind = "insert" /\ ~redo) \/ (e.kind = "remove" /\ redo) =>
              /\ Leaving(e, redo) = {e.group} /\ Coming(e, redo) = {}
              /\ e.array \in Arrays /\ e.group \in s.array[e.array]
<1> DEFINE o == {}
           k == IF redo THEN s.position + 1 ELSE s.position
<1>1. /\ Good(s, o) /\ s \in States /\ e \in Entries /\ Placed(s, e)
      /\ \A g \in Names(e) : Firm(s, g, k)
  BY GoodIs, StepIs
<1>2. \A g \in Leaving(e, redo) : In(s, g)
  BY StepIn
<1> HIDE DEF o, k
<1>3. e.kind \in Kinds /\ e.group \in Ids /\ e.array \in Arrays \cup {NULL}
  BY <1>1, EntriesIs
<1>4. \A g \in Names(e) : g \in s.alive
  BY <1>1 DEF Firm
<1>5. e.group \in s.alive
  BY <1>4 DEF Names
<1>6. CASE e.kind \in {"field", "data", "move"}
  BY <1>3, <1>5, <1>6 DEF Leaving, Coming, Makes, Takes
<1>7. CASE e.kind = "replace"
  <2> DEFINE cur  == IF redo THEN e.group ELSE e.replacement
             next == IF redo THEN e.replacement ELSE e.group
  <2>1. Leaving(e, redo) = {cur} /\ Coming(e, redo) = {next} /\ cur \in Names(e)
    BY <1>7 DEF Leaving, Coming, Makes, Takes, Names
  <2>2. s.home[next] = s.home[cur]
    BY <1>1, <1>7 DEF Placed
  <2> HIDE DEF cur, next
  <2>3. cur \in s.alive \ o /\ In(s, cur)
    BY <1>2, <1>4, <2>1 DEF o
  <2>4. ParentAr(s, cur) # NULL
    BY <1>1, <2>3, ParentIs
  <2> QED BY <1>3, <1>5, <1>7, <2>1, <2>2, <2>4 DEF cur, next
<1>8. CASE e.kind \in {"insert", "remove"}
  <2>1. e.array = s.home[e.group] /\ e.array \in Arrays
    BY <1>1, <1>3, <1>8, StatesIs DEF Placed
  <2>2. ASSUME (e.kind = "insert" /\ redo) \/ (e.kind = "remove" /\ ~redo)
        PROVE  Leaving(e, redo) = {} /\ Coming(e, redo) = {e.group}
    BY <2>2 DEF Leaving, Coming, Makes, Takes
  <2>3. ASSUME (e.kind = "insert" /\ ~redo) \/ (e.kind = "remove" /\ redo)
        PROVE  /\ Leaving(e, redo) = {e.group} /\ Coming(e, redo) = {}
               /\ e.group \in s.array[e.array]
    <3>1. Leaving(e, redo) = {e.group} /\ Coming(e, redo) = {}
      BY <2>3 DEF Leaving, Coming, Makes, Takes
    <3>2. In(s, e.group) /\ e.group \in s.alive \ o
      BY <1>2, <1>5, <3>1 DEF o
    <3>3. Places(s, o)
      BY <1>1, GoodIs
    <3> QED BY <1>3, <2>1, <3>1, <3>2, <3>3 DEF Places
  <2> QED BY <1>3, <1>5, <1>8, <2>1, <2>2, <2>3
<1> QED BY <1>3, <1>6, <1>7, <1>8 DEF Kinds

LEMMA StructureKeeps ==
  ASSUME NEW s, Good(s, {}), s.refresh = NULL, NEW redo \in BOOLEAN, CanStep(s, redo),
         NEW e, e = StepEntry(s, redo), e.kind # "field", NEW x \in ApplyStructure(s, e, redo)
  PROVE  Stepped(s, At(x, redo), redo)
<1>1. CASE e.kind \in {"data", "move"}
  <2>1. x = s
    BY <1>1 DEF ApplyStructure, PutsBack
  <2>2. Leaving(e, redo) = {} /\ Coming(e, redo) = {}
    BY <1>1, MovesIs
  <2>3. Good(s, Leaving(e, redo))
    BY <2>2
  <2> QED BY <2>1, <2>2, <2>3, MovedIs
<1>2. CASE e.kind = "replace"
  <2> DEFINE cur  == IF redo THEN e.group ELSE e.replacement
             next == IF redo THEN e.replacement ELSE e.group
  <2>1. /\ Leaving(e, redo) = {cur} /\ Coming(e, redo) = {next}
        /\ s.home[next] = s.home[cur] /\ ParentAr(s, cur) # NULL
    BY <1>2, MovesIs
  <2>2. x = ReplaceGroup(s, cur, next)
    BY <1>2, <2>1 DEF ApplyStructure, PutsBack
  <2> HIDE DEF cur, next
  <2> QED BY <2>1, <2>2, ReplaceStepKeeps
<1>3. CASE (e.kind = "insert" /\ redo) \/ (e.kind = "remove" /\ ~redo)
  <2>1. Leaving(e, redo) = {} /\ Coming(e, redo) = {e.group}
    BY <1>3, MovesIs
  <2>2. x \in Insert(s, e.array, e.group)
    BY <1>3 DEF ApplyStructure, PutsBack
  <2>3. e.kind \in {"insert", "remove"}
    BY <1>3
  <2> QED BY <2>1, <2>2, <2>3, InsertStepKeeps
<1>4. CASE (e.kind = "insert" /\ ~redo) \/ (e.kind = "remove" /\ redo)
  <2>1. /\ Leaving(e, redo) = {e.group} /\ Coming(e, redo) = {}
        /\ e.array \in Arrays /\ e.group \in s.array[e.array]
    BY <1>4, MovesIs
  <2>2. x = Cut(s, e.array, e.group)
    BY <1>4, <2>1 DEF ApplyStructure, PutsBack
  <2> QED BY <2>1, <2>2, CutStepKeeps
<1>5. e.kind \in Kinds
  BY MovesIs
<1> QED BY <1>1, <1>2, <1>3, <1>4, <1>5 DEF Kinds

LEMMA StructureIs ==
  ASSUME NEW s, Good(s, {}), NEW redo \in BOOLEAN, CanStep(s, redo),
         NEW e, e = StepEntry(s, redo), e.kind # "field"
  PROVE  ApplyStructure(s, e, redo) # {}
<1>1. e.kind \in Kinds
  BY MovesIs
<1>2. CASE e.kind \in {"data", "move"}
  BY <1>2 DEF ApplyStructure, PutsBack
<1>3. CASE e.kind = "replace"
  BY <1>3, MovesIs DEF ApplyStructure, PutsBack
<1>4. CASE (e.kind = "insert" /\ redo) \/ (e.kind = "remove" /\ ~redo)
  BY <1>4 DEF ApplyStructure, PutsBack, Insert
<1>5. CASE (e.kind = "insert" /\ ~redo) \/ (e.kind = "remove" /\ redo)
  <2>1. e.group \in s.array[e.array]
    BY <1>5, MovesIs
  <2> QED BY <1>5, <2>1 DEF ApplyStructure, PutsBack
<1> QED BY <1>1, <1>2, <1>3, <1>4, <1>5 DEF Kinds

LEMMA StepToIs ==
  ASSUME NEW s, NEW redo, NEW e, e = StepEntry(s, redo)
  PROVE  /\ e.kind = "field" => StepTo(s, redo) = {At(s, redo)}
         /\ e.kind # "field" =>
              StepTo(s, redo) = UNION {UNION {RebuildTree(At(x, redo), g) : g \in Selections(x, e, redo)} :
                                         x \in ApplyStructure(s, e, redo)}
<1>1. StepTo(s, redo) =
        IF StepEntry(s, redo).kind = "field" THEN {At(s, redo)}
        ELSE UNION {UNION {RebuildTree(At(x, redo), g) :
                             g \in Selections(x, StepEntry(s, redo), redo)} :
                      x \in ApplyStructure(s, StepEntry(s, redo), redo)}
  BY DEF StepTo, At
<1>2. e = StepEntry(s, redo)
  OBVIOUS
<1> QED BY <1>1, <1>2

LEMMA StepIsPossible ==
  ASSUME NEW s, Good(s, {}), NEW redo \in BOOLEAN, CanStep(s, redo)
  PROVE  StepTo(s, redo) # {}
<1> DEFINE e == StepEntry(s, redo)
<1>1. CASE e.kind = "field"
  BY <1>1, StepToIs
<1>2. CASE e.kind # "field"
  <2> HIDE DEF e
  <2>1. ApplyStructure(s, e, redo) # {}
    BY <1>2, StructureIs DEF e
  <2>2. PICK x \in ApplyStructure(s, e, redo) : TRUE
    BY <2>1
  <2>3. Selections(x, e, redo) # {}
    BY DEF Selections
  <2>4. PICK g \in Selections(x, e, redo) : TRUE
    BY <2>3
  <2> DEFINE u == At(x, redo)
  <2> HIDE DEF u
  <2>5. RebuildTree(u, g) # {}
    BY TreeIs
  <2>6. RebuildTree(u, g) \subseteq StepTo(s, redo)
    BY <1>2, <2>2, <2>4, StepToIs DEF e, u
  <2> QED BY <2>5, <2>6
<1> QED BY <1>1, <1>2

LEMMA StepKeeps ==
  ASSUME NEW s, Good(s, {}), s.refresh = NULL, NEW redo \in BOOLEAN, CanStep(s, redo),
         NEW t \in StepTo(s, redo)
  PROVE  Effect(s, t) /\ t.refresh = NULL /\ (Shows(s) => Shows(t)) /\ t.history = s.history
<1> DEFINE e == StepEntry(s, redo)
<1>1. s \in States /\ (redo \/ s.position > 0)
  BY GoodIs, StepIs
<1>2. ASSUME NEW u, Stepped(s, u, redo)
      PROVE  Effect(s, u) /\ u.refresh = NULL /\ u.history = s.history
  BY <1>1, <1>2, StatesIs DEF Effect, Stepped
<1>3. CASE e.kind = "field"
  <2> DEFINE u == At(s, redo)
             o == {}
  <2>1. t = u
    BY <1>3, StepToIs
  <2>2. Leaving(e, redo) = {} /\ Coming(e, redo) = {} /\ Good(s, Leaving(e, redo))
    BY <1>3, MovesIs
  <2>3. Stepped(s, u, redo)
    BY <2>2, MovedIs
  <2>4. \A g : In(u, g) <=> In(s, g)
    BY <2>2, StepIn
  <2>5. /\ u.alive = s.alive /\ u.home = s.home /\ u.shown = s.shown
    BY <1>1, AtIs
  <2> HIDE DEF u
  <2>6. Good(u, {})
    BY <2>3 DEF Stepped
  <2>7. InDocument(u) = InDocument(s)
    BY <2>4, <2>5, <2>6, OpenIs
  <2>8. Shows(s) => Shows(u)
    BY <2>5, <2>7 DEF Shows
  <2> QED BY <1>2, <2>1, <2>3, <2>8
<1>4. CASE e.kind # "field"
  <2> HIDE DEF e
  <2>1. PICK x \in ApplyStructure(s, e, redo) :
          \E g \in Selections(x, e, redo) : t \in RebuildTree(At(x, redo), g)
    BY <1>4, StepToIs DEF e
  <2>2. PICK g : t \in RebuildTree(At(x, redo), g)
    BY <2>1
  <2> DEFINE u == At(x, redo)
  <2> HIDE DEF u
  <2>3. Stepped(s, u, redo)
    BY <1>4, <2>1, StructureKeeps DEF e, u
  <2>4. Good(u, {})
    BY <2>3 DEF Stepped
  <2>5. t \in RebuildTree(u, g)
    BY <2>2 DEF u
  <2>6. /\ Shows(t) /\ t.history = u.history /\ t.refresh = u.refresh
        /\ Effect(s, u) => Effect(s, t)
    BY <2>4, <2>5, TreeKeeps
  <2> QED BY <1>2, <2>3, <2>6
<1> QED BY <1>3, <1>4

(***************************************************************************)
(* A file opened.                                                          *)
(***************************************************************************)
Of(d, x) == CHOOSE a \in DOMAIN d.array : x \in d.array[a]

Moved(gs, m) == {g + m : g \in gs}

LEMMA MovedBy ==
  ASSUME NEW size \in Nat, NEW gs \in SUBSET (1 .. size), NEW m \in Nat, NEW x \in Int
  PROVE  x \in Moved(gs, m) <=> x - m \in gs
<1>1. gs \subseteq Int
  OBVIOUS
<1>2. ASSUME NEW y \in gs, x = y + m PROVE x - m \in gs
  <2>1. y \in Int
    BY <1>1
  <2>2. x - m = y
    BY <1>2, <2>1
  <2> QED BY <2>2
<1>3. ASSUME x - m \in gs PROVE \E y \in gs : x = y + m
  <2>1. x = (x - m) + m
    OBVIOUS
  <2> QED BY <1>3, <2>1
<1> QED BY <1>2, <1>3 DEF Moved

LEMMA DocumentIs ==
  ASSUME NEW d, IsDocument(d), NEW x \in 1 .. d.size
  PROVE  /\ Of(d, x) \in DOMAIN d.array /\ DOMAIN d.array = Blocks \cup 1 .. d.size
         /\ \A a \in DOMAIN d.array : x \in d.array[a] <=> a = Of(d, x)
         /\ Of(d, x) \notin Blocks => /\ Of(d, x) \in 1 .. d.size /\ Of(d, x) \notin d.padding
                                      /\ Of(d, Of(d, x)) \in Blocks
         /\ x \in d.padding => Of(d, x) \in Blocks
<1>1. /\ d.size \in Nat
      /\ d.array \in [Blocks \cup 1 .. d.size -> SUBSET (1 .. d.size)]
      /\ \A g \in 1 .. d.size : \E a \in DOMAIN d.array :
           /\ g \in d.array[a]
           /\ \A b \in DOMAIN d.array : g \in d.array[b] => b = a
           /\ a \notin Blocks => \E b \in Blocks : a \in d.array[b]
           /\ g \in d.padding => a \in Blocks /\ d.array[g] = {}
  BY DEF IsDocument
<1>2. DOMAIN d.array = Blocks \cup 1 .. d.size
  BY <1>1
<1>3. ASSUME NEW g \in 1 .. d.size
      PROVE  /\ Of(d, g) \in DOMAIN d.array /\ g \in d.array[Of(d, g)]
             /\ \A b \in DOMAIN d.array : g \in d.array[b] => b = Of(d, g)
             /\ Of(d, g) \notin Blocks => \E b \in Blocks : Of(d, g) \in d.array[b]
             /\ g \in d.padding => Of(d, g) \in Blocks /\ d.array[g] = {}
  <2>1. PICK a \in DOMAIN d.array :
           /\ g \in d.array[a]
           /\ \A b \in DOMAIN d.array : g \in d.array[b] => b = a
           /\ a \notin Blocks => \E b \in Blocks : a \in d.array[b]
           /\ g \in d.padding => a \in Blocks /\ d.array[g] = {}
    BY <1>1
  <2>2. Of(d, g) = a
    BY <2>1 DEF Of
  <2> QED BY <2>1, <2>2
<1>4. ASSUME Of(d, x) \notin Blocks
      PROVE  /\ Of(d, x) \in 1 .. d.size /\ Of(d, x) \notin d.padding
             /\ Of(d, Of(d, x)) \in Blocks
  <2>1. Of(d, x) \in 1 .. d.size /\ x \in d.array[Of(d, x)]
    BY <1>2, <1>3, <1>4
  <2>2. Of(d, x) \notin d.padding
    BY <1>3, <2>1
  <2>3. PICK b \in Blocks : Of(d, x) \in d.array[b]
    BY <1>3, <1>4
  <2>4. b = Of(d, Of(d, x))
    BY <1>2, <1>3, <2>1, <2>3
  <2> QED BY <2>1, <2>2, <2>3, <2>4
<1> QED BY <1>2, <1>3, <1>4

LEMMA ParseIs ==
  ASSUME NEW s \in States, NEW d, IsDocument(d), NEW m, m = s.made, m + d.size <= MaxGroups
  PROVE  LET q      == Parse(s, d)
             placed == m + 1 .. m + d.size
         IN  /\ q \in States /\ q.made = m + d.size /\ q.alive = s.alive \cup placed
             /\ q.padding = s.padding \cup Moved(d.padding, m)
             /\ q.array = [a \in Arrays |-> IF a \in Blocks THEN Moved(d.array[a], m)
                                            ELSE IF a \in placed THEN Moved(d.array[a - m], m)
                                            ELSE s.array[a]]
             /\ q.home = [g \in Ids |-> IF g \notin placed THEN s.home[g]
                                        ELSE IF Of(d, g - m) \in Blocks THEN Of(d, g - m)
                                        ELSE Of(d, g - m) + m]
             /\ q.history = s.history /\ q.position = s.position
             /\ q.refresh = s.refresh /\ q.shown = s.shown
<1> DEFINE q      == Parse(s, d)
           placed == m + 1 .. m + d.size
           al     == s.alive \cup placed
           pd     == s.padding \cup Moved(d.padding, m)
           ar     == [a \in Arrays |-> IF a \in Blocks THEN Moved(d.array[a], m)
                                       ELSE IF a \in placed THEN Moved(d.array[a - m], m)
                                       ELSE s.array[a]]
           ho     == [g \in Ids |-> IF g \notin placed THEN s.home[g]
                                    ELSE IF Of(d, g - m) \in Blocks THEN Of(d, g - m)
                                    ELSE Of(d, g - m) + m]
           last   == m + d.size
<1>1. q = [s EXCEPT !.made = s.made + d.size,
                    !.alive = s.alive \cup (s.made + 1 .. s.made + d.size),
                    !.padding = s.padding \cup Moved(d.padding, s.made),
                    !.array = [a \in Arrays |-> IF a \in Blocks THEN Moved(d.array[a], s.made)
                                       ELSE IF a \in s.made + 1 .. s.made + d.size
                                            THEN Moved(d.array[a - s.made], s.made)
                                       ELSE s.array[a]],
                    !.home = [g \in Ids |-> IF g \notin s.made + 1 .. s.made + d.size THEN s.home[g]
                                    ELSE IF Of(d, g - s.made) \in Blocks THEN Of(d, g - s.made)
                                    ELSE Of(d, g - s.made) + s.made]]
  BY DEF Parse, Moved, Of
<1>2. q = [s EXCEPT !.made = last, !.alive = al, !.padding = pd, !.array = ar, !.home = ho]
  BY <1>1
<1>3. /\ m \in Nat /\ d.size \in Nat /\ MaxGroups \in Nat
      /\ d.array \in [Blocks \cup 1 .. d.size -> SUBSET (1 .. d.size)]
      /\ d.padding \subseteq 1 .. d.size
  BY StatesIs, OwnershipAssumption DEF IsDocument
<1>4. last \in 0 .. MaxGroups /\ placed \subseteq Ids
  BY <1>3 DEF Ids
<1>5. ASSUME NEW gs \in SUBSET (1 .. d.size) PROVE Moved(gs, m) \subseteq Ids
  BY <1>3 DEF Moved, Ids
<1>6. al \in SUBSET Ids
  BY <1>4, StatesIs
<1>7. pd \in SUBSET Ids
  BY <1>3, <1>5, StatesIs
<1>8. ar \in [Arrays -> SUBSET Ids]
  <2> SUFFICES ASSUME NEW a \in Arrays PROVE ar[a] \in SUBSET Ids
    OBVIOUS
  <2>1. CASE a \in Blocks
    <3>1. d.array[a] \in SUBSET (1 .. d.size)
      BY <1>3, <2>1
    <3> QED BY <1>5, <2>1, <3>1
  <2>2. CASE a \notin Blocks /\ a \in placed
    <3>1. a - m \in 1 .. d.size
      BY <1>3, <2>2
    <3>2. d.array[a - m] \in SUBSET (1 .. d.size)
      BY <1>3, <3>1
    <3> QED BY <1>5, <2>2, <3>2
  <2>3. CASE a \notin Blocks /\ a \notin placed
    BY <2>3, StatesIs
  <2> QED BY <2>1, <2>2, <2>3
<1>9. ho \in [Ids -> Arrays]
  <2> SUFFICES ASSUME NEW g \in Ids PROVE ho[g] \in Arrays
    OBVIOUS
  <2>1. CASE g \notin placed
    BY <2>1, StatesIs
  <2>2. CASE g \in placed
    <3>1. g - m \in 1 .. d.size
      BY <1>3, <2>2
    <3>2. Of(d, g - m) \in Blocks \/ Of(d, g - m) \in 1 .. d.size
      BY <3>1, DocumentIs
    <3> DEFINE o == Of(d, g - m)
    <3> HIDE DEF o
    <3>3. o \in 1 .. d.size => o + m \in Ids
      BY <1>3 DEF Ids
    <3>4. ho[g] = IF o \in Blocks THEN o ELSE o + m
      BY <2>2 DEF o
    <3>5. o \in Blocks \/ o \in 1 .. d.size
      BY <3>2 DEF o
    <3> HIDE DEF ho
    <3> QED BY <3>3, <3>4, <3>5, Numbers
  <2> QED BY <2>1, <2>2
<1> HIDE DEF q, al, pd, ar, ho, last
<1>10. /\ q \in States /\ q.made = last /\ q.alive = al /\ q.padding = pd /\ q.array = ar
       /\ q.home = ho /\ q.history = s.history /\ q.position = s.position
       /\ q.refresh = s.refresh /\ q.shown = s.shown
  BY <1>2, <1>4, <1>6, <1>7, <1>8, <1>9 DEF States
<1> QED BY <1>10 DEF q, al, pd, ar, ho, last

Cleared(s) ==
  [Free(s, Roots(s)) EXCEPT !.array = [a \in Arrays |-> IF a \in Blocks THEN {} ELSE @[a]]]

Opened(s, d, opened) ==
  LET parsed == DropHistory(Parse(Cleared(s), d), 0)
  IN  [parsed EXCEPT !.position = 0, !.shown = IF opened THEN NULL ELSE @]

LEMMA RootsIs ==
  ASSUME NEW s \in States
  PROVE  Roots(s) \subseteq Ids
<1>1. s.array \in [Arrays -> SUBSET Ids] /\ \A b \in Blocks : b \in Arrays
  BY StatesIs, Numbers
<1>2. \A b \in Blocks : s.array[b] \subseteq Ids
  BY <1>1
<1> QED BY <1>2 DEF Roots

LEMMA ClearedIs ==
  ASSUME NEW s \in States
  PROVE  LET c    == Cleared(s)
             gone == Gone(s, Roots(s))
         IN  /\ c \in States /\ c.alive = s.alive \ gone /\ c.padding = s.padding \ gone
             /\ c.array = [a \in Arrays |-> IF a \in Blocks \/ a \in gone THEN {} ELSE s.array[a]]
             /\ c.made = s.made /\ c.home = s.home /\ c.history = s.history
             /\ c.position = s.position /\ c.refresh = s.refresh /\ c.shown = s.shown
<1> DEFINE f  == Free(s, Roots(s))
           c  == Cleared(s)
           ar == [a \in Arrays |-> IF a \in Blocks THEN {} ELSE f.array[a]]
           gone == Gone(s, Roots(s))
<1>1. Roots(s) \in SUBSET Ids
  BY RootsIs
<1>2. /\ f \in States /\ f.alive = s.alive \ gone /\ f.padding = s.padding \ gone
      /\ f.array = [a \in Arrays |-> IF a \in gone THEN {} ELSE s.array[a]]
      /\ f.made = s.made /\ f.home = s.home /\ f.history = s.history
      /\ f.position = s.position /\ f.refresh = s.refresh /\ f.shown = s.shown
  BY <1>1, FreeIs
<1>3. c = [f EXCEPT !.array = ar]
  BY DEF Cleared
<1> HIDE DEF f, c, gone
<1>4. ar \in [Arrays -> SUBSET Ids]
  BY <1>2, StatesIs
<1>5. ar = [a \in Arrays |-> IF a \in Blocks \/ a \in gone THEN {} ELSE s.array[a]]
  BY <1>2
<1> HIDE DEF ar
<1>6. /\ c \in States /\ c.array = ar /\ c.alive = f.alive /\ c.padding = f.padding
      /\ c.made = f.made /\ c.home = f.home /\ c.history = f.history
      /\ c.position = f.position /\ c.refresh = f.refresh /\ c.shown = f.shown
  BY <1>2, <1>3, <1>4 DEF States
<1> QED BY <1>2, <1>5, <1>6 DEF c, gone

\* What the commands of a history own.
AllOwned(s) == UNION {Owned(s, i) : i \in 1 .. Len(s.history)}

\* Nothing but the groups of the new file is left.
LEMMA NothingLeft ==
  ASSUME NEW s, Good(s, {}), NEW owned, NEW c, c = Cleared(s),
         owned = AllOwned(s)
  PROVE  /\ c.alive \subseteq owned \cup UNION {c.array[g] : g \in owned}
         /\ owned \cup UNION {c.array[g] : g \in owned} \subseteq 1 .. s.made
         /\ owned \subseteq 1 .. s.made
<1> DEFINE gone == Gone(s, Roots(s))
           o    == {}
<1>1. /\ Good(s, o) /\ s \in States /\ s.alive \subseteq 1 .. s.made /\ Places(s, o) /\ Homes(s)
      /\ \A k \in DOMAIN s.history : /\ s.history[k] \in Entries
                                     /\ \A g \in Names(s.history[k]) : g \in s.alive
  BY GoodIs, StatesIs DEF Firm
<1>2. /\ c.alive = s.alive \ gone
      /\ c.array = [a \in Arrays |-> IF a \in Blocks \/ a \in gone THEN {} ELSE s.array[a]]
  BY <1>1, ClearedIs
<1> HIDE DEF o
<1>3. DOMAIN s.history = 1 .. Len(s.history)
  BY <1>1, StatesIs
<1>4. ASSUME NEW i \in DOMAIN s.history
      PROVE  Owned(s, i) = IF i <= s.position THEN Takes(s.history[i]) ELSE Makes(s.history[i])
  BY <1>1, KindsOf
<1>5. owned \subseteq s.alive
  <2> SUFFICES ASSUME NEW i \in DOMAIN s.history, NEW g \in Owned(s, i) PROVE g \in s.alive
    BY <1>3 DEF AllOwned
  <2>1. g \in Names(s.history[i])
    BY <1>1, <1>4, EntriesIs
  <2> QED BY <1>1, <2>1
<1>6. ASSUME NEW a \in Arrays, NEW g \in s.array[a]
      PROVE  g \in Ids /\ g \in s.alive /\ a = s.home[g] /\ In(s, g)
  BY <1>1, StatesIs DEF Places, o
<1>7. owned \cup UNION {c.array[g] : g \in owned} \subseteq 1 .. s.made
  <2>1. ASSUME NEW g \in owned, NEW x \in c.array[g] PROVE x \in 1 .. s.made
    <3>1. g \in Arrays
      BY <1>1, <1>5, StatesIs, Numbers
    <3>2. x \in s.array[g]
      BY <1>2, <2>1, <3>1
    <3> QED BY <1>1, <1>6, <3>1, <3>2
  <2> QED BY <1>1, <1>5, <2>1
<1>8. ASSUME NEW g \in s.alive, ~In(s, g) PROVE g \in owned
  <2>1. PICK k \in DOMAIN s.history : \/ g \in Makes(s.history[k]) /\ ~(k <= s.position)
                                      \/ g \in Takes(s.history[k]) /\ ~(k > s.position)
    BY <1>8 DEF In
  <2>2. k <= s.position <=> ~(k > s.position)
    BY <1>1, <1>3, StatesIs
  <2>3. g \in Owned(s, k)
    BY <1>4, <2>1, <2>2
  <2> QED BY <1>3, <2>3 DEF AllOwned
<1>9. ASSUME NEW g \in s.alive, In(s, g) PROVE s.home[g] \in Arrays /\ g \in s.array[s.home[g]]
  BY <1>1, <1>9, StatesIs DEF Places, o
<1>10. ASSUME NEW g \in c.alive PROVE g \in owned \cup UNION {c.array[x] : x \in owned}
  <2>1. g \in s.alive /\ g \notin gone
    BY <1>2
  <2> SUFFICES ASSUME In(s, g) PROVE g \in UNION {c.array[x] : x \in owned}
    BY <1>8, <2>1
  <2> DEFINE h == s.home[g]
  <2>2. h \in Arrays /\ g \in s.array[h] /\ h \in Blocks \cup s.alive
        /\ (h \in Ids => s.home[h] \in Blocks)
    BY <1>1, <1>9, <2>1 DEF Homes
  <2> HIDE DEF h
  <2>3. h \notin Blocks /\ h \notin Roots(s)
    <3>1. h \notin Roots(s)
      BY <2>1, <2>2 DEF Gone
    <3>2. h \notin Blocks
      BY <2>1, <2>2 DEF Gone, Roots
    <3> QED BY <3>1, <3>2
  <2>4. h \in s.alive /\ h \in Ids /\ s.home[h] \in Blocks
    BY <1>1, <2>2, <2>3, StatesIs
  <2>5. ~In(s, h)
    BY <1>9, <2>3, <2>4 DEF Roots
  <2>6. h \in owned
    BY <1>8, <2>4, <2>5
  <2>7. h \notin gone
    <3> SUFFICES ASSUME NEW r \in Roots(s), h \in s.array[r] PROVE FALSE
      BY <2>3 DEF Gone
    <3>1. r \in Arrays
      BY <1>1, RootsIs, Numbers
    <3> QED BY <1>6, <2>5, <3>1
  <2>8. c.array[h] = s.array[h]
    BY <1>2, <2>2, <2>3, <2>7
  <2> QED BY <2>2, <2>6, <2>8
<1>11. owned \subseteq 1 .. s.made
  BY <1>1, <1>5
<1> QED BY <1>7, <1>10, <1>11

OpenedAs(s, d, t, m, placed, opened) ==
  /\ t \in States /\ t.made = m + d.size /\ t.alive = placed
  /\ t.padding = Moved(d.padding, m)
  /\ \A a \in Arrays :
       t.array[a] = IF a \in Blocks THEN Moved(d.array[a], m)
                    ELSE IF a \in placed THEN Moved(d.array[a - m], m) ELSE {}
  /\ \A g \in placed : t.home[g] = IF Of(d, g - m) \in Blocks THEN Of(d, g - m)
                                   ELSE Of(d, g - m) + m
  /\ t.history = <<>> /\ t.position = 0 /\ t.refresh = s.refresh
  /\ t.shown = IF opened THEN NULL ELSE s.shown

LEMMA OpenedIs ==
  ASSUME NEW s, Good(s, {}), NEW d, IsDocument(d), NEW m, m = s.made, m + d.size <= MaxGroups,
         NEW opened \in BOOLEAN, NEW t, t = Opened(s, d, opened),
         NEW placed, placed = m + 1 .. m + d.size
  PROVE  OpenedAs(s, d, t, m, placed, opened)
<1> DEFINE o     == {}
           z     == 0
           c     == Cleared(s)
           q     == Parse(c, d)
           r     == DropHistory(q, z)
           owned == UNION {Owned(s, i) : i \in 1 .. Len(s.history)}
           gone  == Gone(q, UNION {Owned(q, i) : i \in z + 1 .. Len(q.history)})
           left  == owned \cup UNION {c.array[g] : g \in owned}
<1>1. /\ Good(s, o) /\ s \in States /\ s.alive \subseteq 1 .. m /\ Places(s, o) /\ Homes(s)
      /\ s.padding \subseteq s.alive /\ Len(s.history) \in Nat
  BY GoodIs, StatesIs
<1>2. /\ c \in States /\ c.alive = s.alive \ Gone(s, Roots(s))
      /\ c.padding = s.padding \ Gone(s, Roots(s))
      /\ c.array = [a \in Arrays |-> IF a \in Blocks \/ a \in Gone(s, Roots(s)) THEN {}
                                     ELSE s.array[a]]
      /\ c.made = m /\ c.home = s.home /\ c.history = s.history
      /\ c.position = s.position /\ c.refresh = s.refresh /\ c.shown = s.shown
  BY <1>1, ClearedIs
<1>3. c.alive \subseteq left /\ left \subseteq 1 .. m /\ owned \subseteq 1 .. m
  <2>1. Good(s, {}) /\ c = Cleared(s) /\ owned = AllOwned(s)
    BY DEF AllOwned
  <2> HIDE DEF owned, c
  <2>2. /\ c.alive \subseteq owned \cup UNION {c.array[g] : g \in owned}
        /\ owned \cup UNION {c.array[g] : g \in owned} \subseteq 1 .. s.made
        /\ owned \subseteq 1 .. s.made
    BY <2>1, NothingLeft
  <2> QED BY <2>2
<1> HIDE DEF o, c
<1>4. m \in Nat /\ d.size \in Nat /\ m = c.made
  BY <1>1, <1>2, StatesIs DEF IsDocument
<1>5. /\ q \in States /\ q.made = m + d.size /\ q.alive = c.alive \cup placed
      /\ q.padding = c.padding \cup Moved(d.padding, m)
      /\ q.array = [a \in Arrays |-> IF a \in Blocks THEN Moved(d.array[a], m)
                                     ELSE IF a \in placed THEN Moved(d.array[a - m], m)
                                     ELSE c.array[a]]
      /\ q.home = [g \in Ids |-> IF g \notin placed THEN c.home[g]
                                 ELSE IF Of(d, g - m) \in Blocks THEN Of(d, g - m)
                                 ELSE Of(d, g - m) + m]
      /\ q.history = c.history /\ q.position = c.position
      /\ q.refresh = c.refresh /\ q.shown = c.shown
  <2>1. c \in States /\ IsDocument(d) /\ m = c.made /\ m + d.size <= MaxGroups
    BY <1>2
  <2> QED BY <2>1, ParseIs
<1> HIDE DEF q
<1>6. UNION {Owned(q, i) : i \in z + 1 .. Len(q.history)} = owned
  <2>1. \A i : Owned(q, i) = Owned(s, i)
    BY <1>2, <1>5 DEF Owned
  <2>2. z + 1 .. Len(q.history) = 1 .. Len(s.history)
    BY <1>2, <1>5
  <2> QED BY <2>1, <2>2
<1>7. z \in 0 .. Len(q.history) /\ q \in States
  BY <1>1, <1>2, <1>5
<1> HIDE DEF z
<1>8. /\ r \in States /\ r.alive = q.alive \ gone /\ r.padding = q.padding \ gone
      /\ r.array = [a \in Arrays |-> IF a \in gone THEN {} ELSE q.array[a]]
      /\ r.made = q.made /\ r.home = q.home /\ r.history = SubSeq(q.history, 1, z)
      /\ r.position = q.position /\ r.refresh = q.refresh /\ r.shown = q.shown
  BY <1>7, DropIs
<1> HIDE DEF r
<1>9. gone = left
  <2>1. gone = owned \cup UNION {q.array[g] : g \in owned}
    BY <1>6 DEF Gone
  <2>2. ASSUME NEW g \in owned PROVE q.array[g] = c.array[g]
    <3>1. g \in Ids /\ g \notin Blocks /\ g \notin placed /\ g \in Arrays
      <4>1. g \in 1 .. m /\ m <= MaxGroups
        BY <1>1, <1>3, StatesIs
      <4> QED BY <1>4, <4>1, Numbers, OwnershipAssumption DEF Ids
    <3> QED BY <1>5, <3>1
  <2> QED BY <2>1, <2>2
<1> HIDE DEF gone
<1>10. placed \cap left = {}
  BY <1>3, <1>4
<1>11. r.alive = placed
  BY <1>3, <1>5, <1>8, <1>9, <1>10
<1>12. r.padding = Moved(d.padding, m)
  <2>1. c.padding \subseteq c.alive
    BY <1>1, <1>2
  <2>2. Moved(d.padding, m) \subseteq placed
    <3>1. \A x \in d.padding : x \in 1 .. d.size
      BY DEF IsDocument
    <3> QED BY <1>4, <3>1 DEF Moved
  <2> QED BY <1>3, <1>5, <1>8, <1>9, <1>10, <2>1, <2>2
<1>13. \A a \in Arrays :
         r.array[a] = IF a \in Blocks THEN Moved(d.array[a], m)
                      ELSE IF a \in placed THEN Moved(d.array[a - m], m) ELSE {}
  <2>1. ASSUME NEW a \in Arrays
        PROVE  r.array[a] = IF a \in Blocks THEN Moved(d.array[a], m)
                            ELSE IF a \in placed THEN Moved(d.array[a - m], m) ELSE {}
    <3>1. CASE a \in Blocks
      <4>1. a \notin left
        BY <1>3, <3>1, OwnershipAssumption
      <4> QED BY <1>5, <1>8, <1>9, <3>1, <4>1
    <3>2. CASE a \notin Blocks /\ a \in placed
      BY <1>5, <1>8, <1>9, <1>10, <3>2
    <3>3. CASE a \notin Blocks /\ a \notin placed
      <4> SUFFICES ASSUME a \notin left, NEW g \in c.array[a] PROVE FALSE
        <5>1. r.array[a] = IF a \in left THEN {} ELSE q.array[a]
          BY <1>8, <1>9
        <5>2. q.array[a] = c.array[a]
          BY <1>5, <3>3
        <5> QED BY <3>3, <5>1, <5>2
      <4>1. a \notin Gone(s, Roots(s)) /\ g \in s.array[a]
        BY <1>2
      <4>2. g \in Ids
        BY <1>1, <4>1, StatesIs
      <4>3. a = s.home[g] /\ g \in s.alive
        BY <1>1, <4>1, <4>2 DEF Places
      <4>4. a \in s.alive
        BY <1>1, <3>3, <4>3 DEF Homes
      <4>5. a \in c.alive
        BY <1>2, <4>1, <4>4
      <4> QED BY <1>3, <4>5
    <3> QED BY <3>1, <3>2, <3>3
  <2> QED BY <2>1
<1>14. r.history = <<>>
  <2>1. q.history \in Seq(Entries)
    BY <1>5, StatesIs
  <2> QED BY <1>8, <2>1 DEF z
<1>15. ASSUME NEW g \in placed
       PROVE  r.home[g] = IF Of(d, g - m) \in Blocks THEN Of(d, g - m) ELSE Of(d, g - m) + m
  <2>1. g \in Ids
    BY <1>4, OwnershipAssumption DEF Ids
  <2> QED BY <1>5, <1>8, <2>1
<1> DEFINE row == IF opened THEN NULL ELSE r.shown
<1>16. row \in Ids \cup {NULL} /\ r.shown = s.shown
  BY <1>2, <1>5, <1>8, StatesIs
<1>17. t = [r EXCEPT !.position = 0, !.shown = row]
  BY DEF Opened, r, q, c, z
<1> HIDE DEF row
<1>20. r \in States /\ 0 \in Nat /\ row \in Ids \cup {NULL}
  BY <1>8, <1>16
<1>18. /\ t \in States /\ t.position = 0 /\ t.shown = row
       /\ t.array = r.array /\ t.alive = r.alive /\ t.made = r.made /\ t.padding = r.padding
       /\ t.home = r.home /\ t.history = r.history /\ t.refresh = r.refresh
  BY <1>17, <1>20 DEF States
<1>19. t.made = m + d.size /\ t.refresh = s.refresh
  BY <1>2, <1>5, <1>8, <1>18
<1> QED BY <1>11, <1>12, <1>13, <1>14, <1>15, <1>16, <1>18, <1>19 DEF row, OpenedAs

LEMMA OpenedKeeps ==
  ASSUME NEW s, Good(s, {}), s.refresh = NULL, NEW d, IsDocument(d),
         s.made + d.size <= MaxGroups, NEW opened \in BOOLEAN,
         NEW t, t = Opened(s, d, opened)
  PROVE  /\ Good(t, {}) /\ t.made = s.made + d.size /\ t.alive = s.made + 1 .. s.made + d.size
         /\ t.history = <<>> /\ t.refresh = NULL
         /\ t.shown = IF opened THEN NULL ELSE s.shown
<1> DEFINE m == s.made
           placed == m + 1 .. m + d.size
<1>1. s \in States /\ s.shown <= m
  BY GoodIs
<1>2. /\ m \in Nat /\ d.size \in Nat /\ d.padding \subseteq 1 .. d.size
      /\ d.array \in [Blocks \cup 1 .. d.size -> SUBSET (1 .. d.size)]
      /\ s.shown \in Nat
  <2>1. m \in Nat /\ s.shown \in Ids \cup {NULL}
    BY <1>1, StatesIs
  <2>2. /\ d.size \in Nat /\ d.padding \subseteq 1 .. d.size
        /\ d.array \in [Blocks \cup 1 .. d.size -> SUBSET (1 .. d.size)]
    BY Zenon DEF IsDocument
  <2>3. s.shown \in Nat
    BY <2>1, OwnershipAssumption DEF NULL, Ids
  <2> QED BY <2>1, <2>2, <2>3
<1>3. /\ t \in States /\ t.made = m + d.size /\ t.alive = placed
      /\ t.padding = Moved(d.padding, m)
      /\ \A a \in Arrays :
           t.array[a] = IF a \in Blocks THEN Moved(d.array[a], m)
                        ELSE IF a \in placed THEN Moved(d.array[a - m], m) ELSE {}
      /\ \A g \in placed : t.home[g] = IF Of(d, g - m) \in Blocks THEN Of(d, g - m)
                                       ELSE Of(d, g - m) + m
      /\ t.history = <<>> /\ t.position = 0 /\ t.refresh = s.refresh
      /\ t.shown = IF opened THEN NULL ELSE s.shown
  <2>1. m = s.made /\ m + d.size <= MaxGroups /\ placed = m + 1 .. m + d.size
    OBVIOUS
  <2> HIDE DEF placed, m
  <2>2. OpenedAs(s, d, t, m, placed, opened)
    BY <2>1, OpenedIs
  <2> QED BY <2>2 DEF OpenedAs
<1> HIDE DEF placed, m
<1>4. ASSUME NEW g \in placed
      PROVE  /\ g \in Ids /\ g \in Int /\ g - m \in 1 .. d.size
             /\ Of(d, g - m) \in Blocks \/ Of(d, g - m) \in 1 .. d.size
             /\ \A a \in Blocks \cup 1 .. d.size : g - m \in d.array[a] <=> a = Of(d, g - m)
             /\ Of(d, g - m) \notin Blocks =>
                  /\ Of(d, g - m) \in 1 .. d.size /\ Of(d, g - m) \notin d.padding
                  /\ Of(d, Of(d, g - m)) \in Blocks
             /\ g - m \in d.padding => Of(d, g - m) \in Blocks
  <2>1. g \in Ids /\ g \in Int /\ g - m \in 1 .. d.size
    BY <1>1, <1>2, OwnershipAssumption DEF Ids, placed, m
  <2> QED BY <2>1, DocumentIs
<1>5. ASSUME NEW g \in Ids
      PROVE  g \in Int /\ (g - m \in 1 .. d.size => g \in placed)
  BY <1>2 DEF Ids, placed
<1>6. ASSUME NEW a \in Blocks \cup 1 .. d.size, NEW g \in Ids
      PROVE  g \in Moved(d.array[a], m) <=> g \in placed /\ a = Of(d, g - m)
  <2>1. d.array[a] \in SUBSET (1 .. d.size)
    BY <1>2
  <2>2. g \in Moved(d.array[a], m) <=> g - m \in d.array[a]
    BY <1>2, <1>5, <2>1, MovedBy
  <2> QED BY <1>4, <1>5, <2>1, <2>2
<1>7. ASSUME NEW g \in placed, Of(d, g - m) \notin Blocks
      PROVE  LET h == Of(d, g - m) + m
             IN  h \in placed /\ h - m = Of(d, g - m) /\ t.home[g] = h /\ h \notin Blocks
  <2> DEFINE x == Of(d, g - m)
  <2>1. x \in 1 .. d.size /\ t.home[g] = x + m
    BY <1>3, <1>4, <1>7
  <2> HIDE DEF x
  <2>2. x + m \in placed /\ (x + m) - m = x
    BY <1>2, <2>1 DEF placed
  <2>3. x + m \notin Blocks
    BY <1>4, <2>2, Numbers
  <2> QED BY <2>1, <2>2, <2>3 DEF x
<1>8. Places(t, {})
  <2> SUFFICES ASSUME NEW a \in Arrays, NEW g \in Ids
               PROVE  g \in t.array[a] <=> g \in placed /\ a = t.home[g]
    BY <1>3 DEF Places, In
  <2>1. CASE a \in Blocks
    <3>1. g \in t.array[a] <=> g \in placed /\ a = Of(d, g - m)
      BY <1>3, <1>6, <2>1
    <3> QED BY <1>3, <1>7, <2>1, <3>1
  <2>2. CASE a \notin Blocks /\ a \in placed
    <3>1. a - m \in 1 .. d.size /\ a - m \notin Blocks
      BY <1>4, <2>2, OwnershipAssumption
    <3>2. g \in t.array[a] <=> g \in placed /\ a - m = Of(d, g - m)
      BY <1>3, <1>6, <2>2, <3>1
    <3>3. ASSUME g \in placed, a - m = Of(d, g - m) PROVE a = t.home[g]
      <4>1. t.home[g] = Of(d, g - m) + m
        BY <1>3, <3>1, <3>3
      <4>2. a = (a - m) + m
        BY <1>2, <1>4, <2>2
      <4> QED BY <3>3, <4>1, <4>2
    <3>4. ASSUME g \in placed, a = t.home[g] PROVE a - m = Of(d, g - m)
      <4>1. Of(d, g - m) \notin Blocks
        BY <1>3, <2>2, <3>4
      <4> QED BY <1>7, <3>4, <4>1
    <3> QED BY <3>2, <3>3, <3>4
  <2>3. CASE a \notin Blocks /\ a \notin placed
    <3>1. t.array[a] = {}
      BY <1>3, <2>3
    <3>2. g \in placed => t.home[g] \in Blocks \cup placed
      BY <1>3, <1>7
    <3> QED BY <2>3, <3>1, <3>2
  <2> QED BY <2>1, <2>2, <2>3
<1>9. \A g \in placed : g \in t.padding <=> g - m \in d.padding
  <2> SUFFICES ASSUME NEW g \in placed PROVE g \in t.padding <=> g - m \in d.padding
    OBVIOUS
  <2>1. g \in Int /\ d.padding \in SUBSET (1 .. d.size)
    BY <1>2, <1>4
  <2>2. g \in Moved(d.padding, m) <=> g - m \in d.padding
    BY <1>2, <2>1, MovedBy
  <2> QED BY <1>3, <2>2
<1>10. t.padding \subseteq placed
  BY <1>2, <1>3 DEF Moved, placed
<1>11. Homes(t)
  <2>1. ASSUME NEW g \in placed
        PROVE  /\ t.home[g] \in Blocks \cup (placed \ t.padding)
               /\ t.home[g] \in Ids => t.home[t.home[g]] \in Blocks
    <3>1. CASE Of(d, g - m) \in Blocks
      BY <1>3, <3>1, Numbers
    <3>2. CASE Of(d, g - m) \notin Blocks
      <4> DEFINE h == Of(d, g - m) + m
      <4>1. h \in placed /\ h - m = Of(d, g - m) /\ t.home[g] = h
        BY <1>7, <3>2
      <4> HIDE DEF h
      <4>2. h - m \notin d.padding /\ Of(d, h - m) \in Blocks
        BY <1>4, <3>2, <4>1
      <4>3. t.home[h] \in Blocks
        BY <1>3, <4>1, <4>2
      <4> QED BY <1>9, <4>1, <4>2, <4>3
    <3> QED BY <3>1, <3>2
  <2>2. ASSUME NEW g \in t.padding PROVE t.home[g] \in Blocks
    <3>1. g \in placed /\ g - m \in d.padding
      BY <1>9, <1>10
    <3>2. Of(d, g - m) \in Blocks
      BY <1>4, <3>1
    <3> QED BY <1>3, <3>1, <3>2
  <2> QED BY <1>3, <2>1, <2>2 DEF Homes
<1>12. t.alive \subseteq 1 .. t.made
  BY <1>2, <1>3 DEF placed
<1>13. t.shown <= t.made /\ t.position <= Len(t.history)
  BY <1>1, <1>2, <1>3 DEF NULL, m
<1>14. Once(t) /\ DOMAIN t.history = {}
  BY <1>3 DEF Once
<1>15. Good(t, {})
  BY <1>3, <1>8, <1>10, <1>11, <1>12, <1>13, <1>14 DEF Good, NULL
<1> QED BY <1>3, <1>15 DEF placed, m

(***************************************************************************)
(* The actions.                                                            *)
(***************************************************************************)
LEMMA BecomesIs ==
  ASSUME NEW s \in States, Becomes(s)
  PROVE  State' = s
BY DEF Becomes, State, States

\* What OnlyDroppingFrees says of a step.
DropsToFree == history' = history /\ history # <<>> => alive \ alive' \subseteq padding

LEMMA EffectDrops ==
  ASSUME NEW s, NEW t, Effect(s, t), t.history = s.history
  PROVE  s.alive \ t.alive \subseteq s.padding
<1> SUFFICES ASSUME Dropped(s, t) PROVE FALSE
  BY DEF Effect
<1>1. PICK k \in DOMAIN s.history : \E g \in Makes(s.history[k]) : g \notin t.alive
  BY DEF Dropped
<1>2. PICK g \in Makes(s.history[k]) : g \notin t.alive
  BY <1>1
<1>3. Good(t, {})
  BY DEF Effect
<1>4. t.history[k] \in Entries /\ k \in DOMAIN t.history
  BY <1>3, GoodIs, StatesIs
<1>5. g \in Names(t.history[k])
  BY <1>4, EntriesIs
<1>6. Firm(t, g, k)
  BY <1>3, <1>4, <1>5, GoodIs
<1> QED BY <1>2, <1>6 DEF Firm

LEMMA Kept ==
  ASSUME IInv, NEW t, Effect(State, t), Becomes(t), dialog' = NULL, loaded' = loaded,
         loaded => Shows(t), applying' \in {"no", "undo", "redo"},
         applying' # "no" => t.refresh = NULL
  PROVE  IInv' /\ DropsToFree
<1>1. Good(t, {}) /\ t.made \in Nat
  BY DEF Effect
<1>2. t \in States
  BY <1>1, GoodIs
<1>3. State' = t
  BY <1>2, BecomesIs
<1>4. /\ shown' = t.shown /\ made' = t.made /\ alive' = t.alive /\ history' = t.history
      /\ refresh' = t.refresh
  BY DEF Becomes
<1>5. DropsToFree
  <2>1. State.alive = alive /\ State.padding = padding /\ State.history = history
    BY DEF State
  <2> DEFINE s == State
  <2>2. Effect(s, t)
    OBVIOUS
  <2>3. s.alive = alive /\ s.padding = padding /\ s.history = history
    BY <2>1
  <2> HIDE DEF s
  <2> QED BY <1>4, <2>2, <2>3, EffectDrops DEF DropsToFree
<1>6. Good(State', {})
  BY <1>1, <1>3
<1>7. loaded' /\ shown' # NULL => shown' \in InDocument(State')
  BY <1>3, <1>4 DEF Shows
<1>8. dialog' \in 0 .. made' /\ dialog' \notin alive'
  <2>1. alive' \subseteq 1 .. made'
    BY <1>1, <1>4, GoodIs
  <2> QED BY <1>1, <1>4, <2>1 DEF NULL
<1>9. loaded' \in BOOLEAN
  BY DEF IInv
<1> QED BY <1>4, <1>5, <1>6, <1>7, <1>8, <1>9 DEF IInv

LEMMA Now ==
  ASSUME IInv
  PROVE  /\ Good(State, {}) /\ (loaded => Shows(State))
         /\ State.alive = alive /\ State.made = made /\ State.padding = padding
         /\ State.refresh = refresh /\ State.shown = shown /\ State.position = position
         /\ State.history = history /\ State.home = home /\ State.array = array
BY DEF IInv, State, Shows

LEMMA FlushedIs ==
  ASSUME IInv, NEW s \in Flushed
  PROVE  /\ Good(s, {}) /\ Effect(State, s) /\ Settled(State, s) /\ s.refresh = NULL
         /\ loaded => Shows(s)
<1> DEFINE v == State
<1>1. Good(v, {}) /\ s \in FlushRefresh(v) /\ (loaded => Shows(v))
  BY Now DEF Flushed
<1> HIDE DEF v
<1>2. Effect(v, s) /\ Settled(v, s) /\ s.refresh = NULL /\ (Shows(v) => Shows(s))
  BY <1>1, FlushKeeps
<1> QED BY <1>1, <1>2 DEF Effect, v

LEMMA ThenIs ==
  ASSUME IInv, NEW s \in Flushed, NEW t, Effect(s, t)
  PROVE  Effect(State, t)
<1> DEFINE v == State
<1>1. Good(v, {}) /\ Effect(v, s) /\ Settled(v, s)
  BY Now, FlushedIs
<1> HIDE DEF v
<1>2. Effect(v, t)
  BY <1>1, EffectTrans
<1> QED BY <1>2 DEF v

LEMMA RefreshAction ==
  ASSUME IInv, Refresh
  PROVE  IInv' /\ DropsToFree
<1>1. PICK s \in Flushed : Becomes(s)
  BY DEF Refresh
<1>2. Effect(State, s) /\ (loaded => Shows(s))
  BY FlushedIs
<1>3. dialog' = NULL /\ loaded' = loaded /\ applying' = "no"
  BY DEF Refresh, IInv
<1> QED BY <1>1, <1>2, <1>3, Kept

LEMMA SelectAction ==
  ASSUME IInv, NEW row, Select(row)
  PROVE  IInv' /\ DropsToFree
<1> DEFINE v == State
           o == {}
           t == [v EXCEPT !.shown = row]
<1>1. Good(v, o) /\ row \in InDocument(v) \cup {NULL} /\ Becomes(t)
  BY Now DEF Select
<1>2. dialog' = NULL /\ loaded' = loaded /\ applying' = "no"
  BY DEF Select, Idle
<1> HIDE DEF v
<1>3. row \in v.alive \cup {NULL}
  BY <1>1, OpenIs
<1> HIDE DEF o
<1>4. /\ Good(t, o) /\ t.alive = v.alive /\ t.made = v.made /\ t.padding = v.padding
      /\ t.shown = row /\ t.array = v.array
  BY <1>1, <1>3, ShownKeeps
<1> HIDE DEF t
<1>5. Effect(v, t)
  BY <1>1, <1>4, EffectSame DEF o
<1>6. Shows(t)
  BY <1>1, <1>4 DEF Shows, InDocument, Roots
<1>7. Effect(State, t)
  BY <1>5 DEF v
<1> QED BY <1>1, <1>2, <1>6, <1>7, Kept

LEMMA CancelAction ==
  ASSUME IInv, CancelDelete
  PROVE  IInv' /\ DropsToFree
<1> DEFINE v == State
<1>1. Good(v, {}) /\ (loaded => Shows(v))
  BY Now
<1> HIDE DEF v
<1>2. Effect(v, v)
  BY <1>1, EffectSame
<1>3. dialog' = NULL /\ loaded' = loaded /\ applying' = "no" /\ Becomes(State)
  BY DEF CancelDelete, IInv
<1> QED BY <1>1, <1>2, <1>3, Kept DEF v

LEMMA ShownIsFirm ==
  ASSUME NEW s, Good(s, {}), Shows(s), s.shown # NULL, s.shown \notin s.padding
  PROVE  Firm(s, s.shown, s.position)
<1>1. s.shown \in InDocument(s) \ s.padding
  BY DEF Shows
<1> QED BY <1>1, OpenIsFirm

\* An entry that neither makes nor takes a group.
LEMMA PlainEntry ==
  ASSUME NEW s, Good(s, {}), NEW g, Firm(s, g, s.position), NEW e,
         \/ e = Entry("field", g, NULL, NULL, FALSE)
         \/ e = Entry("move", g, NULL, s.home[g], FALSE)
  PROVE  LET r == PushHistory(s, <<e>>)
         IN  /\ Effect(s, r) /\ Stays(s, r) /\ (Shows(s) => Shows(r))
             /\ r.refresh = s.refresh /\ Len(r.history) = r.position
<1> DEFINE j == FALSE
           o == {}
           a == s.home[g]
           w == NULL
           es == <<e>>
           r == PushHistory(s, es)
<1>1. g \in Ids /\ s \in States /\ w \in Ids \cup {NULL} /\ w \in Arrays \cup {NULL}
      /\ j \in BOOLEAN /\ Good(s, o)
  BY GoodIs, StatesIs DEF Firm
<1>2. a \in Arrays
  BY <1>1, StatesIs
<1>3. e = Entry("field", g, w, w, j) \/ e = Entry("move", g, w, a, j)
  OBVIOUS
<1> HIDE DEF j, o, a, w
<1>4. ASSUME e = Entry("field", g, w, w, j) PROVE Recordable(s, o, <<e>>)
  <2>1. "field" \in Kinds /\ "field" # "replace"
    BY DEF Kinds
  <2>2. /\ e \in Entries /\ e.kind = "field" /\ e.group = g /\ e.replacement = w /\ e.array = w
        /\ Names(e) = {g} /\ Makes(e) = {} /\ Takes(e) = {}
    BY <1>1, <1>4, <2>1, EntryIs
  <2>3. Placed(s, e)
    BY <2>2 DEF Placed, w
  <2> QED BY <1>1, <2>2, <2>3, OneEntry
<1>5. ASSUME e = Entry("move", g, w, a, j) PROVE Recordable(s, o, <<e>>)
  <2>1. "move" \in Kinds /\ "move" # "replace"
    BY DEF Kinds
  <2>2. /\ e \in Entries /\ e.kind = "move" /\ e.group = g /\ e.replacement = w /\ e.array = a
        /\ Names(e) = {g} /\ Makes(e) = {} /\ Takes(e) = {}
    BY <1>1, <1>2, <1>5, <2>1, EntryIs
  <2>3. Placed(s, e)
    BY <2>2 DEF Placed, a
  <2> QED BY <1>1, <2>2, <2>3, OneEntry
<1>6. Recordable(s, o, es) /\ o \subseteq Takes(es[1]) /\ o = {}
  BY <1>3, <1>4, <1>5 DEF o
<1> HIDE DEF es
<1>7. /\ Len(r.history) = r.position /\ Stays(s, r) /\ r.refresh = s.refresh
      /\ o = {} => (Shows(s) => Shows(r)) /\ Effect(s, r)
  BY <1>1, <1>6, RecordKeeps
<1> QED BY <1>6, <1>7 DEF es, r

LEMMA RecordedKeeps ==
  ASSUME NEW s, Good(s, {}), NEW g, Firm(s, g, s.position), NEW r \in Recorded(s, g)
  PROVE  /\ Effect(s, r) /\ Settled(s, r) /\ Stays(s, r) /\ (Shows(s) => Shows(r))
<1>1. CASE r = s
  BY <1>1, EffectSame DEF Settled, Stays
<1>2. CASE r = PushHistory(s, <<Entry("field", g, NULL, NULL, FALSE)>>)
  <2> DEFINE e == Entry("field", g, NULL, NULL, FALSE)
  <2>1. e = Entry("field", g, NULL, NULL, FALSE) /\ r = PushHistory(s, <<e>>)
    BY <1>2
  <2> HIDE DEF e
  <2>2. Effect(s, r) /\ Stays(s, r) /\ (Shows(s) => Shows(r)) /\ Len(r.history) = r.position
    BY <2>1, PlainEntry
  <2> QED BY <2>2 DEF Settled
<1>3. CASE /\ LastWrites(s, g)
           /\ r = [s EXCEPT !.history = SubSeq(@, 1, s.position - 1), !.position = @ - 1]
  <2>1. r = Forgotten(s)
    BY <1>3, ForgottenIs
  <2>2. /\ Effect(s, r) /\ Stays(s, r) /\ Len(r.history) = r.position
        /\ r.shown = s.shown /\ InDocument(r) = InDocument(s)
    BY <1>3, <2>1, ForgetKeeps
  <2> QED BY <2>2 DEF Settled, Shows
<1> QED BY <1>1, <1>2, <1>3 DEF Recorded

LEMMA RequestKeeps ==
  ASSUME NEW s, Good(s, {}), NEW g, Firm(s, g, s.position), NEW t \in RequestRefresh(s, g)
  PROVE  Effect(s, t) /\ (Shows(s) => Shows(t))
<1>1. PICK u : /\ t = [u EXCEPT !.refresh = g]
               /\ u = s \/ u \in FlushRefresh(s)
  BY DEF RequestRefresh
<1>2. Effect(s, u) /\ Stays(s, u) /\ (Shows(s) => Shows(u))
  BY <1>1, EffectSame, FlushKeeps DEF Stays
<1>3. Good(u, {}) /\ Firm(u, g, u.position)
  BY <1>2 DEF Stays, Effect
<1> DEFINE o == {}
           w == [u EXCEPT !.refresh = g]
<1>4. Good(u, o)
  BY <1>3
<1> HIDE DEF o
<1>5. /\ Good(w, o) /\ w.alive = u.alive /\ w.made = u.made /\ w.padding = u.padding
      /\ w.shown = u.shown /\ w.array = u.array
  BY <1>3, <1>4, RefreshKeeps
<1> HIDE DEF w
<1>6. Effect(s, w)
  BY <1>2, <1>5 DEF Effect, Dropped, o
<1>7. InDocument(w) = InDocument(u)
  BY <1>5 DEF InDocument, Roots
<1> QED BY <1>1, <1>2, <1>5, <1>6, <1>7 DEF Shows, w

LEMMA EditAction ==
  ASSUME IInv, Edit
  PROVE  IInv' /\ DropsToFree
<1> DEFINE v == State
<1>1. PICK s \in Recorded(v, shown) : \E t \in {s} \cup RequestRefresh(s, shown) : Becomes(t)
  BY DEF Edit
<1>2. PICK t \in {s} \cup RequestRefresh(s, shown) : Becomes(t)
  BY <1>1
<1>3. /\ Good(v, {}) /\ Shows(v) /\ v.shown = shown /\ shown # NULL /\ shown \notin v.padding
  BY Now DEF Edit, Idle
<1>4. dialog' = NULL /\ loaded' = loaded /\ applying' = "no"
  BY DEF Edit, Idle
<1> HIDE DEF v
<1>5. Firm(v, shown, v.position)
  BY <1>3, ShownIsFirm
<1>6. Effect(v, s) /\ Settled(v, s) /\ Stays(v, s) /\ Shows(s)
  BY <1>1, <1>3, <1>5, RecordedKeeps
<1>7. Good(s, {}) /\ Firm(s, shown, s.position)
  BY <1>5, <1>6 DEF Effect, Stays
<1>8. Effect(s, t) /\ Shows(t)
  BY <1>2, <1>6, <1>7, RequestKeeps, EffectSame
<1>9. Effect(v, t)
  BY <1>3, <1>6, <1>8, EffectTrans
<1>10. Effect(State, t)
  BY <1>9 DEF v
<1> QED BY <1>2, <1>4, <1>8, <1>10, Kept

LEMMA DuplicateAction ==
  ASSUME IInv, Duplicate
  PROVE  IInv' /\ DropsToFree
<1>1. PICK s \in Flushed :
        /\ ParentAr(s, s.shown) # NULL /\ s.shown \notin s.padding
        /\ \E count \in Counts(ParentAr(s, s.shown)) :
             /\ New(s) + count <= MaxGroups
             /\ \E t \in Inserted(s, ParentAr(s, s.shown), count) : Becomes(t)
  BY DEF Duplicate
<1> DEFINE a == ParentAr(s, s.shown)
           g == s.shown
<1>2. PICK count \in Counts(a) : /\ New(s) + count <= MaxGroups
                                 /\ \E t \in Inserted(s, a, count) : Becomes(t)
  BY <1>1
<1>3. PICK t \in Inserted(s, a, count) : Becomes(t)
  BY <1>2
<1>4. loaded /\ dialog' = NULL /\ loaded' = loaded /\ applying' = "no"
  BY DEF Duplicate, Idle
<1>5. Good(s, {}) /\ Shows(s)
  BY <1>4, FlushedIs
<1> DEFINE o == {}
<1>6. Good(s, o)
  BY <1>5
<1> HIDE DEF o
<1>7. a = s.home[g] /\ a \in Arrays /\ g \in Ids /\ g \in s.alive
  BY <1>1, <1>6, ParentIs
<1>8. Firm(s, g, s.position)
  BY <1>1, <1>5, <1>7, Numbers, ShownIsFirm
<1>9. MadeBy(s, a, s.position)
  BY <1>7, <1>8 DEF Firm
<1>10. /\ a \in Blocks \cup (s.alive \ s.padding)
       /\ a \in Ids => s.home[a] \in Blocks
  BY <1>6, <1>7, GoodIs DEF Homes
<1>11. count \in Nat /\ (a \notin Blocks => count = 0)
  BY OwnershipAssumption DEF Counts
<1> HIDE DEF a, g
<1>12. a \in Blocks \/ (a \in s.alive \ s.padding /\ s.home[a] \in Blocks /\ count = 0)
  BY <1>7, <1>10, <1>11 DEF Arrays
<1>13. Effect(s, t) /\ Shows(t)
  BY <1>2, <1>3, <1>5, <1>7, <1>9, <1>11, <1>12, InsertedKeeps
<1>14. Effect(State, t)
  BY <1>1, <1>13, ThenIs
<1> QED BY <1>3, <1>4, <1>13, <1>14, Kept

LEMMA AddAction ==
  ASSUME IInv, Add
  PROVE  IInv' /\ DropsToFree
<1>1. PICK s \in Flushed, b \in Blocks, count \in SubCounts :
        /\ New(s) + count <= MaxGroups
        /\ \E t \in Inserted(s, b, count) : Becomes(t)
  BY DEF Add
<1>2. PICK t \in Inserted(s, b, count) : Becomes(t)
  BY <1>1
<1>3. dialog' = NULL /\ loaded' = loaded /\ applying' = "no"
  BY DEF Add, Idle
<1>4. Good(s, {})
  BY FlushedIs
<1>5. s \in States /\ b \in Arrays /\ count \in Nat
  BY <1>4, GoodIs, Numbers, OwnershipAssumption
<1>6. MadeBy(s, b, s.position)
  BY <1>5, OfBlocks
<1>7. Effect(s, t) /\ Shows(t)
  BY <1>1, <1>2, <1>4, <1>5, <1>6, InsertedKeeps
<1>8. Effect(State, t)
  BY <1>7, ThenIs
<1> QED BY <1>2, <1>3, <1>7, <1>8, Kept

LEMMA MoveAction ==
  ASSUME IInv, Move
  PROVE  IInv' /\ DropsToFree
<1>1. PICK s \in Flushed :
        /\ ParentAr(s, s.shown) # NULL /\ s.shown \notin s.padding
        /\ \E t \in RebuildTree(PushHistory(s, <<Entry("move", s.shown, NULL,
                                                       ParentAr(s, s.shown), FALSE)>>), s.shown) :
             Becomes(t)
  BY DEF Move
<1> DEFINE a == ParentAr(s, s.shown)
           g == s.shown
           e == Entry("move", g, NULL, a, FALSE)
           r == PushHistory(s, <<e>>)
<1>2. PICK t \in RebuildTree(r, g) : Becomes(t)
  BY <1>1
<1>3. loaded /\ dialog' = NULL /\ loaded' = loaded /\ applying' = "no"
  BY DEF Move, Idle
<1>4. Good(s, {}) /\ Shows(s)
  BY <1>3, FlushedIs
<1> DEFINE o == {}
<1>5. Good(s, o)
  BY <1>4
<1> HIDE DEF o
<1>6. a = s.home[g] /\ g \in Ids
  BY <1>1, <1>5, ParentIs
<1>7. Firm(s, g, s.position)
  BY <1>1, <1>4, <1>6, Numbers, ShownIsFirm
<1>8. e = Entry("move", g, NULL, s.home[g], FALSE)
  BY <1>6
<1> HIDE DEF a, g, e
<1>9. Effect(s, r)
  BY <1>4, <1>7, <1>8, PlainEntry
<1> HIDE DEF r
<1>10. Good(r, {})
  BY <1>9 DEF Effect
<1>11. Effect(s, t) /\ Shows(t)
  BY <1>2, <1>9, <1>10, TreeKeeps
<1>12. Effect(State, t)
  BY <1>11, ThenIs
<1> QED BY <1>2, <1>3, <1>11, <1>12, Kept

LEMMA AskAction ==
  ASSUME IInv, AskDelete
  PROVE  IInv' /\ DropsToFree
<1>1. PICK t \in Flushed : /\ ParentAr(t, t.shown) # NULL /\ t.shown \notin t.padding
                           /\ Becomes(t) /\ dialog' = t.shown
  BY DEF AskDelete
<1>2. loaded /\ loaded' = loaded /\ applying' = "no"
  BY DEF AskDelete, Idle
<1>3. Good(t, {}) /\ Effect(State, t) /\ t.refresh = NULL /\ Shows(t)
  BY <1>2, FlushedIs
<1> DEFINE o == {}
<1>4. Good(t, o)
  BY <1>3
<1> HIDE DEF o
<1>5. t.shown \in Ids /\ t \in States
  BY <1>1, <1>4, ParentIs, GoodIs
<1>6. t.shown \in InDocument(t) \ t.padding
  BY <1>1, <1>3, <1>5, Numbers DEF Shows
<1>7. t.shown \in t.alive /\ t.alive \subseteq 1 .. t.made /\ t.made \in Nat
  BY <1>3, <1>4, <1>6, OpenIs, GoodIs DEF Effect
<1>8. State' = t
  BY <1>1, <1>5, BecomesIs
<1>9. /\ shown' = t.shown /\ made' = t.made /\ alive' = t.alive /\ history' = t.history
      /\ refresh' = t.refresh /\ padding' = t.padding
  BY <1>1 DEF Becomes
<1>10. Good(State', {}) /\ InDocument(State') = InDocument(t)
  BY <1>3, <1>8
<1>11. DropsToFree
  <2> DEFINE s == State
  <2>1. Effect(s, t) /\ s.alive = alive /\ s.padding = padding /\ s.history = history
    BY <1>3, Now
  <2> HIDE DEF s
  <2> QED BY <1>9, <2>1, EffectDrops DEF DropsToFree
<1>12. dialog' \in 0 .. made' /\ dialog' \in InDocument(State') \ padding'
  BY <1>1, <1>6, <1>7, <1>9, <1>10
<1>13. loaded' \in BOOLEAN
  BY <1>2
<1> QED BY <1>1, <1>2, <1>3, <1>6, <1>9, <1>10, <1>11, <1>12, <1>13 DEF IInv

LEMMA ConfirmAction ==
  ASSUME IInv, ConfirmDelete
  PROVE  IInv' /\ DropsToFree
<1> DEFINE v == State
           g == dialog
           o == {}
           a == ParentAr(v, g)
           j == FALSE
           w == NULL
           c == Cut(v, a, g)
           e == Entry("remove", g, w, a, j)
           r == PushHistory(c, <<e>>)
<1>1. Good(v, o) /\ Good(v, {}) /\ v.alive = alive /\ (loaded => Shows(v)) /\ v.padding = padding
  BY Now
<1>2. /\ dialog' = NULL /\ loaded' = loaded /\ g \in alive /\ g \in InDocument(v) \ padding
  BY DEF ConfirmDelete, IInv
<1>3. applying' = "no"
  <2>1. g \in Ids
    BY <1>1, <1>2, OpenIs
  <2>2. dialog # NULL
    BY <2>1, Numbers
  <2>3. applying = "no"
    BY <2>2 DEF IInv
  <2> QED BY <2>3 DEF ConfirmDelete
<1>4. w \in Ids \cup {NULL} /\ j \in BOOLEAN
  OBVIOUS
<1>5. IF a = NULL THEN Becomes(v)
      ELSE \E row : \E t \in RebuildTree(r, row) : Becomes(t)
  BY DEF ConfirmDelete
<1>6. CASE a = NULL
  <2>1. Effect(v, v)
    BY <1>1, EffectSame
  <2> QED BY <1>1, <1>2, <1>3, <1>5, <1>6, <2>1, Kept
<1>7. CASE a # NULL
  <2>1. PICK row : \E t \in RebuildTree(r, row) : Becomes(t)
    BY <1>5, <1>7
  <2>2. PICK t \in RebuildTree(r, row) : Becomes(t)
    BY <2>1
  <2> HIDE DEF v, g, o, a, j, w
  <2>3. Firm(v, g, v.position)
    BY <1>1, <1>2, OpenIsFirm
  <2>4. a = v.home[g] /\ a \in Arrays /\ g \in v.array[a] /\ g \in Ids
    BY <1>1, <1>7, ParentIs DEF a
  <2> HIDE DEF c, e, r
  <2>5. /\ Good(c, o \cup {g}) /\ Alike(v, c) /\ In(v, g)
    <3>1. Good(v, o) /\ a \in Arrays /\ g \in v.array[a]
      BY <1>1, <2>4
    <3> QED BY <3>1, CutKeeps DEF c
  <2>6. In(c, g) /\ Firm(c, g, c.position) /\ c.home = v.home
    BY <2>3, <2>5, AlikeKeeps DEF Alike
  <2>7. /\ "remove" \in Kinds /\ "remove" # "replace" /\ "remove" # "insert"
        /\ a \in Arrays \cup {NULL}
    BY <2>4 DEF Kinds
  <2>8. /\ e \in Entries /\ e.kind = "remove" /\ e.group = g /\ e.array = a
        /\ Names(e) = {g} /\ Makes(e) = {} /\ Takes(e) = {g}
    BY <1>4, <2>4, <2>7, EntryIs DEF e
  <2>9. Placed(c, e)
    BY <2>4, <2>6, <2>8 DEF Placed
  <2> DEFINE out == o \cup {g}
             es  == <<e>>
  <2>10. g \in out /\ Good(c, out) /\ out \subseteq Takes(e)
    BY <2>5, <2>8 DEF o
  <2> HIDE DEF out
  <2>11. Recordable(c, out, <<e>>) /\ <<e>>[1] = e
    BY <2>6, <2>8, <2>9, <2>10, OneEntry
  <2>12. Recordable(c, out, es) /\ out \subseteq Takes(es[1]) /\ r = PushHistory(c, es)
    BY <2>10, <2>11 DEF r
  <2> HIDE DEF es
  <2>13. /\ Good(r, {}) /\ r.made = c.made /\ r.padding \subseteq c.padding
         /\ r.alive \subseteq c.alive
         /\ c.alive \ r.alive \subseteq c.padding \/ Dropped(c, r)
    BY <2>10, <2>12, RecordKeeps
  <2>14. v.made \in Nat
    BY <1>1, GoodIs, StatesIs
  <2>15. Effect(v, r)
    BY <2>5, <2>13, <2>14 DEF Effect, Alike, Dropped
  <2>16. Effect(v, t) /\ Shows(t)
    BY <2>2, <2>13, <2>15, TreeKeeps
  <2> QED BY <1>2, <1>3, <2>2, <2>16, Kept DEF v
<1> QED BY <1>6, <1>7

LEMMA DataEntry ==
  ASSUME NEW g \in Ids, NEW j \in BOOLEAN, NEW w, w \in Ids \cup {NULL}, w \in Arrays \cup {NULL},
         NEW e, e = Entry("data", g, w, w, j)
  PROVE  /\ e \in Entries /\ e.kind = "data" /\ e.array = w
         /\ Names(e) = {g} /\ Makes(e) = {} /\ Takes(e) = {}
<1>1. e = [kind |-> "data", group |-> g, replacement |-> w, array |-> w, joined |-> j]
  BY DEF Entry
<1> QED BY <1>1 DEF Entries, Names, Makes, Takes, Kinds

LEMMA ChangesKeep ==
  ASSUME NEW s, Good(s, {}), NEW n \in Nat \ {0},
         NEW changed \in [1 .. n -> InDocument(s) \ s.padding],
         NEW r, r = PushHistory(s, [i \in 1 .. n |-> Entry("data", changed[i], NULL, NULL, i > 1)])
  PROVE  Effect(s, r)
<1> DEFINE o  == {}
           w  == NULL
           es == [i \in 1 .. n |-> Entry("data", changed[i], w, w, i > 1)]
<1>1. w \in Ids \cup {NULL} /\ w \in Arrays \cup {NULL} /\ Good(s, o)
  OBVIOUS
<1>2. r = PushHistory(s, es)
  OBVIOUS
<1> HIDE DEF w, o
<1>3. ASSUME NEW i \in 1 .. n
      PROVE  /\ es[i] \in Entries /\ Names(es[i]) = {changed[i]} /\ Makes(es[i]) = {}
             /\ Takes(es[i]) = {} /\ Placed(s, es[i]) /\ Firm(s, changed[i], s.position)
  <2> DEFINE j == i > 1
             g == changed[i]
             e == es[i]
  <2>1. j \in BOOLEAN /\ g \in InDocument(s) \ s.padding
    OBVIOUS
  <2>2. e = Entry("data", g, w, w, j)
    OBVIOUS
  <2> HIDE DEF j, g, e, es
  <2>3. Firm(s, g, s.position) /\ g \in Ids
    BY <2>1, OpenIsFirm, OpenIs
  <2>5. /\ e \in Entries /\ e.kind = "data" /\ e.array = w
        /\ Names(e) = {g} /\ Makes(e) = {} /\ Takes(e) = {}
    BY <1>1, <2>1, <2>2, <2>3, DataEntry
  <2>6. Placed(s, e)
    BY <2>5 DEF Placed, w
  <2> QED BY <2>3, <2>5, <2>6 DEF e, g
<1>4. es \in [1 .. n -> Entries]
  BY <1>3
<1> HIDE DEF es
<1>5. es \in Seq(Entries) /\ DOMAIN es = 1 .. n /\ Len(es) = n
  BY <1>4
<1>6. es # <<>> /\ 1 \in 1 .. n
  BY <1>5
<1>7. Recordable(s, o, es) /\ o \subseteq Takes(es[1]) /\ o = {}
  BY <1>3, <1>5, <1>6 DEF Recordable, o
<1>8. o = {} => (Shows(s) => Shows(PushHistory(s, es))) /\ Effect(s, PushHistory(s, es))
  BY <1>1, <1>7, RecordKeeps
<1> QED BY <1>2, <1>7, <1>8

LEMMA ChangesAction ==
  ASSUME IInv, ApplyChanges
  PROVE  IInv' /\ DropsToFree
<1>1. PICK s \in Flushed, n \in 1 .. MaxChanged :
        \E changed \in [1 .. n -> InDocument(s) \ s.padding] :
          LET pushed == PushHistory(s, [i \in 1 .. n |->
                          Entry("data", changed[i], NULL, NULL, i > 1)])
          IN  \E t \in RebuildTree(pushed, changed[1]) \cup {[pushed EXCEPT !.shown = NULL]} :
                Becomes(t)
  BY DEF ApplyChanges
<1>2. PICK changed \in [1 .. n -> InDocument(s) \ s.padding] :
          LET pushed == PushHistory(s, [i \in 1 .. n |->
                          Entry("data", changed[i], NULL, NULL, i > 1)])
          IN  \E t \in RebuildTree(pushed, changed[1]) \cup {[pushed EXCEPT !.shown = NULL]} :
                Becomes(t)
  BY <1>1
<1> DEFINE r == PushHistory(s, [i \in 1 .. n |-> Entry("data", changed[i], NULL, NULL, i > 1)])
<1>3. PICK t \in RebuildTree(r, changed[1]) \cup {[r EXCEPT !.shown = NULL]} : Becomes(t)
  BY <1>2
<1>4. dialog' = NULL /\ loaded' = loaded /\ applying' = "no"
  BY DEF ApplyChanges, Idle
<1>5. Good(s, {}) /\ n \in Nat \ {0}
  BY FlushedIs, OwnershipAssumption
<1>6. Effect(s, r)
  BY <1>5, ChangesKeep
<1> DEFINE o == {}
<1> HIDE DEF r
<1>7. Good(r, o)
  BY <1>6 DEF Effect
<1>8. Effect(s, t) /\ Shows(t)
  <2>1. CASE t \in RebuildTree(r, changed[1])
    BY <1>6, <1>7, <2>1, TreeKeeps
  <2>2. CASE t = [r EXCEPT !.shown = NULL]
    <3> DEFINE w == NULL
               u == [r EXCEPT !.shown = w]
    <3>1. w \in r.alive \cup {NULL}
      OBVIOUS
    <3> HIDE DEF w, o
    <3>2. /\ Good(u, o) /\ u.alive = r.alive /\ u.made = r.made /\ u.padding = r.padding
          /\ u.shown = w
      BY <1>7, <3>1, ShownKeeps
    <3>3. t = u
      BY <2>2 DEF w
    <3> HIDE DEF u
    <3> QED BY <1>6, <3>2, <3>3 DEF Effect, Dropped, Shows, o, w
  <2> QED BY <1>3, <2>1, <2>2
<1>9. Effect(State, t)
  BY <1>8, ThenIs
<1> QED BY <1>3, <1>4, <1>8, <1>9, Kept

LEMMA TurnKeeps ==
  ASSUME IInv, NEW s, Good(s, {}), s.refresh = NULL, (loaded => Shows(s)), Effect(State, s),
         Settled(State, s), NEW redo \in BOOLEAN, Step(s, redo), dialog' = NULL, loaded' = loaded
  PROVE  IInv' /\ DropsToFree
<1>1. CASE \E t \in StepTo(s, redo) :
             CanStep(s, redo) /\ Becomes(t) /\ applying' \in {"no", "undo", "redo"}
  <2>1. PICK t \in StepTo(s, redo) : Becomes(t)
    BY <1>1
  <2> DEFINE v == State
  <2>2. Good(v, {}) /\ Effect(v, s) /\ Settled(v, s)
    BY Now
  <2> HIDE DEF v
  <2>3. Effect(s, t) /\ t.refresh = NULL /\ (Shows(s) => Shows(t))
    BY <1>1, <2>1, StepKeeps
  <2>4. Effect(v, t)
    BY <2>2, <2>3, EffectTrans
  <2>5. Effect(State, t)
    BY <2>4 DEF v
  <2> QED BY <1>1, <2>1, <2>3, <2>5, Kept
<1>2. CASE Becomes(s) /\ applying' = "no"
  BY <1>2, Kept
<1> QED BY <1>1, <1>2 DEF Step

LEMMA UndoAction ==
  ASSUME IInv, Undo \/ Redo
  PROVE  IInv' /\ DropsToFree
<1>1. PICK s \in Flushed : \E redo \in BOOLEAN : Step(s, redo)
  BY DEF Undo, Redo
<1>2. PICK redo \in BOOLEAN : Step(s, redo)
  BY <1>1
<1>3. dialog' = NULL /\ loaded' = loaded
  BY DEF Undo, Redo, Idle
<1>4. /\ Good(s, {}) /\ Effect(State, s) /\ Settled(State, s) /\ s.refresh = NULL
      /\ loaded => Shows(s)
  BY FlushedIs
<1> QED BY <1>2, <1>3, <1>4, TurnKeeps

LEMMA ContinueAction ==
  ASSUME IInv, Continue
  PROVE  IInv' /\ DropsToFree
<1> DEFINE v    == State
           redo == applying = "redo"
<1>1. Good(v, {}) /\ (loaded => Shows(v)) /\ v.refresh = NULL
  BY Now DEF IInv, Continue
<1>2. dialog' = NULL /\ loaded' = loaded /\ Step(v, redo) /\ redo \in BOOLEAN
  BY DEF IInv, Continue
<1> HIDE DEF v, redo
<1>3. Effect(v, v) /\ Settled(v, v)
  BY <1>1, EffectSame DEF Settled
<1>4. /\ Good(State, {}) /\ (loaded => Shows(State)) /\ State.refresh = NULL
      /\ Effect(State, State) /\ Settled(State, State) /\ Step(State, redo)
  BY <1>1, <1>2, <1>3 DEF v
<1> QED BY <1>2, <1>4, TurnKeeps

LEMMA LoadAction ==
  ASSUME IInv, NEW d \in Documents, NEW opened \in BOOLEAN, LoadBytes(d, opened)
  PROVE  IInv' /\ DropsToFree
<1>1. PICK s \in Flushed : s.made + d.size <= MaxGroups /\ Becomes(Opened(s, d, opened))
  BY DEF LoadBytes, Opened, Cleared
<1> DEFINE t == Opened(s, d, opened)
<1>2. /\ Good(s, {}) /\ Effect(State, s) /\ s.refresh = NULL
  BY FlushedIs
<1>3. IsDocument(d)
  BY OwnershipAssumption
<1>4. /\ Good(t, {}) /\ t.made = s.made + d.size /\ t.alive = s.made + 1 .. s.made + d.size
      /\ t.history = <<>> /\ t.refresh = NULL
      /\ t.shown = IF opened THEN NULL ELSE s.shown
  BY <1>1, <1>2, <1>3, OpenedKeeps
<1> HIDE DEF t
<1>5. Becomes(t)
  BY <1>1 DEF t
<1>6. State' = t
  BY <1>4, <1>5, GoodIs, BecomesIs
<1>7. /\ shown' = t.shown /\ made' = t.made /\ alive' = t.alive /\ history' = t.history
      /\ refresh' = t.refresh
  BY <1>5 DEF Becomes
<1>8. loaded' = opened /\ dialog' = dialog /\ applying' = applying /\ applying = "no"
  BY DEF LoadBytes
<1>9. Good(State', {})
  BY <1>4, <1>6
<1>10. loaded' => shown' = NULL
  BY <1>4, <1>7, <1>8
<1>11. dialog' \in 0 .. made' /\ dialog' \notin alive'
  <2>1. made <= s.made /\ s.made \in Nat /\ d.size \in Nat
    BY <1>2, <1>3, Now DEF Effect, IsDocument
  <2>2. dialog \in 0 .. made /\ made \in Nat
    <3>1. State.made = made /\ State \in States
      BY Now, GoodIs
    <3>2. made \in 0 .. MaxGroups
      BY <3>1, StatesIs
    <3> QED BY <3>2 DEF IInv
  <2> QED BY <1>4, <1>7, <1>8, <2>1, <2>2
<1>12. DropsToFree
  BY <1>4, <1>7 DEF DropsToFree
<1> QED BY <1>4, <1>7, <1>8, <1>9, <1>10, <1>11, <1>12 DEF IInv

-----------------------------------------------------------------------------
LEMMA Starts ==
  ASSUME Init
  PROVE  IInv
<1> DEFINE s == State
<1>1. /\ s.array = Empty /\ s.alive = {} /\ s.made = 0 /\ s.padding = {}
      /\ s.home = [g \in Ids |-> g] /\ s.history = <<>> /\ s.position = 0 /\ s.refresh = 0
      /\ s.shown = 0
  BY DEF Init, State, NULL
<1>2. s = [array |-> s.array, alive |-> s.alive, made |-> s.made, padding |-> s.padding,
           home |-> s.home, history |-> s.history, position |-> s.position,
           refresh |-> s.refresh, shown |-> s.shown]
  BY DEF State
<1>3. /\ dialog = NULL /\ applying = "no" /\ made = 0 /\ alive = {}
  BY DEF Init
<1> HIDE DEF s
<1>4. /\ Empty \in [Arrays -> SUBSET Ids] /\ <<>> \in Seq(Entries)
      /\ [g \in Ids |-> g] \in [Ids -> Arrays] /\ 0 \in 0 .. MaxGroups
      /\ \A a \in Arrays : Empty[a] = {}
  BY Numbers, OwnershipAssumption DEF Empty
<1> HIDE DEF Empty
<1>5. s \in States
  <2>1. /\ s.array \in [Arrays -> SUBSET Ids] /\ s.alive \in SUBSET Ids /\ s.made \in 0 .. MaxGroups
        /\ s.padding \in SUBSET Ids /\ s.home \in [Ids -> Arrays] /\ s.history \in Seq(Entries)
        /\ s.position \in Nat /\ s.refresh \in Ids \cup {NULL} /\ s.shown \in Ids \cup {NULL}
    BY <1>1, <1>4 DEF NULL
  <2> QED BY <1>2, <2>1 DEF States
<1>6. Places(s, {}) /\ Homes(s) /\ Once(s)
  BY <1>1, <1>4 DEF Places, Homes, Once
<1>7. Good(s, {})
  BY <1>1, <1>5, <1>6 DEF Good, NULL
<1>8. loaded = FALSE
  BY DEF Init
<1>9. loaded \in BOOLEAN /\ ~loaded
  BY <1>8
<1>10. /\ applying \in {"no", "undo", "redo"} /\ dialog \in 0 .. made
       /\ dialog \notin alive /\ applying = "no" /\ dialog = NULL
  BY <1>3 DEF NULL
<1> QED BY <1>7, <1>9, <1>10 DEF IInv, s

LEMMA Steps ==
  ASSUME IInv, [Next]_vars
  PROVE  IInv' /\ (DropsToFree \/ UNCHANGED vars)
<1>1. CASE Next
  <2>1. ASSUME NEW d \in Documents, NEW opened \in BOOLEAN, LoadBytes(d, opened)
        PROVE  IInv' /\ DropsToFree
    BY <2>1, LoadAction
  <2>2. ASSUME NEW row, Select(row) PROVE IInv' /\ DropsToFree
    BY <2>2, SelectAction
  <2> QED BY <1>1, <2>1, <2>2, RefreshAction, EditAction, DuplicateAction, AddAction,
             MoveAction, AskAction, CancelAction, ConfirmAction, ChangesAction, UndoAction,
             ContinueAction DEF Next
<1>2. CASE UNCHANGED vars
  <2>1. State' = State /\ InDocument(State') = InDocument(State)
    BY <1>2 DEF vars, State
  <2>2. /\ loaded' = loaded /\ shown' = shown /\ dialog' = dialog /\ made' = made
        /\ alive' = alive /\ padding' = padding /\ refresh' = refresh /\ applying' = applying
    BY <1>2 DEF vars
  <2> QED BY <1>2, <2>1, <2>2 DEF IInv
<1> QED BY <1>1, <1>2

\* What an array holds follows from the history in every state: an entry takes
\* out what it owns and puts back what it gives up (history.cpp:18-25, 92-129).
THEOREM HoldingFollowsHistory == Spec => []IInv
<1>1. Init => IInv
  BY Starts
<1>2. IInv /\ [Next]_vars => IInv'
  BY Steps
<1> QED BY <1>1, <1>2, PTL DEF Spec

-----------------------------------------------------------------------------
\* Every variable has its type in every state: the position stays in the list
\* of entries, and nothing points beyond the groups made (history.cpp:41-73).
THEOREM GroupsTyped == Spec => []TypeOK
<1>1. ASSUME IInv PROVE TypeOK
  <2> DEFINE s == State
             o == {}
  <2>1. /\ Good(s, o) /\ s.array = array /\ s.alive = alive /\ s.made = made
        /\ s.padding = padding /\ s.home = home /\ s.history = history
        /\ s.position = position /\ s.refresh = refresh /\ s.shown = shown
    BY <1>1, Now
  <2> HIDE DEF s, o
  <2>2. /\ s \in States /\ s.position \in 0 .. Len(s.history) /\ s.alive \subseteq 1 .. s.made
        /\ s.padding \subseteq s.alive /\ s.shown <= s.made
        /\ s.refresh # NULL => s.refresh \in s.alive
    BY <2>1, GoodIs DEF Firm
  <2>3. /\ s.array \in [Arrays -> SUBSET Ids] /\ s.made \in 0 .. MaxGroups
        /\ s.home \in [Ids -> Arrays] /\ s.shown \in Ids \cup {NULL}
        /\ \A k \in DOMAIN s.history : s.history[k] \in Entries
    BY <2>2, StatesIs
  <2>4. \A k \in DOMAIN history : history[k].kind \in Kinds
    BY <2>1, <2>3, EntriesIs
  <2>5. shown \in 0 .. made
    BY <2>1, <2>2, <2>3, OwnershipAssumption DEF Ids, NULL
  <2>6. refresh \in 0 .. made
    BY <2>1, <2>2, <2>3, OwnershipAssumption DEF NULL
  <2>7. dialog \in 0 .. made /\ applying \in {"no", "undo", "redo"} /\ loaded \in BOOLEAN
    BY <1>1 DEF IInv
  <2> QED BY <2>1, <2>2, <2>3, <2>4, <2>5, <2>6, <2>7 DEF TypeOK
<1> QED BY <1>1, HoldingFollowsHistory, PTL

\* Owned by an entry is what is not where it was made for.
LEMMA OwnedIsOut ==
  ASSUME NEW s, NEW out, Good(s, out), NEW g \in Ids
  PROVE  /\ \A i \in DOMAIN s.history : g \in Owned(s, i) => g \in s.alive /\ ~In(s, g)
         /\ \A i, j \in DOMAIN s.history : g \in Owned(s, i) /\ g \in Owned(s, j) => i = j
         /\ g \in s.alive /\ ~In(s, g) => \E i \in DOMAIN s.history : g \in Owned(s, i)
<1> DEFINE p == s.position
<1>1. /\ s \in States /\ p \in Nat /\ Once(s)
      /\ \A k \in DOMAIN s.history : k \in Nat
      /\ \A k \in DOMAIN s.history : \A x \in Names(s.history[k]) : Firm(s, x, k)
      /\ \A k \in DOMAIN s.history : /\ Makes(s.history[k]) \subseteq Names(s.history[k])
                                     /\ Takes(s.history[k]) \subseteq Names(s.history[k])
  BY GoodIs, StatesIs, EntriesIs
<1>2. ASSUME NEW i \in DOMAIN s.history
      PROVE  Owned(s, i) = IF i <= p THEN Takes(s.history[i]) ELSE Makes(s.history[i])
  BY <1>1, KindsOf
<1>3. ASSUME NEW i \in DOMAIN s.history, g \in Owned(s, i) PROVE g \in s.alive /\ ~In(s, g)
  <2>1. g \in Names(s.history[i])
    BY <1>1, <1>2, <1>3
  <2>2. g \in s.alive
    BY <1>1, <2>1 DEF Firm
  <2>3. ~In(s, g)
    BY <1>1, <1>2, <1>3 DEF In
  <2> QED BY <2>2, <2>3
<1>4. ASSUME NEW i \in DOMAIN s.history, NEW j \in DOMAIN s.history, i <= p, ~(j <= p),
             g \in Takes(s.history[i]), g \in Makes(s.history[j])
      PROVE  FALSE
  <2>1. MadeBy(s, g, i)
    BY <1>1, <1>4 DEF Firm
  <2> QED BY <1>1, <1>4, <2>1 DEF MadeBy
<1>5. ASSUME NEW i \in DOMAIN s.history, NEW j \in DOMAIN s.history,
             g \in Owned(s, i), g \in Owned(s, j)
      PROVE  i = j
  <2>1. \/ g \in Takes(s.history[i]) /\ g \in Takes(s.history[j])
        \/ g \in Makes(s.history[i]) /\ g \in Makes(s.history[j])
    BY <1>2, <1>4, <1>5
  <2> QED BY <1>1, <2>1 DEF Once
<1>6. ASSUME g \in s.alive, ~In(s, g) PROVE \E i \in DOMAIN s.history : g \in Owned(s, i)
  <2>1. PICK k \in DOMAIN s.history : \/ g \in Makes(s.history[k]) /\ ~(k <= p)
                                      \/ g \in Takes(s.history[k]) /\ ~(k > p)
    BY <1>6 DEF In
  <2>2. k <= p <=> ~(k > p)
    BY <1>1
  <2> QED BY <1>2, <2>1, <2>2
<1> QED BY <1>3, <1>5, <1>6

\* A group that was not freed has exactly one owner, one that was freed none,
\* whatever is undone, redone, rebuilt and opened: the entries free what is out
\* of the document and nothing else (history.cpp:18-39).
THEOREM NoGroupFreedTwiceOrLost == Spec => []OneOwner
<1>1. ASSUME IInv PROVE OneOwner
  <2> DEFINE s == State
             o == {}
  <2>1. Good(s, o) /\ s.array = array /\ s.alive = alive /\ s.history = history
    BY <1>1, Now
  <2>2. \A i : Owned(State, i) = Owned(s, i)
    OBVIOUS
  <2> HIDE DEF s
  <2>3. Places(s, o) /\ s \in States
    BY <2>1, GoodIs
  <2> SUFFICES ASSUME NEW g \in Ids
               PROVE  IF g \in alive
                      THEN \/ Owning(g) = {} /\ \E a \in Arrays : Holding(g) = {a}
                           \/ Holding(g) = {} /\ \E i \in DOMAIN history : Owning(g) = {i}
                      ELSE Holding(g) = {} /\ Owning(g) = {}
    BY DEF OneOwner
  <2>4. /\ \A i \in DOMAIN history : g \in Owned(s, i) => g \in alive /\ ~In(s, g)
        /\ \A i, j \in DOMAIN history : g \in Owned(s, i) /\ g \in Owned(s, j) => i = j
        /\ g \in alive /\ ~In(s, g) => \E i \in DOMAIN history : g \in Owned(s, i)
    BY <2>1, OwnedIsOut
  <2>5. /\ Holding(g) = {a \in Arrays : g \in alive /\ a = s.home[g] /\ In(s, g)}
        /\ s.home[g] \in Arrays
    BY <2>1, <2>3, StatesIs DEF Holding, Places, o
  <2>6. Owning(g) = {i \in DOMAIN history : g \in Owned(s, i)}
    BY <2>2 DEF Owning
  <2>7. CASE g \in alive /\ In(s, g)
    <3>1. Holding(g) = {s.home[g]} /\ Owning(g) = {}
      BY <2>4, <2>5, <2>6, <2>7
    <3> QED BY <2>5, <2>7, <3>1
  <2>8. CASE g \in alive /\ ~In(s, g)
    <3>1. PICK i \in DOMAIN history : g \in Owned(s, i)
      BY <2>4, <2>8
    <3>2. Owning(g) = {i}
      BY <2>4, <2>6, <3>1
    <3>3. Holding(g) = {}
      BY <2>5, <2>8
    <3> QED BY <2>8, <3>2, <3>3
  <2>9. CASE g \notin alive
    BY <2>4, <2>5, <2>6, <2>9
  <2> QED BY <2>7, <2>8, <2>9
<1> QED BY <1>1, HoldingFollowsHistory, PTL

\* No entry points to a group that was freed, nor to the array of one
\* (history.cpp:92-129).
THEOREM NoEntryDangles == Spec => []EntriesAreAlive
<1>1. ASSUME IInv PROVE EntriesAreAlive
  <2> DEFINE s == State
             o == {}
  <2>1. Good(s, o) /\ s.alive = alive /\ s.history = history
    BY <1>1, Now
  <2> HIDE DEF s
  <2>2. s \in States /\ Homes(s)
    BY <2>1, GoodIs
  <2> SUFFICES ASSUME NEW i \in DOMAIN s.history
               PROVE  LET e == s.history[i]
                      IN  /\ e.group \in s.alive
                          /\ e.kind = "replace" => e.replacement \in s.alive
                          /\ e.array \in s.alive \cup Blocks \cup {NULL}
    BY <2>1 DEF EntriesAreAlive
  <2> DEFINE e == s.history[i]
  <2>3. Placed(s, e) /\ \A g \in Names(e) : g \in s.alive
    BY <2>1, GoodIs DEF Firm
  <2> HIDE DEF e
  <2>4. /\ e.group \in s.alive
        /\ e.kind = "replace" => e.replacement \in s.alive
    BY <2>3 DEF Names
  <2>5. e.array \in s.alive \cup Blocks \cup {NULL}
    BY <2>2, <2>3, <2>4 DEF Placed, Homes
  <2> QED BY <2>4, <2>5 DEF e
<1> QED BY <1>1, HoldingFollowsHistory, PTL

\* Undo and redo find every group where the entry needs it, so that the
\* structure can always be restored (history.cpp:119-122 and 143).
THEOREM UndoFindsItsGroup == Spec => []EntriesApply
<1>1. ASSUME IInv PROVE EntriesApply
  <2> DEFINE s == State
             o == {}
             no == FALSE
             yes == TRUE
  <2>1. Good(s, {}) /\ Good(s, o) /\ s.array = array /\ s.alive = alive /\ s.history = history
    BY <1>1, Now
  <2>2. no \in BOOLEAN /\ yes \in BOOLEAN
    OBVIOUS
  <2> HIDE DEF s, no, yes
  <2>3. /\ CanStep(s, no) => StepTo(s, no) # {}
        /\ CanStep(s, yes) => StepTo(s, yes) # {}
    BY <2>1, <2>2, StepIsPossible
  <2>4. Places(s, o) /\ s \in States
    BY <2>1, GoodIs
  <2>5. ASSUME NEW i \in DOMAIN history, NEW g \in Owned(s, i), NEW a \in Arrays, g \in array[a]
        PROVE  FALSE
    <3>1. g \in Ids
      BY <2>1, <2>4, <2>5, StatesIs
    <3>2. In(s, g)
      BY <2>1, <2>4, <2>5, <3>1 DEF Places
    <3> QED BY <2>1, <2>5, <3>1, <3>2, OwnedIsOut
  <2>6. \A i \in {position, position + 1} \cap DOMAIN history :
          Owned(s, i) \cap UNION {array[a] : a \in Arrays} = {}
    BY <2>5
  <2> QED BY <2>3, <2>6 DEF EntriesApply, s, no, yes
<1> QED BY <1>1, HoldingFollowsHistory, PTL

\* The group a rebuild waits for was not freed (history.cpp:220-305).
THEOREM NoRebuildDangles == Spec => []RefreshIsAlive
<1>1. ASSUME IInv PROVE RefreshIsAlive
  <2> DEFINE s == State
             o == {}
  <2>1. Good(s, o) /\ s.alive = alive /\ s.refresh = refresh
    BY <1>1, Now
  <2> HIDE DEF s
  <2>2. s.refresh # NULL => s.refresh \in s.alive
    BY <2>1, GoodIs DEF Firm
  <2> QED BY <2>1, <2>2 DEF RefreshIsAlive
<1> QED BY <1>1, HoldingFollowsHistory, PTL

\* The rows shown are of a group of the document (sidebar.cpp:821-933).
THEOREM RowsAreOfTheDocument == Spec => []ShownIsOpen
<1>1. IInv => ShownIsOpen
  BY DEF IInv, ShownIsOpen
<1> QED BY <1>1, HoldingFollowsHistory, PTL

\* The group the user is asked about stays in the document, or was freed by a
\* file that was opened (sidebar.cpp:611-660).
THEOREM QuestionIsOfTheDocument == Spec => []AskedIsOpen
<1>1. IInv => AskedIsOpen
  BY DEF IInv, AskedIsOpen
<1> QED BY <1>1, HoldingFollowsHistory, PTL

\* As long as the list of entries stays as it is no group is freed, but for the
\* padding (history.cpp:27-34, grpar.cpp:484).
THEOREM UndoFreesNothing == Spec => OnlyDroppingFrees
<1>1. IInv /\ [Next]_vars =>
        [history' = history /\ history # <<>> => alive \ alive' \subseteq padding]_vars
  BY Steps DEF DropsToFree
<1> QED BY <1>1, HoldingFollowsHistory, PTL DEF Spec, OnlyDroppingFrees
=============================================================================
