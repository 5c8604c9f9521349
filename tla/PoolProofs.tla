----------------------------- MODULE PoolProofs ------------------------------
(***************************************************************************)
(* The pool of objects of SlDriver is whole (PoolIsWhole), for any number of *)
(* tasks and of objects.  That an object is not given back while a message   *)
(* is still on its way to it needs an invariant about the answers as well:   *)
(* each is at one place at most between the request and the mark it leaves.  *)
(***************************************************************************)
EXTENDS DriverProofs

USE DEF Everyone

-----------------------------------------------------------------------------
(* Lists of objects.                                                       *)

Distinct(list) == \A i, j \in DOMAIN list : i # j => list[i] # list[j]

LEMMA InFront ==
    ASSUME NEW S, NEW list \in Seq(S), NEW x \in S
    PROVE  /\ <<x>> \o list \in Seq(S) /\ Len(<<x>> \o list) = Len(list) + 1
           /\ ToSet(<<x>> \o list) = ToSet(list) \cup {x}
           /\ x \notin ToSet(list) /\ Distinct(list) => Distinct(<<x>> \o list)
<1>1. PICK new : new = <<x>> \o list
  OBVIOUS
<1>2. /\ new \in Seq(S) /\ Len(new) = Len(list) + 1 /\ DOMAIN new = 1..Len(list) + 1 /\ new[1] = x
      /\ Len(list) \in Nat /\ DOMAIN list = 1..Len(list)
      /\ \A k \in 1..Len(list) + 1 : k # 1 => new[k] = list[k - 1] /\ k - 1 \in 1..Len(list)
  BY <1>1
<1>3. \A k \in 1..Len(list) : new[k + 1] = list[k] /\ k + 1 \in DOMAIN new
  BY <1>2
<1>4. ToSet(new) = ToSet(list) \cup {x}
  <2>1. ASSUME NEW y \in ToSet(new) PROVE y \in ToSet(list) \cup {x}
    BY <1>2 DEF ToSet
  <2>2. ASSUME NEW y \in ToSet(list) PROVE y \in ToSet(new)
    <3>1. PICK k \in 1..Len(list) : y = list[k]
      BY <1>2 DEF ToSet
    <3>2. k + 1 \in DOMAIN new /\ new[k + 1] = y
      BY <1>3, <3>1
    <3> QED BY <3>2 DEF ToSet
  <2>3. x \in ToSet(new)
    BY <1>2 DEF ToSet
  <2> QED BY <2>1, <2>2, <2>3
<1>5. ASSUME x \notin ToSet(list), Distinct(list) PROVE Distinct(new)
  <2> SUFFICES ASSUME NEW i \in DOMAIN new, NEW j \in DOMAIN new, i # j PROVE new[i] # new[j]
    BY DEF Distinct
  <2>1. CASE i = 1
    <3>1. j - 1 \in DOMAIN list /\ new[j] = list[j - 1]
      BY <1>2, <2>1
    <3> QED BY <1>2, <1>5, <2>1, <3>1 DEF ToSet
  <2>2. CASE j = 1
    <3>1. i - 1 \in DOMAIN list /\ new[i] = list[i - 1]
      BY <1>2, <2>2
    <3> QED BY <1>2, <1>5, <2>2, <3>1 DEF ToSet
  <2>3. CASE i # 1 /\ j # 1
    <3>1. i - 1 \in DOMAIN list /\ j - 1 \in DOMAIN list /\ i - 1 # j - 1
      BY <1>2, <2>3
    <3>2. new[i] = list[i - 1] /\ new[j] = list[j - 1]
      BY <1>2, <2>3
    <3> QED BY <1>5, <3>1, <3>2 DEF Distinct
  <2> QED BY <2>1, <2>2, <2>3
<1> QED BY <1>1, <1>2, <1>4, <1>5

\* A list from which the element at one place is cut.
LEMMA CutOut ==
    ASSUME NEW S, NEW list \in Seq(S), Distinct(list), NEW k \in 1..Len(list), NEW new \in Seq(S), IsCut(new, list, k)
    PROVE  /\ Len(new) = Len(list) - 1 /\ Distinct(new) /\ ToSet(new) = ToSet(list) \ {list[k]}
           /\ list[k] \in ToSet(list) /\ list[k] \in S
<1>1. /\ Len(list) \in Nat /\ Len(new) = Len(list) - 1 /\ DOMAIN list = 1..Len(list) /\ DOMAIN new = 1..Len(list) - 1
      /\ \A i \in DOMAIN new : new[i] = IF i < k THEN list[i] ELSE list[i + 1]
      /\ k \in DOMAIN list /\ list[k] \in S
  BY DEF IsCut
<1> DEFINE Old(i) == IF i < k THEN i ELSE i + 1
<1>2. \A i \in DOMAIN new : Old(i) \in DOMAIN list /\ Old(i) # k /\ new[i] = list[Old(i)]
  BY <1>1
<1>3. \A i, j \in DOMAIN new : i # j => Old(i) # Old(j)
  BY <1>1
<1>4. ASSUME NEW j \in DOMAIN list, j # k PROVE \E i \in DOMAIN new : new[i] = list[j]
  <2>1. CASE j < k
    <3>1. j \in DOMAIN new /\ new[j] = list[j]
      BY <1>1, <2>1
    <3> QED BY <3>1
  <2>2. CASE ~(j < k)
    <3>1. j - 1 \in DOMAIN new /\ ~(j - 1 < k) /\ j - 1 + 1 = j
      BY <1>1, <1>4, <2>2
    <3>2. new[j - 1] = list[j - 1 + 1]
      BY <1>1, <3>1
    <3> QED BY <3>1, <3>2
  <2> QED BY <2>1, <2>2
<1> HIDE DEF Old
<1>5. Distinct(new)
  <2> SUFFICES ASSUME NEW i \in DOMAIN new, NEW j \in DOMAIN new, i # j PROVE new[i] # new[j]
    BY DEF Distinct
  <2> QED BY <1>2, <1>3 DEF Distinct
<1>6. ASSUME NEW y \in ToSet(new) PROVE y \in ToSet(list) /\ y # list[k]
  <2>1. PICK i \in DOMAIN new : y = new[i]
    BY <1>6 DEF ToSet
  <2> QED BY <1>1, <1>2, <2>1 DEF ToSet, Distinct
<1>7. ASSUME NEW y \in ToSet(list), y # list[k] PROVE y \in ToSet(new)
  <2>1. PICK j \in DOMAIN list : y = list[j]
    BY <1>7 DEF ToSet
  <2>2. PICK i \in DOMAIN new : new[i] = list[j]
    BY <1>4, <1>7, <2>1
  <2> QED BY <2>1, <2>2 DEF ToSet
<1>8. list[k] \in ToSet(list)
  BY <1>1 DEF ToSet
<1> QED BY <1>1, <1>5, <1>6, <1>7, <1>8

LEMMA OffTheFront ==
    ASSUME NEW S, NEW list \in Seq(S), Distinct(list), list # <<>>
    PROVE  /\ Tail(list) \in Seq(S) /\ Len(Tail(list)) = Len(list) - 1 /\ Distinct(Tail(list))
           /\ ToSet(Tail(list)) = ToSet(list) \ {Head(list)} /\ Head(list) \in ToSet(list) /\ Head(list) \in S
<1>1. Tail(list) \in Seq(S) /\ IsCut(Tail(list), list, 1) /\ Head(list) = list[1] /\ 1 \in 1..Len(list)
  BY TailIsCut
<1> DEFINE new == Tail(list)
<1>2. new \in Seq(S) /\ IsCut(new, list, 1) /\ 1 \in 1..Len(list)
  BY <1>1
<1> HIDE DEF new
<1>3. /\ Len(new) = Len(list) - 1 /\ Distinct(new) /\ ToSet(new) = ToSet(list) \ {list[1]}
      /\ list[1] \in ToSet(list) /\ list[1] \in S
  BY <1>2, CutOut, Zenon
<1> QED BY <1>1, <1>3 DEF new

LEMMA WithoutOne ==
    ASSUME NEW S, NEW list \in Seq(S), Distinct(list), NEW x \in ToSet(list)
    PROVE  /\ Without(list, x) \in Seq(S) /\ Len(Without(list, x)) = Len(list) - 1
           /\ Distinct(Without(list, x)) /\ ToSet(Without(list, x)) = ToSet(list) \ {x}
<1>1. Len(list) \in Nat /\ DOMAIN list = 1..Len(list)
  OBVIOUS
<1>2. PICK k \in DOMAIN list : list[k] = x
  BY DEF ToSet
<1>3. FirstIn(list, {x}) = k
  <2>1. list[k] \in {x} /\ \A j \in 1..k - 1 : list[j] \notin {x}
    BY <1>1, <1>2 DEF Distinct
  <2>2. \A i \in DOMAIN list : list[i] \in {x} => i = k
    BY <1>2 DEF Distinct
  <2> QED BY <1>2, <2>1, <2>2 DEF FirstIn
<1>4. PICK new : new = SubSeq(list, 1, k - 1) \o SubSeq(list, k + 1, Len(list))
  OBVIOUS
<1>5. new \in Seq(S) /\ IsCut(new, list, k)
  BY <1>1, <1>2, <1>4, Cut
<1>6. /\ Len(new) = Len(list) - 1 /\ Distinct(new) /\ ToSet(new) = ToSet(list) \ {x}
  <2>1. k \in 1..Len(list)
    BY <1>1
  <2>2. /\ Len(new) = Len(list) - 1 /\ Distinct(new) /\ ToSet(new) = ToSet(list) \ {list[k]}
        /\ list[k] \in ToSet(list) /\ list[k] \in S
    <3>1. new \in Seq(S) /\ IsCut(new, list, k)
      BY <1>5
    <3>2. list \in Seq(S) /\ Distinct(list)
      OBVIOUS
    <3> QED BY ONLY <2>1, <3>1, <3>2, CutOut, ZenonT(60)
  <2> QED BY <1>2, <2>2
<1>7. CASE Len(list) = 1
  <2>1. Without(list, x) = <<>>
    BY <1>7 DEF Without
  <2>2. new = <<>>
    BY <1>5, <1>6, <1>7
  <2> QED BY <1>5, <1>6, <2>1, <2>2
<1>8. CASE Len(list) # 1
  <2>1. Without(list, x) = new
    BY <1>3, <1>4, <1>8 DEF Without
  <2> QED BY <1>5, <1>6, <2>1
<1> QED BY <1>7, <1>8

-----------------------------------------------------------------------------
(* The pool.                                                               *)

Free == ToSet(free)
Pend == ToSet(pend)
Act == ToSet(active)

Lists ==
    /\ free \in Seq(Objects) /\ pend \in Seq(Objects) /\ active \in Seq(Objects)
    /\ Distinct(free) /\ Distinct(pend) /\ Distinct(active)
    /\ Free \cap Pend = {} /\ Free \cap Act = {} /\ Pend \cap Act = {}

\* The list that holds the object of a call; none while its task, woken, has yet
\* to go on.
Kept(t) == IF pc[t] # "pend" THEN obj[t] \in Act
           ELSE IF signalled[obj[t]] = TRUE THEN obj[t] \notin Free \cup Pend \cup Act
           ELSE obj[t] \in Pend

Owned ==
    /\ obj \in [Tasks -> Objects \cup {None}] /\ action \in [Objects -> Kinds \cup {None}]
    /\ signalled \in [Objects -> BOOLEAN]
    /\ \A t \in Tasks : /\ obj[t] # None <=> op[t] \in {"select", "recv"}
                        /\ pc[t] = "idle" <=> op[t] = None
                        /\ obj[t] # None => action[obj[t]] = op[t] /\ Kept(t)
    /\ \A t, u \in Tasks : t # u /\ obj[t] # None => obj[t] # obj[u]
    /\ \A i \in Free : signalled[i] = FALSE /\ \A t \in Tasks : obj[t] # i
    /\ \A i \in Pend \cup Act : \E t \in Tasks : obj[t] = i

Active ==
    /\ bitmap = {action[i] : i \in Act}
    /\ \A i, j \in Act : i # j => action[i] # action[j]

Woken == {t \in Tasks : pc[t] = "pend" /\ signalled[obj[t]] = TRUE}

Counted == Len(free) + Len(pend) + Len(active) + Cardinality(Woken) = MAX_CONCURRENT_ACTIONS

PoolInv == Lists /\ Owned /\ Active /\ Counted

LEMMA ListsTyped ==
    ASSUME Lists
    PROVE  /\ Free \subseteq Objects /\ Pend \subseteq Objects /\ Act \subseteq Objects
           /\ Len(free) \in Nat /\ Len(pend) \in Nat /\ Len(active) \in Nat
BY DEF Lists, Free, Pend, Act, ToSet

LEMMA WokenFinite == IsFiniteSet(Woken) /\ Cardinality(Woken) \in Nat
<1>1. Woken \subseteq Tasks /\ IsFiniteSet(Tasks)
  BY SlDriverAssumption DEF Woken
<1> QED BY <1>1, FS_Subset, FS_CardinalityType

\* A step that leaves the lists alone and signals active objects only.
LEMMA PoolStays ==
    ASSUME OpOK, PoolInv, UNCHANGED <<obj, poolVars>>, signalled' \in [Objects -> BOOLEAN],
           \A i \in Objects \ Act : signalled'[i] = signalled[i],
           \A u \in Tasks : /\ pc'[u] = "pend" <=> pc[u] = "pend"
                            /\ pc'[u] = "idle" <=> op'[u] = None
                            /\ op'[u] = op[u] \/ (obj[u] = None /\ op'[u] \notin {"select", "recv"})
    PROVE  PoolInv'
<1>1. UNCHANGED <<obj, action, free, pend, active, bitmap, Free, Pend, Act>>
  BY DEF poolVars, Free, Pend, Act
<1>2. Lists'
  BY <1>1 DEF PoolInv, Lists
<1>3. Free \subseteq Objects /\ Pend \subseteq Objects /\ Free \cap Act = {} /\ Pend \cap Act = {}
  BY ListsTyped DEF PoolInv, Lists
<1>4. \A u \in Tasks : pc[u] = "pend" => obj[u] \in Objects /\ obj[u] \notin Act
  BY <1>3 DEF PoolInv, Owned, OpOK, Kept
<1>5. \A u \in Tasks : pc[u] = "pend" => signalled'[obj[u]] = signalled[obj[u]]
  BY <1>4
<1>6. Owned'
  <2>1. \A u \in Tasks : obj[u] # None => Kept(u)'
    BY <1>1, <1>5 DEF PoolInv, Owned, Kept
  <2>2. \A i \in Free : signalled'[i] = FALSE
    BY <1>3 DEF PoolInv, Owned
  <2>3. \A u \in Tasks : /\ obj[u] # None <=> op'[u] \in {"select", "recv"}
                         /\ obj[u] # None => action[obj[u]] = op'[u]
    BY DEF PoolInv, Owned
  <2> QED BY <1>1, <2>1, <2>2, <2>3 DEF PoolInv, Owned
<1>7. Active' /\ Counted'
  <2>1. Woken' = Woken
    BY <1>1, <1>5 DEF Woken
  <2> QED BY <1>1, <2>1 DEF PoolInv, Active, Counted
<1> QED BY <1>2, <1>6, <1>7 DEF PoolInv

\* Object i, of a call for k, goes to one of two lists and its task to place p.
Moved(t, i, k, p) ==
    /\ pc' = [pc EXCEPT ![t] = p] /\ Len(pend') + Len(active') = Len(pend) + Len(active) + 1
    /\ \/ p = "pend" /\ k \in bitmap /\ Pend' = Pend \cup {i} /\ Act' = Act /\ bitmap' = bitmap
       \/ p # "pend" /\ k \notin bitmap /\ Pend' = Pend /\ Act' = Act \cup {i} /\ bitmap' = bitmap \cup {k}

\* The body of the loop of _SlDrvWaitForPoolObj, for an object in neither list.
LEMMA PlaceMoves ==
    ASSUME Lists, NEW t, NEW k, NEW i \in Objects, i \notin Pend \cup Act, Place(t, i, k),
           free' \in Seq(Objects), Distinct(free'), Free' = Free \ {i}
    PROVE  Lists' /\ \E p \in {"pend", "lock", "credit"} : Moved(t, i, k, p)
<1>1. /\ pend \in Seq(Objects) /\ Distinct(pend) /\ active \in Seq(Objects) /\ Distinct(active)
      /\ i \notin ToSet(pend) /\ i \notin ToSet(active) /\ Len(pend) \in Nat /\ Len(active) \in Nat
  BY ListsTyped DEF Lists, Pend, Act
<1>2. CASE k \in bitmap
  <2>1. pend' = <<i>> \o pend /\ active' = active /\ bitmap' = bitmap /\ pc' = [pc EXCEPT ![t] = "pend"]
    BY <1>2 DEF Place
  <2>2. pend' \in Seq(Objects) /\ Len(pend') = Len(pend) + 1 /\ ToSet(pend') = ToSet(pend) \cup {i} /\ Distinct(pend')
    BY <1>1, <2>1, InFront
  <2>3. Pend' = Pend \cup {i} /\ Act' = Act
    BY <2>1, <2>2 DEF Pend, Act
  <2>4. Lists'
    BY <2>1, <2>2, <2>3 DEF Lists
  <2>5. Len(pend') + Len(active') = Len(pend) + Len(active) + 1
    BY <1>1, <2>1, <2>2
  <2> QED BY <1>2, <2>1, <2>3, <2>4, <2>5 DEF Moved
<1>3. CASE k \notin bitmap
  <2>1. active' = <<i>> \o active /\ pend' = pend /\ bitmap' = bitmap \cup {k} /\ pc' = [pc EXCEPT ![t] = After(k)]
    BY <1>3 DEF Place
  <2>2. active' \in Seq(Objects) /\ Len(active') = Len(active) + 1 /\ ToSet(active') = ToSet(active) \cup {i} /\ Distinct(active')
    BY <1>1, <2>1, InFront
  <2>3. Act' = Act \cup {i} /\ Pend' = Pend
    BY <2>1, <2>2 DEF Pend, Act
  <2>4. Lists'
    BY <2>1, <2>2, <2>3 DEF Lists
  <2>5. Len(pend') + Len(active') = Len(pend) + Len(active) + 1
    BY <1>1, <2>1, <2>2
  <2>6. PICK p \in {"lock", "credit"} : p = After(k)
    BY DEF After
  <2> QED BY <1>3, <2>1, <2>3, <2>4, <2>5, <2>6 DEF Moved
<1> QED BY <1>2, <1>3

LEMMA PoolCall == ASSUME LockOK, OpOK, PoolInv, NEW t \in Tasks, Call(t) PROVE PoolInv'
<1>1. PICK k \in mix[t] : Call(t)!(k)
  BY DEF Call
<1>2. pc[t] = "idle" /\ op[t] = None /\ obj[t] = None /\ signalled' = signalled /\ k \in Kinds
  <2>1. pc[t] = "idle" /\ signalled' = signalled /\ k \in Kinds
    BY <1>1 DEF OpOK
  <2>2. op[t] = None
    BY <2>1 DEF PoolInv, Owned
  <2>3. obj[t] = None
    BY <2>2, SlDriverAssumption DEF PoolInv, Owned, Kinds
  <2> QED BY <2>1, <2>2, <2>3
<1>3. pc \in [Everyone -> Places \cup {"protocol"}] /\ op \in [Tasks -> Kinds \cup {None}]
  BY DEF LockOK, OpOK
<1>4. CASE UNCHANGED <<pc, op, obj, poolVars>>
  BY <1>2, <1>4, PoolStays DEF PoolInv, Owned
<1>5. CASE ~NeedsObject(k)
  <2>1. /\ op' = [op EXCEPT ![t] = k] /\ UNCHANGED <<obj, poolVars>>
        /\ \E p \in {"lock", "credit"} : pc' = [pc EXCEPT ![t] = p]
    BY <1>1, <1>5 DEF Goes
  <2>2. k \notin {"select", "recv", None}
    BY <1>2, <1>5, SlDriverAssumption DEF NeedsObject
  <2>3. PICK p \in {"lock", "credit"} : pc' = [pc EXCEPT ![t] = p]
    BY <2>1
  <2>4. pc'[t] = p /\ \A u \in Tasks \ {t} : pc'[u] = pc[u]
    BY <1>3, <2>3
  <2>5. op'[t] = k /\ \A u \in Tasks \ {t} : op'[u] = op[u]
    BY <1>3, <2>1
  <2>6. \A u \in Tasks : /\ pc'[u] = "pend" <=> pc[u] = "pend"
                         /\ pc'[u] = "idle" <=> op'[u] = None
                         /\ op'[u] = op[u] \/ (obj[u] = None /\ op'[u] \notin {"select", "recv"})
    BY <1>2, <2>2, <2>4, <2>5 DEF PoolInv, Owned
  <2> QED BY <1>2, <2>1, <2>6, PoolStays DEF PoolInv, Owned
<1>6. CASE NeedsObject(k) /\ free # <<>>
  <2>1. PICK i : i = Head(free)
    OBVIOUS
  <2>2. /\ op' = [op EXCEPT ![t] = k] /\ obj' = [obj EXCEPT ![t] = i] /\ action' = [action EXCEPT ![i] = k]
        /\ free' = Tail(free) /\ Place(t, i, k)
    BY <1>1, <1>6, <2>1
  <2>3. /\ free' \in Seq(Objects) /\ Len(free') = Len(free) - 1 /\ Distinct(free')
        /\ Free' = Free \ {i} /\ i \in Free /\ i \in Objects
    BY <1>6, <2>1, <2>2, OffTheFront DEF PoolInv, Lists, Free
  <2>4. i \notin Pend \cup Act /\ signalled[i] = FALSE /\ \A u \in Tasks : obj[u] # i
    BY <2>3 DEF PoolInv, Lists, Owned
  <2>12. Lists'
    BY <2>2, <2>3, <2>4, PlaceMoves DEF PoolInv
  <2>13. PICK p \in {"pend", "lock", "credit"} : Moved(t, i, k, p)
    BY <2>2, <2>3, <2>4, PlaceMoves DEF PoolInv
  <2>5. /\ pc' = [pc EXCEPT ![t] = p]
        /\ \/ p = "pend" /\ k \in bitmap /\ Pend' = Pend \cup {i} /\ Act' = Act /\ bitmap' = bitmap
           \/ p # "pend" /\ k \notin bitmap /\ Pend' = Pend /\ Act' = Act \cup {i} /\ bitmap' = bitmap \cup {k}
    BY <2>13 DEF Moved
  <2>14. pc'[t] = p /\ \A u \in Tasks : u # t => pc'[u] = pc[u]
    BY <1>3, <2>5
  <2>15. op'[t] = k /\ \A u \in Tasks : u # t => op'[u] = op[u]
    BY <1>3, <2>2
  <2>16. /\ obj'[t] = i /\ obj' \in [Tasks -> Objects \cup {None}]
         /\ \A u \in Tasks : u # t => obj'[u] = obj[u]
    BY <2>2, <2>3 DEF PoolInv, Owned
  <2>17. /\ action'[i] = k /\ action' \in [Objects -> Kinds \cup {None}]
         /\ \A j \in Objects : j # i => action'[j] = action[j]
    BY <1>2, <2>2, <2>3 DEF PoolInv, Owned
  <2>6. /\ obj'[t] = i /\ op'[t] = k /\ pc'[t] = p
        /\ \A u \in Tasks : u # t => obj'[u] = obj[u] /\ op'[u] = op[u] /\ pc'[u] = pc[u]
        /\ action'[i] = k /\ \A j \in Objects : j # i => action'[j] = action[j]
        /\ obj' \in [Tasks -> Objects \cup {None}] /\ action' \in [Objects -> Kinds \cup {None}]
    BY <2>14, <2>15, <2>16, <2>17
  <2>7. k \in {"select", "recv"} /\ k # None /\ i # None
    BY <1>2, <1>6, <2>3, SlDriverAssumption DEF NeedsObject
  <2>8. Free \subseteq Objects /\ Pend \subseteq Objects /\ Act \subseteq Objects
    BY ListsTyped DEF PoolInv
  <2>9. Owned'
    <3>1. ASSUME NEW u \in Tasks, u # t, obj[u] # None PROVE action'[obj[u]] = op[u] /\ Kept(u)'
      BY <1>2, <2>3, <2>4, <2>5, <2>6, <3>1 DEF PoolInv, Owned, Kept
    <3>2. action'[obj'[t]] = op'[t] /\ Kept(t)'
      BY <1>2, <2>4, <2>5, <2>6 DEF Kept
    <3>3. \A u, v \in Tasks : u # v /\ obj'[u] # None => obj'[u] # obj'[v]
      BY <2>4, <2>6 DEF PoolInv, Owned
    <3>4. \A j \in Free' : signalled'[j] = FALSE /\ \A u \in Tasks : obj'[u] # j
      BY <1>2, <2>3, <2>6 DEF PoolInv, Owned
    <3>5. \A j \in Pend' \cup Act' : \E u \in Tasks : obj'[u] = j
      <4> SUFFICES ASSUME NEW j \in Pend' \cup Act' PROVE \E u \in Tasks : obj'[u] = j
        OBVIOUS
      <4>1. CASE j = i
        BY <2>6, <4>1
      <4>2. CASE j # i
        <5>1. PICK u \in Tasks : obj[u] = j
          BY <2>5, <4>2 DEF PoolInv, Owned
        <5>2. u # t
          BY <1>2, <2>5, <2>8, <4>2, <5>1, SlDriverAssumption
        <5> QED BY <2>6, <5>1, <5>2
      <4> QED BY <4>1, <4>2
    <3> QED BY <1>2, <2>5, <2>6, <2>7, <3>1, <3>2, <3>3, <3>4, <3>5 DEF PoolInv, Owned
  <2>10. Active'
    <3>1. \A j \in Act : action'[j] = action[j]
      BY <2>4, <2>6, <2>8
    <3>2. CASE Act' = Act /\ bitmap' = bitmap
      BY <3>1, <3>2 DEF PoolInv, Active
    <3>3. CASE k \notin bitmap /\ Act' = Act \cup {i} /\ bitmap' = bitmap \cup {k}
      BY <2>6, <3>1, <3>3 DEF PoolInv, Active
    <3> QED BY <2>5, <3>2, <3>3
  <2>11. Woken' = Woken
    BY <1>2, <2>4, <2>6 DEF Woken
  <2>18. Len(free) \in Nat /\ Len(free') = Len(free) - 1 /\ Len(pend) \in Nat /\ Len(active) \in Nat
         /\ Len(pend') \in Nat /\ Len(active') \in Nat /\ Cardinality(Woken) \in Nat
    BY <2>3, <2>12, ListsTyped, WokenFinite DEF PoolInv, Lists
  <2>19. Counted'
    <3>1. Len(pend') + Len(active') = Len(pend) + Len(active) + 1
      BY <2>13 DEF Moved
    <3>2. Len(free) + Len(pend) + Len(active) + Cardinality(Woken) = MAX_CONCURRENT_ACTIONS
      BY DEF PoolInv, Counted
    <3>3. Cardinality(Woken)' = Cardinality(Woken)
      BY <2>11
    <3>4. Len(free') + (Len(pend') + Len(active')) + Cardinality(Woken)'
             = (Len(free) - 1) + (Len(pend) + Len(active) + 1) + Cardinality(Woken)
      BY <2>18, <3>1, <3>3
    <3>5. Len(free') + Len(pend') + Len(active') + Cardinality(Woken)'
             = Len(free) + Len(pend) + Len(active) + Cardinality(Woken)
      BY <2>18, <3>3, <3>4
    <3> QED BY <3>2, <3>5 DEF Counted
  <2> QED BY <2>9, <2>10, <2>12, <2>19 DEF PoolInv
<1> QED BY <1>1, <1>4, <1>5, <1>6

\* The task that was woken goes on, or pends once more.
LEMMA PoolPended == ASSUME LockOK, OpOK, PoolInv, NEW t \in Tasks, Pended(t) PROVE PoolInv'
<1>1. PICK i : i = obj[t]
  OBVIOUS
<1>2. PICK k : k = op[t]
  OBVIOUS
<1>3. /\ pc[t] = "pend" /\ signalled[i] = TRUE /\ signalled' = [signalled EXCEPT ![i] = FALSE]
      /\ Place(t, i, k) /\ UNCHANGED <<op, obj, action, free>>
  <2>1. op[t] \in {"select", "recv"} /\ obj[t] \in Objects
    BY DEF Pended, OpOK, PoolInv, Owned
  <2> QED BY <1>1, <1>2, <2>1 DEF Pended, callVars, PoolInv, Owned
<1>4. k \in {"select", "recv"} /\ i # None /\ i \in Objects /\ action[i] = k /\ i \notin Free \cup Pend \cup Act
  BY <1>1, <1>2, <1>3 DEF OpOK, PoolInv, Owned, Kept
<1>5. free' \in Seq(Objects) /\ Distinct(free') /\ Free' = Free \ {i} /\ Free' = Free
  BY <1>3, <1>4 DEF PoolInv, Lists, Free
<1>14. Lists'
  BY <1>3, <1>4, <1>5, PlaceMoves DEF PoolInv
<1>15. PICK p \in {"pend", "lock", "credit"} : Moved(t, i, k, p)
  BY <1>3, <1>4, <1>5, PlaceMoves DEF PoolInv
<1>6. /\ pc' = [pc EXCEPT ![t] = p]
      /\ \/ p = "pend" /\ k \in bitmap /\ Pend' = Pend \cup {i} /\ Act' = Act /\ bitmap' = bitmap
         \/ p # "pend" /\ k \notin bitmap /\ Pend' = Pend /\ Act' = Act \cup {i} /\ bitmap' = bitmap \cup {k}
  BY <1>15 DEF Moved
<1>7. /\ pc'[t] = p /\ \A u \in Tasks : u # t => pc'[u] = pc[u]
      /\ signalled'[i] = FALSE /\ \A j \in Objects : j # i => signalled'[j] = signalled[j]
      /\ signalled' \in [Objects -> BOOLEAN]
  <2>1. pc'[t] = p /\ \A u \in Tasks : u # t => pc'[u] = pc[u]
    BY <1>6 DEF LockOK
  <2>2. /\ signalled'[i] = FALSE /\ \A j \in Objects : j # i => signalled'[j] = signalled[j]
        /\ signalled' \in [Objects -> BOOLEAN]
    BY <1>3, <1>4 DEF PoolInv, Owned
  <2> QED BY <2>1, <2>2
<1>8. \A u \in Tasks : u # t /\ obj[u] # None => obj[u] # i /\ obj[u] \in Objects
  BY <1>1, <1>4 DEF PoolInv, Owned
<1>9. Owned'
  <2>1. ASSUME NEW u \in Tasks, u # t, obj[u] # None PROVE Kept(u)'
    BY <1>3, <1>5, <1>6, <1>7, <1>8, <2>1 DEF PoolInv, Owned, Kept
  <2>2. Kept(t)'
    BY <1>1, <1>3, <1>6, <1>7 DEF Kept
  <2>3. \A j \in Free' : signalled'[j] = FALSE /\ \A u \in Tasks : obj'[u] # j
    BY <1>3, <1>4, <1>5, <1>7, ListsTyped DEF PoolInv, Owned
  <2>4. \A j \in Pend' \cup Act' : \E u \in Tasks : obj'[u] = j
    BY <1>1, <1>3, <1>6 DEF PoolInv, Owned
  <2>5. pc'[t] # "idle" /\ op[t] # None
    BY <1>3, <1>7 DEF PoolInv, Owned
  <2> QED BY <1>3, <1>7, <2>1, <2>2, <2>3, <2>4, <2>5 DEF PoolInv, Owned
<1>10. Active'
  <2>1. CASE Act' = Act /\ bitmap' = bitmap
    BY <1>3, <2>1 DEF PoolInv, Active
  <2>2. CASE k \notin bitmap /\ Act' = Act \cup {i} /\ bitmap' = bitmap \cup {k}
    BY <1>3, <1>4, <2>2 DEF PoolInv, Active
  <2> QED BY <1>6, <2>1, <2>2
<1>11. Cardinality(Woken') = Cardinality(Woken) - 1
  <2>1. \A u \in Tasks : pc[u] = "pend" => obj[u] # None
    BY DEF OpOK, PoolInv, Owned
  <2>2. Woken' = Woken \ {t} /\ t \in Woken
    BY <1>1, <1>3, <1>7, <1>8, <2>1 DEF Woken
  <2> QED BY <2>2, WokenFinite, FS_RemoveElement
<1>12. /\ Len(free) \in Nat /\ Len(pend) \in Nat /\ Len(active) \in Nat /\ Cardinality(Woken) \in Nat
       /\ Len(pend') \in Nat /\ Len(active') \in Nat /\ free' = free
  BY <1>3, <1>14, ListsTyped, WokenFinite DEF PoolInv, Lists
<1>13. Counted'
  BY <1>11, <1>12, <1>15 DEF Moved, PoolInv, Counted
<1> QED BY <1>14, <1>9, <1>10, <1>13 DEF PoolInv

\* The call was answered: its object goes back, and the first of those that pend
\* for the same is woken.
LEMMA PoolRelease == ASSUME LockOK, OpOK, PoolInv, NEW t \in Tasks, Release(t) PROVE PoolInv'
<1>1. PICK i : i = obj[t]
  OBVIOUS
<1>2. /\ pc[t] = "await" /\ pc' = [pc EXCEPT ![t] = "idle"] /\ bitmap' = bitmap \ {action[i]}
      /\ action' = [action EXCEPT ![i] = None] /\ active' = Without(active, i) /\ free' = <<i>> \o free
      /\ obj' = [obj EXCEPT ![t] = None] /\ op' = [op EXCEPT ![t] = None]
  BY <1>1 DEF Release, Answered, Goes
<1>3. /\ op[t] \in {"select", "recv"} /\ i # None /\ i \in Objects /\ i \in Act /\ action[i] = op[t]
      /\ i \notin Free /\ i \notin Pend
  <2>1. op[t] \in {"select", "recv"} /\ i # None
    BY <1>1, <1>2 DEF OpOK, PoolInv, Owned
  <2>2. i \in Objects /\ i \in Act /\ action[i] = op[t]
    BY <1>1, <1>2, <2>1 DEF PoolInv, Owned, Kept
  <2> QED BY <2>1, <2>2 DEF PoolInv, Lists
<1>4. /\ active' \in Seq(Objects) /\ Len(active') = Len(active) - 1 /\ Distinct(active') /\ Act' = Act \ {i}
  BY <1>2, <1>3, WithoutOne DEF PoolInv, Lists, Act
<1>5. /\ free' \in Seq(Objects) /\ Len(free') = Len(free) + 1 /\ Distinct(free') /\ Free' = Free \cup {i}
  BY <1>2, <1>3, InFront DEF PoolInv, Lists, Free
<1>6. /\ pc'[t] = "idle" /\ \A u \in Tasks : u # t => pc'[u] = pc[u]
      /\ op'[t] = None /\ \A u \in Tasks : u # t => op'[u] = op[u]
  BY <1>2 DEF LockOK, OpOK
<1>7. /\ obj'[t] = None /\ \A u \in Tasks : u # t => obj'[u] = obj[u]
      /\ obj' \in [Tasks -> Objects \cup {None}]
  BY <1>2 DEF PoolInv, Owned
<1>8. /\ action'[i] = None /\ \A j \in Objects : j # i => action'[j] = action[j]
      /\ action' \in [Objects -> Kinds \cup {None}]
  BY <1>2, <1>3 DEF PoolInv, Owned
<1>9. \A u \in Tasks : u # t /\ obj[u] # None => obj[u] # i /\ obj[u] \in Objects
  BY <1>1, <1>3 DEF PoolInv, Owned
<1>10. Free \subseteq Objects /\ Pend \subseteq Objects /\ Act \subseteq Objects
  BY ListsTyped DEF PoolInv
<1>11. Active'
  <2>1. \A j \in Act' : j \in Act /\ j # i /\ action'[j] = action[j]
    BY <1>4, <1>8, <1>10
  <2>2. ASSUME NEW k \in bitmap' PROVE \E j \in Act' : k = action'[j]
    <3>1. PICK j \in Act : k = action[j] /\ k # action[i]
      BY <1>2, <2>2 DEF PoolInv, Active
    <3> QED BY <1>4, <2>1, <3>1
  <2>3. ASSUME NEW j \in Act' PROVE action'[j] \in bitmap'
    <3>1. action[j] # action[i]
      BY <1>3, <2>1 DEF PoolInv, Active
    <3> QED BY <1>2, <2>1, <3>1 DEF PoolInv, Active
  <2> QED BY <2>1, <2>2, <2>3 DEF PoolInv, Active
\* What is left to show, from the objects that are woken: none or one.
<1>12. ASSUME NEW W \in SUBSET Pend,
              pend' \in Seq(Objects), Distinct(pend'), Pend' = Pend \ W,
              signalled' \in [Objects -> BOOLEAN], signalled'[i] = FALSE, \A j \in W : signalled'[j] = TRUE,
              \A j \in Objects : j # i /\ j \notin W => signalled'[j] = signalled[j],
              \A j, k \in W : j = k,
              Len(pend') = Len(pend) - Cardinality(W), Cardinality(W) \in {0, 1}, Cardinality(W) = 0 <=> W = {}
       PROVE  PoolInv'
  <2>1. Lists'
    BY <1>3, <1>4, <1>5, <1>12 DEF PoolInv, Lists
  <2>2. ASSUME NEW u \in Tasks, u # t, obj[u] # None PROVE Kept(u)'
    <3>1. obj'[u] = obj[u] /\ obj[u] # i /\ obj[u] \in Objects /\ pc'[u] = pc[u] /\ Kept(u)
      BY <1>6, <1>7, <1>9, <2>2 DEF PoolInv, Owned
    <3>2. CASE pc[u] # "pend"
      BY <1>4, <3>1, <3>2 DEF Kept
    <3>3. CASE pc[u] = "pend" /\ obj[u] \in W
      <4>1. signalled'[obj[u]] = TRUE /\ obj[u] \notin Pend' /\ obj[u] \in Pend
        BY <1>12, <3>3
      <4>2. obj[u] \notin Free' /\ obj[u] \notin Act'
        BY <1>4, <1>5, <3>1, <4>1 DEF PoolInv, Lists
      <4> QED BY <3>1, <3>3, <4>1, <4>2 DEF Kept
    <3>4. CASE pc[u] = "pend" /\ obj[u] \notin W
      <4>1. signalled'[obj[u]] = signalled[obj[u]]
        BY <1>12, <3>1, <3>4
      <4> QED BY <1>4, <1>5, <1>12, <3>1, <3>4, <4>1 DEF Kept
    <3> QED BY <3>2, <3>3, <3>4
  <2>3. \A u \in Tasks : /\ obj'[u] # None <=> op'[u] \in {"select", "recv"}
                         /\ pc'[u] = "idle" <=> op'[u] = None
                         /\ obj'[u] # None => action'[obj'[u]] = op'[u] /\ Kept(u)'
    BY <1>6, <1>7, <1>8, <1>9, <2>2, SlDriverAssumption DEF PoolInv, Owned, Kinds
  <2>4. \A u, v \in Tasks : u # v /\ obj'[u] # None => obj'[u] # obj'[v]
    BY <1>7 DEF PoolInv, Owned
  <2>5. \A j \in Free' : signalled'[j] = FALSE /\ \A u \in Tasks : obj'[u] # j
    <3> SUFFICES ASSUME NEW j \in Free' PROVE signalled'[j] = FALSE /\ \A u \in Tasks : obj'[u] # j
      OBVIOUS
    <3>1. CASE j = i
      BY <1>3, <1>7, <1>9, <1>12, <3>1
    <3>2. CASE j # i
      <4>1. j \in Free /\ j \in Objects /\ j \notin W
        BY <1>5, <1>10, <1>12, <3>2 DEF PoolInv, Lists
      <4>2. j # None
        BY <4>1, SlDriverAssumption
      <4> QED BY <1>7, <1>12, <3>2, <4>1, <4>2 DEF PoolInv, Owned
    <3> QED BY <3>1, <3>2
  <2>6. ASSUME NEW j \in Pend' \cup Act' PROVE \E u \in Tasks : obj'[u] = j
    <3>1. j \in Pend \cup Act /\ j # i
      BY <1>3, <1>4, <1>12, <2>6
    <3>2. PICK u \in Tasks : obj[u] = j
      BY <3>1 DEF PoolInv, Owned
    <3> QED BY <1>1, <1>7, <3>1, <3>2
  <2>7. Owned'
    BY <1>7, <1>8, <1>12, <2>3, <2>4, <2>5, <2>6 DEF Owned
  <2>8. \A u \in Tasks : pc[u] = "pend" => obj[u] # None
    BY DEF OpOK, PoolInv, Owned
  <2>9. \A u \in Woken : u # t /\ obj[u] \notin W /\ obj[u] # i /\ obj[u] \in Objects
    BY <1>2, <1>9, <1>12, <2>8 DEF Woken, PoolInv, Owned, Kept
  <2>10. Len(pend') + Cardinality(Woken') = Len(pend) + Cardinality(Woken)
    <3>1. Len(pend) \in Nat
      BY ListsTyped DEF PoolInv
    <3>2. CASE W = {}
      <4>1. Woken' = Woken
        BY <1>6, <1>7, <1>9, <1>12, <2>8, <2>9, <3>2 DEF Woken
      <4> QED BY <1>12, <3>1, <3>2, <4>1, WokenFinite
    <3>3. CASE W # {}
      <4>1. PICK j \in W : TRUE
        BY <3>3
      <4>2. PICK u \in Tasks : obj[u] = j
        BY <1>12, <4>1 DEF PoolInv, Owned
      <4>3. pc[u] = "pend" /\ u # t /\ u \notin Woken
        BY <1>1, <1>3, <1>10, <1>12, <2>9, <4>1, <4>2, SlDriverAssumption DEF PoolInv, Owned, Kept, Lists
      <4>4. \A v \in Tasks : v # u /\ obj[v] # None => obj[v] \notin W
        BY <1>12, <4>1, <4>2 DEF PoolInv, Owned
      <4>5. ASSUME NEW v \in Woken' PROVE v \in Woken \/ v = u
        <5>1. v \in Tasks /\ pc'[v] = "pend" /\ v # t /\ signalled'[obj'[v]] = TRUE
          BY <1>6 DEF Woken
        <5>2. pc[v] = "pend" /\ signalled'[obj[v]] = TRUE /\ obj[v] \in Objects /\ obj[v] # i /\ obj[v] # None
          BY <1>6, <1>7, <1>9, <2>8, <5>1
        <5> QED BY <1>12, <4>4, <5>1, <5>2 DEF Woken
      <4>6. ASSUME NEW v \in Woken PROVE v \in Woken'
        <5>1. v \in Tasks /\ pc[v] = "pend" /\ signalled[obj[v]] = TRUE
          BY DEF Woken
        <5> QED BY <1>6, <1>7, <1>12, <2>9, <5>1 DEF Woken
      <4>7. u \in Woken'
        <5>1. pc'[u] = "pend" /\ signalled'[obj'[u]] = TRUE
          BY <1>6, <1>7, <1>12, <4>1, <4>2, <4>3
        <5> QED BY <5>1 DEF Woken
      <4>8. Woken' = Woken \cup {u}
        BY <4>5, <4>6, <4>7
      <4>9. Cardinality(Woken') = Cardinality(Woken) + 1
        BY <4>3, <4>8, WokenFinite, FS_AddElement
      <4> QED BY <1>12, <3>1, <3>3, <4>9, WokenFinite
    <3> QED BY <3>2, <3>3
  <2>11. /\ Len(free) \in Nat /\ Len(pend) \in Nat /\ Len(active) \in Nat /\ Cardinality(Woken) \in Nat
         /\ Len(pend') \in Nat /\ Cardinality(Woken') \in Int
    <3>1. Len(free) \in Nat /\ Len(pend) \in Nat /\ Len(active) \in Nat /\ Cardinality(Woken) \in Nat /\ Len(pend') \in Nat
      BY <1>12, ListsTyped, WokenFinite DEF PoolInv
    <3>2. Woken' \subseteq Tasks
      BY DEF Woken
    <3> QED BY <3>1, <3>2, SlDriverAssumption, FS_Subset, FS_CardinalityType
  <2>12. Counted'
    <3>1. Len(free) + Len(pend) + Len(active) + Cardinality(Woken) = MAX_CONCURRENT_ACTIONS
      BY DEF PoolInv, Counted
    <3>2. Len(free') + Len(active') = Len(free) + Len(active)
      <4>1. Len(free') + Len(active') = (Len(free) + 1) + (Len(active) - 1)
        BY <1>4, <1>5
      <4> QED BY <2>11, <4>1
    <3>3. Len(free') \in Int /\ Len(active') \in Int
      <4>1. Len(free) + 1 \in Int /\ Len(active) - 1 \in Int
        BY <2>11
      <4> QED BY <1>4, <1>5, <4>1
    <3>4. Len(free') + Len(pend') + Len(active') + Cardinality(Woken')
             = (Len(free') + Len(active')) + (Len(pend') + Cardinality(Woken'))
      BY <2>11, <3>3
    <3>5. Len(free') + Len(pend') + Len(active') + Cardinality(Woken')
             = (Len(free) + Len(active)) + (Len(pend) + Cardinality(Woken))
      BY <2>10, <3>2, <3>4
    <3>6. Len(free') + Len(pend') + Len(active') + Cardinality(Woken') = MAX_CONCURRENT_ACTIONS
      BY <2>11, <3>1, <3>5
    <3> QED BY <3>6 DEF Counted
  <2> QED BY <1>11, <2>1, <2>7, <2>12 DEF PoolInv
<1>13. CASE UNCHANGED pend /\ signalled' = [signalled EXCEPT ![i] = FALSE]
  <2>1. Cardinality({}) = 0 /\ {} \in SUBSET Pend
    BY FS_EmptySet
  <2>2. pend' \in Seq(Objects) /\ Distinct(pend') /\ Pend' = Pend \ {} /\ Len(pend') = Len(pend) - Cardinality({})
    BY <1>13, <2>1, ListsTyped DEF PoolInv, Lists, Pend
  <2>3. /\ signalled' \in [Objects -> BOOLEAN] /\ signalled'[i] = FALSE
        /\ \A j \in Objects : j # i => signalled'[j] = signalled[j]
    BY <1>3, <1>13 DEF PoolInv, Owned
  <2> QED BY <1>12, <2>1, <2>2, <2>3
<1>14. CASE \E j \in Rivals(i) : pend' = Without(pend, j) /\ signalled' = [signalled EXCEPT ![i] = FALSE, ![j] = TRUE]
  <2>1. PICK j \in Rivals(i) : pend' = Without(pend, j) /\ signalled' = [signalled EXCEPT ![i] = FALSE, ![j] = TRUE]
    BY <1>14
  <2>2. j \in Pend /\ j \in Objects /\ j # i
    BY <1>3, <1>10 DEF Rivals, Pend
  <2>3. Cardinality({j}) = 1 /\ {j} \in SUBSET Pend
    BY <2>2, FS_Singleton
  <2>4. pend' \in Seq(Objects) /\ Distinct(pend') /\ Pend' = Pend \ {j} /\ Len(pend') = Len(pend) - Cardinality({j})
    BY <2>1, <2>2, <2>3, WithoutOne DEF PoolInv, Lists, Pend
  <2>5. /\ signalled' \in [Objects -> BOOLEAN] /\ signalled'[i] = FALSE /\ signalled'[j] = TRUE
        /\ \A k \in Objects : k # i /\ k # j => signalled'[k] = signalled[k]
    <3>1. signalled \in [Objects -> BOOLEAN] /\ i \in Objects
      BY <1>3 DEF PoolInv, Owned
    <3>2. signalled' \in [Objects -> BOOLEAN]
      BY <2>1, <3>1
    <3> QED BY <2>1, <2>2, <3>1, <3>2
  <2>6. PICK W : W = {j}
    OBVIOUS
  <2>7. /\ W \in SUBSET Pend /\ pend' \in Seq(Objects) /\ Distinct(pend') /\ Pend' = Pend \ W
        /\ Len(pend') = Len(pend) - Cardinality(W) /\ Cardinality(W) \in {0, 1}
        /\ Cardinality(W) = 0 <=> W = {}
    BY <2>3, <2>4, <2>6
  <2>8. /\ \A k \in W : signalled'[k] = TRUE
        /\ \A k \in Objects : k # i /\ k \notin W => signalled'[k] = signalled[k]
        /\ \A k, l \in W : k = l
    BY <2>5, <2>6
  <2> QED BY <1>12, <2>5, <2>7, <2>8
<1> QED BY <1>1, <1>13, <1>14 DEF Release

-----------------------------------------------------------------------------
(* The answer to a call that has an object: before it marks the object it is *)
(* requested, owed, on its way or being read, at one of these places at most. *)

Known == {<<"resp", k>> : k \in Kinds}
             \cup {<<"async", "select">>, <<"async", None>>, <<"recv", "recv">>, <<"dummy", None>>}

AnswerTo(k) == IF k = "select" THEN <<"async", "select">> ELSE <<"recv", "recv">>

Requested(k) == k = "select" /\ <<"resp", "select">> \in due
Owed(k) == AnswerTo(k) \in due
OnItsWay(k) == {i \in DOMAIN out : out[i] = AnswerTo(k)}
Heard(k) == k = "select" /\ Reading /\ msg = <<"async", "select">>
Marked(k) == \E i \in Act : action[i] = k /\ signalled[i] = TRUE

\* A task that has asked, and not been given its answer.
AskedPlaces == {"check", "count", "clear", "wait", "unlock", "more", "await"}
Asked(k) == \E t \in Tasks : op[t] = k /\ pc[t] \in AskedPlaces

Once(k) ==
    /\ Requested(k) => ~Owed(k) /\ OnItsWay(k) = {} /\ ~Heard(k) /\ ~Marked(k)
    /\ Owed(k) => OnItsWay(k) = {} /\ ~Heard(k) /\ ~Marked(k)
    /\ OnItsWay(k) # {} => ~Heard(k) /\ ~Marked(k)
    /\ Heard(k) => ~Marked(k)
    /\ \A i, j \in OnItsWay(k) : i = j
    /\ Requested(k) \/ Owed(k) \/ OnItsWay(k) # {} \/ Heard(k) \/ Marked(k) => Asked(k)

FoundOK == Reading /\ msg[1] = "async" =>
               IF msg[2] = "select" THEN found \in Act /\ action[found] = "select" ELSE found = None

Answers ==
    /\ due \subseteq Known /\ \A i \in DOMAIN out : out[i] \in Known
    /\ Reading => msg \in Known
    /\ FoundOK
    /\ \A k \in {"select", "recv"} : Once(k)

\* Who has asked has an active object, and nobody else one for the same.
LEMMA AskedHasObject ==
    ASSUME OpOK, PoolInv, NEW t \in Tasks, op[t] \in {"select", "recv"}, pc[t] # "pend"
    PROVE  /\ obj[t] \in Act /\ action[obj[t]] = op[t]
           /\ \A i \in Act : action[i] = op[t] => i = obj[t]
           /\ \A u \in Tasks : op[u] = op[t] /\ pc[u] # "pend" => u = t
<1>1. \A u \in Tasks : op[u] \in {"select", "recv"} /\ pc[u] # "pend" =>
          obj[u] # None /\ obj[u] \in Act /\ action[obj[u]] = op[u]
  BY DEF PoolInv, Owned, Kept
<1>2. \A u \in Tasks : op[u] = op[t] /\ pc[u] # "pend" => obj[u] = obj[t]
  BY <1>1 DEF PoolInv, Active
<1> QED BY <1>1, <1>2 DEF PoolInv, Active, Owned

\* A step that brings no answer anywhere.
LEMMA OnceStays ==
    ASSUME NEW k, Once(k), Requested(k)' => Requested(k), Owed(k)' => Owed(k), OnItsWay(k)' \subseteq OnItsWay(k),
           Heard(k)' => Heard(k), Marked(k)' => Marked(k),
           Requested(k) \/ Owed(k) \/ OnItsWay(k) # {} \/ Heard(k) \/ Marked(k)' => (Asked(k) => Asked(k)')
    PROVE  Once(k)'
BY DEF Once

LEMMA AnswersStay ==
    ASSUME Answers, UNCHANGED <<out, due, msg, found>>, Reading' => Reading,
           NEW k0, \A k \in {"select", "recv"} : k # k0 => (Asked(k) => Asked(k)'),
           \A k \in {"select", "recv"} : Marked(k)' => Marked(k),
           k0 \in {"select", "recv"} => ~Marked(k0)' /\ ~Requested(k0) /\ ~Owed(k0) /\ OnItsWay(k0) = {} /\ ~Heard(k0),
           \A i \in Act : action[i] = "select" /\ k0 # "select" => i \in Act' /\ action'[i] = "select"
    PROVE  Answers'
<1>1. \A k \in {"select", "recv"} : /\ Requested(k)' <=> Requested(k)
                                    /\ Owed(k)' <=> Owed(k)
                                    /\ OnItsWay(k)' = OnItsWay(k)
                                    /\ Heard(k)' => Heard(k)
  BY DEF Requested, Owed, OnItsWay, Heard, AnswerTo
<1>2. ASSUME NEW k \in {"select", "recv"} PROVE Once(k)'
  <2>1. Once(k)
    BY DEF Answers
  <2>2. CASE k = k0
    BY <1>1, <2>1, <2>2, OnceStays DEF Once
  <2>3. CASE k # k0
    BY <1>1, <2>1, <2>3, OnceStays
  <2> QED BY <2>2, <2>3
<1>3. FoundOK'
  <2>1. Reading /\ msg[1] = "async" /\ msg[2] = "select" => msg = <<"async", "select">>
    BY DEF Answers, Known
  <2>2. Reading /\ msg[1] = "async" /\ msg[2] = "select" => k0 # "select"
    BY <2>1 DEF Answers, Once, Heard
  <2> QED BY <2>2 DEF Answers, FoundOK
<1> QED BY <1>2, <1>3 DEF Answers

\* Steps that neither the pool nor the answers notice.
LEMMA PlainStep ==
    ASSUME LockOK, OpOK, PoolInv, Answers, UNCHANGED <<obj, poolVars, signalled, out, due, msg, found>>,
           Reading' => Reading,
           \A u \in Tasks : /\ pc'[u] = "pend" <=> pc[u] = "pend"
                            /\ pc'[u] = "idle" <=> op'[u] = None
                            /\ op'[u] = op[u] \/ (obj[u] = None /\ op'[u] \notin {"select", "recv"})
                            /\ pc[u] \in AskedPlaces /\ op[u] # "cmd" => pc'[u] \in AskedPlaces
    PROVE  PoolInv' /\ Answers'
<1>1. PoolInv'
  BY PoolStays DEF PoolInv, Owned
<1>2. Act' = Act /\ action' = action
  BY DEF poolVars, Act
<1>3. \A k \in {"select", "recv"} : (Asked(k) => Asked(k)') /\ (Marked(k)' => Marked(k))
  <2> SUFFICES ASSUME NEW k \in {"select", "recv"} PROVE (Asked(k) => Asked(k)') /\ (Marked(k)' => Marked(k))
    OBVIOUS
  <2>1. ASSUME NEW t \in Tasks, op[t] = k, pc[t] \in AskedPlaces PROVE Asked(k)'
    <3>1. obj[t] # None /\ op[t] # "cmd"
      BY <2>1 DEF PoolInv, Owned
    <3> QED BY <2>1, <3>1 DEF Asked
  <2> QED BY <1>2, <2>1 DEF Asked, Marked
<1>4. None \notin {"select", "recv"}
  BY SlDriverAssumption DEF Kinds
<1>5. Answers'
  <2>1. PICK k0 : k0 = None
    OBVIOUS
  <2> QED BY <1>2, <1>3, <1>4, <2>1, AnswersStay
<1> QED BY <1>1, <1>5

LEMMA PlainTask ==
    ASSUME LockOK, OpOK, PoolInv, Answers, NEW t \in Tasks,
           \/ Check(t) \/ Wait(t) \/ Unlock(t) \/ Clear(t) \/ More(t)
           \/ Credit(t) \/ Test(t) \/ Starved(t) \/ Charge(t)
    PROVE  PoolInv' /\ Answers'
<1>1. UNCHANGED <<obj, poolVars, signalled, out, due, msg, found>>
  BY DEF Check, Wait, Unlock, Clear, More, Returns, Credit, Test, Starved, Charge, callVars, nwpVars
<1>2. PICK p : /\ pc' = [pc EXCEPT ![t] = p] /\ p \notin {"pend", "count"}
               /\ op[t] # None /\ pc[t] # "pend"
               /\ \/ op' = op /\ p # "idle" /\ (pc[t] \in AskedPlaces => p \in AskedPlaces)
                  \/ op[t] = "cmd" /\ p = "idle" /\ op' = [op EXCEPT ![t] = None]
  <2>1. pc[t] # "idle" => op[t] # None
    BY DEF PoolInv, Owned
  <2>2. CASE More(t)
    <3>1. pc[t] = "more" /\ op[t] \in {"cmd", "select"}
      BY <2>2 DEF More, Returns, Goes, OpOK
    <3>2. CASE op[t] = "cmd"
      <4>1. pc' = [pc EXCEPT ![t] = "idle"] /\ op' = [op EXCEPT ![t] = None]
        BY <2>2, <3>2 DEF More, Returns, Goes
      <4> QED BY <3>1, <3>2, <4>1, <2>1
    <3>3. CASE op[t] # "cmd"
      <4>1. pc' = [pc EXCEPT ![t] = "await"] /\ op' = [op EXCEPT ![t] = op[t]]
        BY <2>2, <3>3 DEF More, Returns, Goes
      <4>2. op' = op
        BY <4>1 DEF OpOK
      <4> QED BY <3>1, <4>1, <4>2, <2>1 DEF AskedPlaces
    <3> QED BY <3>2, <3>3
  <2>3. CASE ~More(t)
    <3>1. /\ op' = op /\ pc[t] \notin {"idle", "pend"}
          /\ \E p : /\ pc' = [pc EXCEPT ![t] = p] /\ p \notin {"pend", "count", "idle"}
                    /\ (pc[t] \in AskedPlaces => p \in AskedPlaces)
      BY <2>3, SlDriverAssumption DEF Check, Wait, Unlock, Clear, Credit, Test, Starved, Charge, Goes, callVars, AskedPlaces
    <3> QED BY <2>1, <3>1
  <2> QED BY <2>2, <2>3
<1>3. pc'[t] = p /\ \A u \in Everyone : u # t => pc'[u] = pc[u]
  BY <1>2 DEF LockOK
<1>4. op' = op \/ (op'[t] = None /\ \A u \in Tasks : u # t => op'[u] = op[u])
  BY <1>2 DEF OpOK
<1>5. Reading' => Reading
  BY <1>2, <1>3 DEF Reading
<1>6. op[t] = "cmd" => obj[t] = None
  BY DEF PoolInv, Owned
<1>7. \A u \in Tasks : /\ pc'[u] = "pend" <=> pc[u] = "pend"
                       /\ pc'[u] = "idle" <=> op'[u] = None
                       /\ op'[u] = op[u] \/ (obj[u] = None /\ op'[u] \notin {"select", "recv"})
                       /\ pc[u] \in AskedPlaces /\ op[u] # "cmd" => pc'[u] \in AskedPlaces
  <2>1. None \notin {"select", "recv"}
    BY SlDriverAssumption DEF Kinds
  <2>2. \A u \in Tasks : pc[u] = "idle" <=> op[u] = None
    BY DEF PoolInv, Owned
  <2>3. ASSUME NEW u \in Tasks, u # t
        PROVE  pc'[u] = pc[u] /\ op'[u] = op[u]
    BY <1>3, <1>4, <2>3
  <2>4. op[t] = "cmd" /\ op' = [op EXCEPT ![t] = None] => op'[t] = None
    BY DEF OpOK
  <2>5. /\ pc'[t] = "pend" <=> pc[t] = "pend"
        /\ pc'[t] = "idle" <=> op'[t] = None
        /\ op'[t] = op[t] \/ (obj[t] = None /\ op'[t] \notin {"select", "recv"})
        /\ pc[t] \in AskedPlaces /\ op[t] # "cmd" => pc'[t] \in AskedPlaces
    BY <1>2, <1>3, <1>6, <2>1, <2>4
  <2> QED BY <2>2, <2>3, <2>5
<1> QED BY <1>1, <1>5, <1>7, PlainStep

\* A call gets its object, and goes on with it when it was woken: the object is
\* not marked.
LEMMA AnswersCall == ASSUME LockOK, OpOK, PoolInv, Answers, NEW t \in Tasks, Call(t) \/ Pended(t) PROVE Answers'
<1>1. UNCHANGED <<out, due, msg, found>> /\ PoolInv'
  BY PoolCall, PoolPended DEF Call, Pended, nwpVars
<1>2. pc[t] \notin AskedPlaces /\ (pc' = pc \/ \E p \in {"pend", "lock", "credit"} : pc' = [pc EXCEPT ![t] = p])
  <2>1. CASE Call(t)
    BY <2>1, CallGoes DEF AskedPlaces
  <2>2. CASE Pended(t)
    BY <2>2 DEF Pended, Place, After, AskedPlaces
  <2> QED BY <2>1, <2>2
<1>3. \A u \in Everyone : pc'[u] = pc[u] \/ (u = t /\ pc'[u] \notin AskedPlaces)
  BY <1>2 DEF LockOK, AskedPlaces
<1>4. \A u \in Tasks : u # t => op'[u] = op[u]
  BY DEF Call, Pended, callVars, OpOK
<1>5. Reading' => Reading
  BY <1>3 DEF Reading, AskedPlaces
<1>6. \A k : Asked(k) => Asked(k)'
  BY <1>2, <1>3, <1>4 DEF Asked
<1>7. Act \subseteq Act' /\ \A j \in Act : action'[j] = action[j]
  <2>1. ASSUME NEW i, NEW k, Place(t, i, k), i \in Objects PROVE Act \subseteq Act'
    <3>1. active' = active \/ active' = <<i>> \o active
      BY <2>1 DEF Place
    <3> QED BY <2>1, <3>1, InFront DEF PoolInv, Lists, Act
  <2>2. Act \subseteq Objects
    BY ListsTyped DEF PoolInv
  <2>3. CASE Pended(t)
    <3>1. Place(t, obj[t], op[t]) /\ action' = action /\ obj[t] \in Objects
      BY <2>3 DEF Pended, OpOK, PoolInv, Owned
    <3> QED BY <2>1, <3>1
  <2>4. CASE Call(t)
    <3>1. PICK k \in mix[t] : Call(t)!(k)
      BY <2>4 DEF Call
    <3>2. CASE NeedsObject(k) /\ free # <<>>
      <4>1. PICK i : i = Head(free)
        OBVIOUS
      <4>2. action' = [action EXCEPT ![i] = k] /\ Place(t, i, k)
        BY <3>1, <3>2, <4>1
      <4>3. i \in Objects /\ i \notin Act
        BY <3>2, <4>1, OffTheFront DEF PoolInv, Lists, Free
      <4> QED BY <2>1, <2>2, <4>2, <4>3 DEF PoolInv, Owned
    <3>3. CASE ~(NeedsObject(k) /\ free # <<>>)
      BY <3>1, <3>3 DEF poolVars, Act
    <3> QED BY <3>2, <3>3
  <2> QED BY <2>3, <2>4
<1>8. \A j \in Act' : j \in Act \/ signalled'[j] = FALSE
  <2>1. ASSUME NEW i, NEW k, Place(t, i, k), i \in Objects PROVE Act' \subseteq Act \cup {i}
    <3>1. active' = active \/ active' = <<i>> \o active
      BY <2>1 DEF Place
    <3> QED BY <2>1, <3>1, InFront DEF PoolInv, Lists, Act
  <2>2. CASE Pended(t)
    <3>1. Place(t, obj[t], op[t]) /\ obj[t] \in Objects /\ signalled'[obj[t]] = FALSE
      BY <2>2 DEF Pended, OpOK, PoolInv, Owned
    <3> QED BY <2>1, <3>1
  <2>3. CASE Call(t)
    <3>1. PICK k \in mix[t] : Call(t)!(k)
      BY <2>3 DEF Call
    <3>2. CASE NeedsObject(k) /\ free # <<>>
      <4>1. PICK i : i = Head(free)
        OBVIOUS
      <4>2. signalled' = signalled /\ Place(t, i, k)
        BY <3>1, <3>2, <4>1
      <4>3. i \in Objects /\ i \in Free
        BY <3>2, <4>1, OffTheFront DEF PoolInv, Lists, Free
      <4>4. signalled[i] = FALSE
        BY <4>3 DEF PoolInv, Owned
      <4> QED BY <2>1, <4>2, <4>3, <4>4
    <3>3. CASE ~(NeedsObject(k) /\ free # <<>>)
      BY <3>1, <3>3 DEF poolVars, Act
    <3> QED BY <3>2, <3>3
  <2> QED BY <2>2, <2>3
<1>9. \A j \in Act : signalled'[j] = signalled[j]
  <2>1. CASE Call(t)
    BY <2>1 DEF Call
  <2>2. CASE Pended(t)
    <3>1. obj[t] \notin Act /\ signalled' = [signalled EXCEPT ![obj[t]] = FALSE]
      BY <2>2 DEF Pended, OpOK, PoolInv, Owned, Kept
    <3>2. Act \subseteq Objects /\ signalled \in [Objects -> BOOLEAN]
      BY ListsTyped DEF PoolInv, Owned
    <3> QED BY <3>1, <3>2
  <2> QED BY <2>1, <2>2
<1>10. \A k : Marked(k)' => Marked(k)
  BY <1>7, <1>8, <1>9 DEF Marked
<1>11. Answers'
  <2>1. PICK k0 : k0 = None /\ k0 \notin {"select", "recv"}
    BY SlDriverAssumption DEF Kinds
  <2> QED BY <1>1, <1>5, <1>6, <1>7, <1>10, <2>1, AnswersStay
<1> QED BY <1>11

LEMMA AnswersRelease == ASSUME LockOK, OpOK, PoolInv, Answers, NEW t \in Tasks, Release(t) PROVE Answers'
<1>1. PICK i : i = obj[t]
  OBVIOUS
<1>2. PICK k0 : k0 = op[t]
  OBVIOUS
<1>3. /\ pc[t] = "await" /\ pc' = [pc EXCEPT ![t] = "idle"] /\ op' = [op EXCEPT ![t] = None]
      /\ action' = [action EXCEPT ![i] = None] /\ active' = Without(active, i) /\ (signalled[i] \/ Refused(t))
      /\ UNCHANGED <<out, due, msg, found>>
  BY <1>1 DEF Release, Answered, Goes, nwpVars
<1>4. k0 \in {"select", "recv"} /\ i \in Objects /\ i \in Act /\ action[i] = k0
  BY <1>1, <1>2, <1>3 DEF OpOK, PoolInv, Owned, Kept
<1>5. ~Requested(k0) /\ ~Owed(k0) /\ OnItsWay(k0) = {} /\ ~Heard(k0)
  <2>1. CASE signalled[i]
    <3>1. signalled[i] = TRUE
      BY <1>4, <2>1 DEF PoolInv, Owned
    <3>2. Marked(k0)
      BY <1>4, <3>1 DEF Marked
    <3> QED BY <1>4, <3>2 DEF Answers, Once
  <2>2. CASE Refused(t)
    <3>1. k0 = "select" /\ <<"resp", "select">> \notin due /\ <<"async", "select">> \notin due
          /\ msg # <<"async", "select">> /\ <<"async", "select">> \notin ToSet(out)
      BY <1>2, <2>2 DEF Refused
    <3> QED BY <3>1 DEF Requested, Owed, OnItsWay, Heard, AnswerTo, ToSet
  <2> QED BY <1>3, <2>1, <2>2
<1>6. Act' = Act \ {i}
  BY <1>3, <1>4, WithoutOne DEF PoolInv, Lists, Act
<1>7. \A j \in Act' : j \in Act /\ j # i /\ j \in Objects /\ action'[j] = action[j] /\ action[j] # k0
  <2>1. Act \subseteq Objects
    BY ListsTyped DEF PoolInv
  <2> QED BY <1>3, <1>4, <1>6, <2>1 DEF PoolInv, Owned, Active
<1>8. \A j \in Act' : signalled'[j] = signalled[j]
  <2>1. Rivals(i) \subseteq Objects /\ Rivals(i) \cap Act = {}
    BY ListsTyped DEF PoolInv, Lists, Rivals, Pend
  <2>2. \/ signalled' = [signalled EXCEPT ![i] = FALSE]
        \/ \E j \in Rivals(i) : signalled' = [signalled EXCEPT ![i] = FALSE, ![j] = TRUE]
    BY <1>1 DEF Release
  <2> QED BY <1>4, <1>7, <2>1, <2>2 DEF PoolInv, Owned
<1>9. ~Marked(k0)' /\ \A k : Marked(k)' => Marked(k)
  BY <1>7, <1>8 DEF Marked
<1>10. /\ pc'[t] = "idle" /\ \A u \in Everyone : u # t => pc'[u] = pc[u]
       /\ \A u \in Tasks : u # t => op'[u] = op[u]
  BY <1>3 DEF LockOK, OpOK
<1>11. \A k : k # k0 => (Asked(k) => Asked(k)')
  BY <1>2, <1>10 DEF Asked
<1>12. Reading' => Reading
  BY <1>10 DEF Reading
<1>13. \A j \in Act : action[j] = "select" /\ k0 # "select" => j \in Act' /\ action'[j] = "select"
  BY <1>4, <1>6, <1>7
<1> QED BY <1>3, <1>5, <1>9, <1>11, <1>12, <1>13, AnswersStay

\* A command is sent: a task that selects has requested its answer.
LEMMA LockStep == ASSUME LockOK, OpOK, PoolInv, Answers, NEW t \in Tasks, Lock(t) PROVE PoolInv' /\ Answers'
<1>1. /\ pc[t] = "lock" /\ pc' = [pc EXCEPT ![t] = "check"] /\ due' = due \cup {<<"resp", op[t]>>}
      /\ UNCHANGED <<op, obj, poolVars, signalled, out, msg, found>> /\ op[t] \in {"cmd", "select"}
  BY DEF Lock, Written, Goes, callVars, OpOK
<1>2. pc'[t] = "check" /\ \A u \in Everyone : u # t => pc'[u] = pc[u]
  BY <1>1 DEF LockOK
<1>3. Reading' => Reading
  BY <1>2 DEF Reading
<1>4. PoolInv'
  <2>1. op[t] # None
    BY <1>1 DEF PoolInv, Owned
  <2> QED BY <1>1, <1>2, <2>1, PoolStays DEF PoolInv, Owned
<1>5. Act' = Act /\ action' = action
  BY <1>1 DEF poolVars, Act
<1>6. FoundOK'
  BY <1>1, <1>3, <1>5 DEF FoundOK, Answers
<1>7. ASSUME NEW k \in {"select", "recv"} PROVE Once(k)'
  <2>1. /\ Owed(k)' <=> Owed(k)
        /\ OnItsWay(k)' = OnItsWay(k)
        /\ Heard(k)' => Heard(k)
        /\ Marked(k)' <=> Marked(k)
        /\ Asked(k) => Asked(k)'
        /\ Requested(k)' => Requested(k) \/ k = op[t]
    BY <1>1, <1>2, <1>3, <1>5 DEF Owed, OnItsWay, Heard, Marked, Asked, Requested, AnswerTo, AskedPlaces
  <2>2. CASE k = op[t]
    <3>1. ~Asked(k)
      BY <1>1, <2>2, AskedHasObject DEF Asked, AskedPlaces
    <3>2. Asked(k)'
      BY <1>1, <1>2, <2>2 DEF Asked, AskedPlaces
    <3> QED BY <2>1, <3>1, <3>2 DEF Answers, Once
  <2>3. CASE k # op[t]
    BY <2>1, <2>3, OnceStays DEF Answers
  <2> QED BY <2>2, <2>3
<1>8. due' \subseteq Known
  BY <1>1 DEF Answers, Known, Kinds
<1> QED BY <1>1, <1>3, <1>4, <1>6, <1>7, <1>8 DEF Answers

\* A message with a payload is sent: a task that receives is owed its answer.
LEMMA PutStep == ASSUME LockOK, OpOK, PoolInv, Answers, NEW t \in Tasks, Put(t) PROVE PoolInv' /\ Answers'
<1>1. /\ pc[t] = "put" /\ UNCHANGED <<obj, poolVars, signalled, out, msg, found>> /\ op[t] \in {"send", "recv"}
      /\ pc' = [pc EXCEPT ![t] = IF op[t] = "recv" THEN "await" ELSE "idle"]
      /\ op' = [op EXCEPT ![t] = IF op[t] = "send" THEN None ELSE op[t]]
      /\ due' = IF op[t] = "recv" THEN due \cup {<<"recv", "recv">>} ELSE due
  BY DEF Put, Goes, OpOK
<1>2. pc'[t] = (IF op[t] = "recv" THEN "await" ELSE "idle") /\ \A u \in Everyone : u # t => pc'[u] = pc[u]
  BY <1>1 DEF LockOK
<1>3. op'[t] = (IF op[t] = "send" THEN None ELSE op[t]) /\ \A u \in Tasks : u # t => op'[u] = op[u]
  BY <1>1 DEF OpOK
<1>4. Reading' => Reading
  BY <1>2 DEF Reading
<1>5. None \notin {"select", "recv"}
  BY SlDriverAssumption DEF Kinds
<1>6. PoolInv'
  <2>1. op[t] # None /\ (op[t] = "send" => obj[t] = None)
    BY <1>1 DEF PoolInv, Owned
  <2>2. \A u \in Tasks : /\ pc'[u] = "pend" <=> pc[u] = "pend"
                         /\ pc'[u] = "idle" <=> op'[u] = None
                         /\ op'[u] = op[u] \/ (obj[u] = None /\ op'[u] \notin {"select", "recv"})
    BY <1>1, <1>2, <1>3, <1>5, <2>1 DEF PoolInv, Owned
  <2> QED BY <1>1, <2>2, PoolStays DEF PoolInv, Owned
<1>7. Act' = Act /\ action' = action
  BY <1>1 DEF poolVars, Act
<1>8. FoundOK'
  BY <1>1, <1>4, <1>7 DEF FoundOK, Answers
<1>9. ASSUME NEW k \in {"select", "recv"} PROVE Once(k)'
  <2>1. /\ Requested(k)' <=> Requested(k)
        /\ OnItsWay(k)' = OnItsWay(k)
        /\ Heard(k)' => Heard(k)
        /\ Marked(k)' <=> Marked(k)
        /\ Asked(k) => Asked(k)'
        /\ Owed(k)' => Owed(k) \/ k = op[t]
    BY <1>1, <1>2, <1>3, <1>4, <1>7 DEF Owed, OnItsWay, Heard, Marked, Asked, Requested, AnswerTo, AskedPlaces
  <2>2. CASE k = op[t]
    <3>1. ~Asked(k)
      BY <1>1, <2>2, AskedHasObject DEF Asked, AskedPlaces
    <3>2. Asked(k)'
      BY <1>1, <1>2, <1>3, <2>2 DEF Asked, AskedPlaces
    <3> QED BY <2>1, <3>1, <3>2 DEF Answers, Once
  <2>3. CASE k # op[t]
    BY <2>1, <2>3, OnceStays DEF Answers
  <2> QED BY <2>2, <2>3
<1>10. due' \subseteq Known
  BY <1>1 DEF Answers, Known
<1> QED BY <1>1, <1>4, <1>6, <1>8, <1>9, <1>10 DEF Answers

\* Who asked is found by the message that answers.
LEMMA FindsIt ==
    ASSUME OpOK, PoolInv, NEW k \in {"select", "recv"}, Asked(k)
    PROVE  Finds(AnswerTo(k)) \in Act /\ action[Finds(AnswerTo(k))] = k
<1>1. PICK t \in Tasks : op[t] = k /\ pc[t] \in AskedPlaces
  BY DEF Asked
<1>2. PICK i : i = obj[t]
  OBVIOUS
<1>3. i \in Act /\ action[i] = k /\ \A j \in Act : action[j] = k => j = i
  BY <1>1, <1>2, AskedHasObject DEF AskedPlaces
<1>4. PICK s : s = {j \in ToSet(active) : action[j] = AnswerTo(k)[2]}
  OBVIOUS
<1>5. s = {i} /\ AnswerTo(k)[1] \in {"async", "recv"}
  BY <1>3, <1>4 DEF AnswerTo, Act
<1>6. Finds(AnswerTo(k)) = active[FirstIn(active, {i})]
  BY <1>4, <1>5 DEF Finds
<1>7. PICK n \in DOMAIN active : active[n] = i
  BY <1>3 DEF Act, ToSet
<1>8. FirstIn(active, {i}) = n
  <2>1. \A m \in DOMAIN active : active[m] = i => m = n
    BY <1>7 DEF PoolInv, Lists, Distinct
  <2>2. \A m \in 1..n - 1 : m \in DOMAIN active /\ m # n
    BY <1>7 DEF PoolInv, Lists
  <2> QED BY <1>7, <2>1, <2>2 DEF FirstIn
<1> QED BY <1>3, <1>6, <1>7, <1>8

\* Nobody is found by an event that nobody asked for.
LEMMA FindsNone ==
    ASSUME PoolInv, NEW m, m[1] \in {"async", "recv"} => m[2] = None PROVE Finds(m) = None
<1>1. \A i \in Act : action[i] # None
  <2>1. ASSUME NEW i \in Act PROVE action[i] # None
    <3>1. PICK t \in Tasks : obj[t] = i
      BY DEF PoolInv, Owned
    <3>2. i # None
      BY ListsTyped, SlDriverAssumption DEF PoolInv
    <3> QED BY <3>1, <3>2, SlDriverAssumption DEF PoolInv, Owned, Kinds
  <2> QED BY <2>1
<1> QED BY <1>1 DEF Finds, Act

\* A message is read.
LEMMA ReadStep == ASSUME LockOK, OpOK, MessagesOK, PoolInv, Answers, NEW t \in Everyone, Read(t) PROVE PoolInv' /\ Answers'
<1>1. PICK m : m = Head(out)
  OBVIOUS
<1>2. /\ pc[t] = "check" /\ pc' = [pc EXCEPT ![t] = "count"] /\ out # <<>> /\ out' = Tail(out)
      /\ msg' = m /\ found' = Finds(m) /\ UNCHANGED <<op, obj, poolVars, due>>
      /\ signalled' = IF m[1] = "recv" THEN [signalled EXCEPT ![Finds(m)] = TRUE] ELSE signalled
  BY <1>1 DEF Read, Goes, callVars
<1>3. /\ m = out[1] /\ 1 \in DOMAIN out /\ m \in Known
      /\ \A i \in DOMAIN out' : i + 1 \in DOMAIN out /\ out'[i] = out[i + 1] /\ i + 1 # 1 /\ i \in Nat
  <2>1. out \in Seq(Messages)
    BY DEF MessagesOK
  <2>2. /\ m = out[1] /\ 1 \in DOMAIN out
        /\ \A i \in DOMAIN out' : i + 1 \in DOMAIN out /\ out'[i] = out[i + 1] /\ i + 1 # 1 /\ i \in Nat
    BY <1>1, <1>2, <2>1
  <2> QED BY <2>2 DEF Answers
<1>4. pc'[t] = "count" /\ \A u \in Everyone : u # t => pc'[u] = pc[u]
  BY <1>2 DEF LockOK
<1>5. ~Reading /\ Reading'
  BY <1>2, <1>4 DEF LockOK, Reading, Holding
<1>6. Act' = Act /\ action' = action /\ Act \subseteq Objects
  BY <1>2, ListsTyped DEF poolVars, Act, PoolInv
<1>7. m = AnswerTo("select") \/ m = AnswerTo("recv") \/ (m[1] \in {"async", "recv"} => m[2] = None)
  BY <1>3 DEF Known, AnswerTo
<1>8. ASSUME NEW k \in {"select", "recv"}, m = AnswerTo(k)
      PROVE  /\ Finds(m) \in Act /\ action[Finds(m)] = k
             /\ ~Requested(k) /\ ~Owed(k) /\ ~Marked(k) /\ Asked(k) /\ \A i \in OnItsWay(k) : i = 1
  <2>1. 1 \in OnItsWay(k)
    BY <1>3, <1>8 DEF OnItsWay
  <2>2. /\ ~Requested(k) /\ ~Owed(k) /\ ~Marked(k) /\ Asked(k) /\ \A i \in OnItsWay(k) : i = 1
    BY <2>1 DEF Answers, Once
  <2> QED BY <1>8, <2>2, FindsIt
<1>9. m[1] = "recv" => m = AnswerTo("recv")
  BY <1>3 DEF Known, AnswerTo
<1>10. /\ signalled' \in [Objects -> BOOLEAN]
       /\ \A i \in Objects : i # Finds(m) \/ m[1] # "recv" => signalled'[i] = signalled[i]
  BY <1>2 DEF PoolInv, Owned
<1>11. PoolInv'
  <2>1. \A i \in Objects \ Act : signalled'[i] = signalled[i]
    BY <1>8, <1>9, <1>10
  <2>2. \A u \in Tasks : /\ pc'[u] = "pend" <=> pc[u] = "pend"
                         /\ pc'[u] = "idle" <=> op'[u] = None
                         /\ op'[u] = op[u]
    BY <1>2, <1>4 DEF PoolInv, Owned
  <2> QED BY <1>2, <1>10, <2>1, <2>2, PoolStays
<1>12. FoundOK'
  <2>1. m[1] = "async" /\ m[2] = "select" => m = AnswerTo("select")
    BY <1>3 DEF Known, AnswerTo
  <2>2. m[1] = "async" /\ m[2] # "select" => m[2] = None
    BY <1>3 DEF Known
  <2>3. m[1] = "async" /\ m[2] = "select" => Finds(m) \in Act /\ action[Finds(m)] = "select"
    BY <1>8, <2>1
  <2>4. m[1] = "async" /\ m[2] # "select" => Finds(m) = None
    BY <2>2, FindsNone
  <2> QED BY <1>2, <1>6, <2>3, <2>4 DEF FoundOK
<1>13. ASSUME NEW k \in {"select", "recv"} PROVE Once(k)'
  <2>1. /\ Requested(k)' <=> Requested(k)
        /\ Owed(k)' <=> Owed(k)
        /\ Asked(k) => Asked(k)'
        /\ Heard(k)' => m = AnswerTo(k)
        /\ ~Heard(k)
    BY <1>2, <1>4, <1>5 DEF Requested, Owed, Asked, Heard, AnswerTo, AskedPlaces
  <2>2. \A i \in OnItsWay(k)' : i + 1 \in OnItsWay(k) /\ i + 1 # 1 /\ i \in Nat
    BY <1>3 DEF OnItsWay, AnswerTo
  <2>3. ASSUME Marked(k)' PROVE Marked(k) \/ (k = "recv" /\ m = AnswerTo("recv"))
    <3>1. PICK i \in Act : action[i] = k /\ signalled'[i] = TRUE
      BY <1>6, <2>3 DEF Marked
    <3>2. CASE signalled'[i] = signalled[i]
      BY <3>1, <3>2 DEF Marked
    <3>3. CASE signalled'[i] # signalled[i]
      <4>1. i = Finds(m) /\ m[1] = "recv"
        BY <1>6, <1>10, <3>1, <3>3
      <4> QED BY <1>8, <1>9, <3>1, <4>1
    <3> QED BY <3>2, <3>3
  <2>4. CASE m = AnswerTo(k)
    <3>1. OnItsWay(k)' = {}
      BY <1>8, <2>2, <2>4
    <3>2. Heard(k)' => ~Marked(k)'
      BY <1>8, <2>3, <2>4 DEF Heard
    <3> QED BY <1>8, <2>1, <2>4, <3>1, <3>2 DEF Once
  <2>5. CASE m # AnswerTo(k)
    <3>1. ~Heard(k)' /\ (Marked(k)' => Marked(k))
      BY <2>1, <2>3, <2>5
    <3>2. OnItsWay(k)' # {} => OnItsWay(k) # {}
      BY <2>2
    <3>3. \A i, j \in OnItsWay(k)' : i = j
      <4> SUFFICES ASSUME NEW i \in OnItsWay(k)', NEW j \in OnItsWay(k)' PROVE i = j
        OBVIOUS
      <4>1. i + 1 = j + 1 /\ i \in Nat /\ j \in Nat
        BY <2>2 DEF Answers, Once
      <4> QED BY <4>1
    <3> QED BY <2>1, <3>1, <3>2, <3>3 DEF Answers, Once
  <2> QED BY <2>4, <2>5
<1>14. due' \subseteq Known /\ msg' \in Known /\ \A i \in DOMAIN out' : out'[i] \in Known
  BY <1>2, <1>3 DEF Answers
<1> QED BY <1>11, <1>12, <1>13, <1>14 DEF Answers

\* A message that has been read is counted, and goes to the object that was found.
LEMMA CountStep == ASSUME LockOK, OpOK, PoolInv, Answers, NEW t \in Everyone, Count(t) PROVE PoolInv' /\ Answers'
<1>1. /\ pc[t] = "count" /\ UNCHANGED <<op, obj, poolVars, out, due>>
      /\ signalled' = [i \in Objects |-> signalled[i] \/ (msg[1] = "async" /\ i = found)]
  BY DEF Count, Goes, callVars, nwpVars
<1>2. PICK p \in {"clear", "check", "unlock", "protocol"} :
          pc' = [pc EXCEPT ![t] = p] /\ (t \in Tasks => p \in {"clear", "check"})
  BY SlDriverAssumption DEF Count, Goes
<1>3. pc'[t] = p /\ \A u \in Everyone : u # t => pc'[u] = pc[u]
  BY <1>2 DEF LockOK
<1>4. Reading /\ ~Reading' /\ msg \in Known
  BY <1>1, <1>3 DEF LockOK, Reading, Holding, Answers
<1>5. Act' = Act /\ action' = action /\ Act \subseteq Objects
  BY <1>1, ListsTyped DEF poolVars, Act, PoolInv
<1>6. msg[1] = "async" => \/ msg = <<"async", "select">> /\ found \in Act /\ action[found] = "select"
                          \/ found = None
  BY <1>4 DEF Known, Answers, FoundOK
<1>7. /\ signalled' \in [Objects -> BOOLEAN]
      /\ \A i \in Objects : signalled'[i] # signalled[i] =>
             i = found /\ i \in Act /\ action[i] = "select" /\ msg = <<"async", "select">>
  <2>1. signalled \in [Objects -> BOOLEAN] /\ None \notin Objects
    BY SlDriverAssumption DEF PoolInv, Owned
  <2>2. \A i \in Objects : signalled'[i] # signalled[i] => msg[1] = "async" /\ i = found
    BY <1>1, <2>1
  <2>3. signalled' \in [Objects -> BOOLEAN]
    BY <1>1, <2>1
  <2> QED BY <1>6, <2>1, <2>2, <2>3
<1>8. PoolInv'
  <2>1. \A i \in Objects \ Act : signalled'[i] = signalled[i]
    BY <1>7
  <2>2. \A u \in Tasks : /\ pc'[u] = "pend" <=> pc[u] = "pend"
                         /\ pc'[u] = "idle" <=> op'[u] = None
                         /\ op'[u] = op[u]
    BY <1>1, <1>2, <1>3 DEF PoolInv, Owned
  <2> QED BY <1>1, <1>7, <2>1, <2>2, PoolStays
<1>9. ASSUME NEW k \in {"select", "recv"} PROVE Once(k)'
  <2>1. /\ Requested(k)' <=> Requested(k)
        /\ Owed(k)' <=> Owed(k)
        /\ OnItsWay(k)' = OnItsWay(k)
        /\ ~Heard(k)'
        /\ Asked(k) => Asked(k)'
    BY <1>1, <1>2, <1>3, <1>4 DEF Requested, Owed, OnItsWay, Asked, Heard, AnswerTo, AskedPlaces
  <2>2. ASSUME Marked(k)' PROVE Marked(k) \/ Heard(k)
    <3>1. PICK i \in Act : action[i] = k /\ signalled'[i] = TRUE
      BY <1>5, <2>2 DEF Marked
    <3>2. CASE signalled'[i] = signalled[i]
      BY <3>1, <3>2 DEF Marked
    <3>3. CASE signalled'[i] # signalled[i]
      BY <1>4, <1>5, <1>7, <3>1, <3>3 DEF Heard
    <3> QED BY <3>2, <3>3
  <2> QED BY <2>1, <2>2 DEF Answers, Once
<1> QED BY <1>1, <1>4, <1>8, <1>9 DEF Answers, FoundOK

\* The network processor sends.
LEMMA NwpStep ==
    ASSUME LockOK, OpOK, MessagesOK, PoolInv, Answers, Nwp(Answer) \/ Nwp(Frees) \/ Nwp(Event) PROVE PoolInv' /\ Answers'
<1>1. UNCHANGED <<pc, op, obj, poolVars, signalled, msg, found>>
  BY DEF Nwp, callVars
<1>2. PoolInv'
  BY <1>1, PoolStays DEF PoolInv, Owned
<1>3. Act' = Act /\ action' = action /\ (Reading' <=> Reading)
  BY <1>1 DEF poolVars, Act, Reading
<1>4. FoundOK'
  BY <1>1, <1>3 DEF FoundOK, Answers
<1>5. PICK m \in Known : /\ out' = Append(out, m)
                         /\ \/ m \in due /\ due' = due \ {m}
                            \/ m \in due /\ m = <<"resp", "select">> /\ due' = (due \ {m}) \cup {<<"async", "select">>}
                            \/ m \in {<<"dummy", None>>, <<"async", None>>} /\ due' = due
  <2>1. due \subseteq Known /\ <<"dummy", None>> \in Known /\ <<"async", None>> \in Known
    BY DEF Answers, Known
  <2>2. CASE Nwp(Answer)
    BY <2>1, <2>2 DEF Nwp, Answer, Sends
  <2>3. CASE Nwp(Frees) \/ Nwp(Event)
    BY <2>1, <2>3 DEF Nwp, Frees, Event, Sends
  <2> QED BY <2>2, <2>3
<1>6. /\ DOMAIN out = 1..Len(out) /\ DOMAIN out' = 1..Len(out) + 1 /\ Len(out) \in Nat
      /\ \A i \in DOMAIN out : out'[i] = out[i]
      /\ out'[Len(out) + 1] = m
  <2>1. out \in Seq(Messages)
    BY DEF MessagesOK
  <2> QED BY <1>5, <2>1
<1>7. \A i \in DOMAIN out' : i \in DOMAIN out \/ i = Len(out) + 1
  BY <1>6
<1>8. ASSUME NEW k \in {"select", "recv"} PROVE Once(k)'
  <2>1. /\ Heard(k)' <=> Heard(k)
        /\ Marked(k)' <=> Marked(k)
        /\ Asked(k)' <=> Asked(k)
    BY <1>1, <1>3 DEF Heard, Marked, Asked
  <2>2. \A i \in OnItsWay(k)' : i \in OnItsWay(k) \/ (i = Len(out) + 1 /\ m = AnswerTo(k))
    BY <1>6, <1>7 DEF OnItsWay, AnswerTo
  <2>3. None # "select" /\ None # "recv"
    BY SlDriverAssumption DEF Kinds
  <2>4. CASE m = AnswerTo(k)
    <3>1. Owed(k) /\ due' = due \ {m}
      BY <1>5, <2>3, <2>4 DEF Owed, AnswerTo
    <3>2. ~Requested(k) /\ OnItsWay(k) = {} /\ ~Heard(k) /\ ~Marked(k) /\ Asked(k)
      BY <3>1 DEF Answers, Once
    <3>3. ~Owed(k)' /\ ~Requested(k)'
      BY <2>4, <3>1, <3>2 DEF Owed, Requested, AnswerTo
    <3> QED BY <2>1, <2>2, <3>2, <3>3 DEF Once
  <2>5. CASE m # AnswerTo(k) /\ k = "select" /\ m = <<"resp", "select">> /\ m \in due
    <3>1. Requested(k) /\ ~Requested(k)'
      BY <1>5, <2>5 DEF Requested
    <3>2. OnItsWay(k)' = {}
      BY <2>2, <2>5, <3>1 DEF Answers, Once
    <3> QED BY <2>1, <3>1, <3>2 DEF Answers, Once
  <2>6. CASE m # AnswerTo(k) /\ ~(k = "select" /\ m = <<"resp", "select">> /\ m \in due)
    <3>1. Requested(k)' => Requested(k)
      BY <1>5, <2>6 DEF Requested
    <3>2. Owed(k)' => Owed(k)
      BY <1>5, <2>6 DEF Owed, AnswerTo
    <3>3. OnItsWay(k)' \subseteq OnItsWay(k)
      BY <2>2, <2>6
    <3> QED BY <2>1, <3>1, <3>2, <3>3, OnceStays DEF Answers
  <2> QED BY <2>4, <2>5, <2>6
<1>9. due' \subseteq Known /\ \A i \in DOMAIN out' : out'[i] \in Known
  BY <1>5, <1>6, <1>7 DEF Answers, Known
<1> QED BY <1>1, <1>2, <1>3, <1>4, <1>8, <1>9 DEF Answers

LEMMA PoolNext == LockOK /\ OpOK /\ MessagesOK /\ PoolInv /\ Answers /\ [Next]_vars => PoolInv' /\ Answers'
<1> SUFFICES ASSUME LockOK, OpOK, MessagesOK, PoolInv, Answers, [Next]_vars PROVE PoolInv' /\ Answers'
  OBVIOUS
<1>1. CASE SpawnTakes \/ SpawnLocks \/ Unlock(Spawn) \/ RxIrq \/ UNCHANGED vars
  <2>1. UNCHANGED <<op, obj, poolVars, signalled, out, due, msg, found>>
    BY <1>1 DEF SpawnTakes, SpawnLocks, Unlock, RxIrq, vars, callVars, nwpVars
  <2>2. pc' = pc \/ \E p : p # "count" /\ pc' = [pc EXCEPT ![Spawn] = p]
    BY <1>1 DEF SpawnTakes, SpawnLocks, Unlock, RxIrq, vars, Goes
  <2>3. \A u \in Tasks : pc'[u] = pc[u]
    BY <2>2, SlDriverAssumption DEF LockOK
  <2>4. Reading' => Reading
    BY <2>2, <2>3 DEF LockOK, Reading
  <2> QED BY <2>1, <2>3, <2>4, PlainStep DEF PoolInv, Owned
<1>2. ASSUME NEW t \in Tasks, Task(t) PROVE PoolInv' /\ Answers'
  BY <1>2, PoolCall, PoolPended, PoolRelease, AnswersCall, AnswersRelease, LockStep, PutStep, ReadStep, CountStep,
     PlainTask DEF Task, Reads
<1>3. CASE Read(Spawn) \/ Count(Spawn)
  BY <1>3, ReadStep, CountStep
<1> QED BY <1>1, <1>2, <1>3, NwpStep DEF Next, SpawnTask, Reads

LEMMA PoolInit == Init => PoolInv /\ Answers
<1> SUFFICES ASSUME Init PROVE PoolInv /\ Answers
  OBVIOUS
<1>1. /\ free = [i \in 1..MAX_CONCURRENT_ACTIONS |-> i - 1] /\ pend = <<>> /\ active = <<>> /\ bitmap = {}
      /\ out = <<>> /\ due = {} /\ pc = [t \in Everyone |-> "idle"] /\ op = [t \in Tasks |-> None]
      /\ obj = [t \in Tasks |-> None] /\ action = [i \in Objects |-> None] /\ signalled = [i \in Objects |-> FALSE]
      /\ MAX_CONCURRENT_ACTIONS \in Nat
  BY SlDriverAssumption DEF Init
<1>2. free \in Seq(Objects) /\ Distinct(free) /\ Len(free) = MAX_CONCURRENT_ACTIONS
  <2>1. \A i \in 1..MAX_CONCURRENT_ACTIONS : i - 1 \in Objects
    BY <1>1 DEF Objects
  <2> QED BY <1>1, <2>1 DEF Distinct
<1>3. pend \in Seq(Objects) /\ active \in Seq(Objects) /\ Distinct(pend) /\ Distinct(active) /\ Pend = {} /\ Act = {}
      /\ Len(pend) = 0 /\ Len(active) = 0
  BY <1>1 DEF Distinct, Pend, Act, ToSet
<1>4. Lists
  BY <1>2, <1>3 DEF Lists
<1>5. Owned
  <2>1. Free \subseteq Objects
    BY <1>4, ListsTyped
  <2>2. \A t \in Tasks : obj[t] = None /\ op[t] = None /\ pc[t] = "idle"
    BY <1>1
  <2>3. obj \in [Tasks -> Objects \cup {None}] /\ action \in [Objects -> Kinds \cup {None}] /\ signalled \in [Objects -> BOOLEAN]
    BY <1>1
  <2>4. None \notin Objects /\ None \notin {"select", "recv"}
    BY SlDriverAssumption DEF Kinds
  <2>5. \A i \in Free : signalled[i] = FALSE
    BY <1>1, <2>1
  <2> QED BY <1>3, <2>1, <2>2, <2>3, <2>4, <2>5 DEF Owned
<1>6. Active
  BY <1>1, <1>3 DEF Active
<1>7. Counted
  <2>1. Woken = {}
    BY <1>1 DEF Woken
  <2> QED BY <1>1, <1>2, <1>3, <2>1, FS_EmptySet DEF Counted
<1>8. Answers
  <2>1. ~Reading /\ DOMAIN out = {}
    BY <1>1 DEF Reading
  <2> QED BY <1>1, <1>3, <2>1 DEF Answers, FoundOK, Once, Requested, Owed, OnItsWay, Heard, Marked
<1> QED BY <1>4, <1>5, <1>6, <1>7, <1>8 DEF PoolInv

\* The lists of the pool hold every object once, and a call's object is where the
\* call is: for any number of tasks and objects, and although an answer may find
\* its object before, or long after, the task that asked has begun to wait.
THEOREM PoolStaysWhole == Spec => []PoolIsWhole
<1>1. PoolInv => PoolIsWhole
  <2> SUFFICES ASSUME PoolInv PROVE PoolIsWhole
    OBVIOUS
  <2>1. {t \in Tasks : pc[t] = "pend" /\ signalled[obj[t]]} = Woken
    BY DEF Woken
  <2> QED BY <2>1 DEF PoolIsWhole, PoolInv, Counted, Owned, Kept, Active, Act
<1>2. Init => PoolInv /\ Answers
  BY PoolInit
<1>3. DriverInv /\ PoolInv /\ Answers /\ [Next]_vars => PoolInv' /\ Answers'
  BY PoolNext DEF DriverInv
<1> QED BY <1>1, <1>2, <1>3, DriverInvariant, PTL DEF Spec

=============================================================================
