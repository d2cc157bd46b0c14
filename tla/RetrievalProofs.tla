---------------------------- MODULE RetrievalProofs ----------------------------
(***************************************************************************)
(* What is proved of the retrieval service and its browser, for every      *)
(* number of requests, URLs, domains and slots.                            *)
(*                                                                         *)
(* The lock of a URL and the semaphore of a domain are objects of the same *)
(* kind: they are made for the first of their users, counted, and dropped  *)
(* with the last.  Shared is what is known of such objects; it is proved   *)
(* once, for any keys, and used for both.                                  *)
(***************************************************************************)
EXTENDS Browser, FiniteSetTheorems, TLAPS

-----------------------------------------------------------------------------
(* Objects that come and go with their users.                              *)

UsersOf(keyOf, active, u) == {r \in active : keyOf[r] = u}

Shared(Key, keyOf, object, users, mine, active) ==
  /\ object \in [Key -> Generation] /\ users \in [Key -> 0 .. Cardinality(Req)]
  /\ mine \in [Req -> Generation]
  /\ \A u \in Key : users[u] = Cardinality(UsersOf(keyOf, active, u))
  /\ \A u \in Key : object[u] # 0 => UsersOf(keyOf, active, u) # {}
  /\ \A r \in active : mine[r] # 0 /\ object[keyOf[r]] = mine[r]
  /\ \A r \in Req \ active : mine[r] = 0
  /\ \A u, v \in Key : object[u] # 0 /\ object[u] = object[v] => u = v

\* There are more generations than requests that have one in hand.
LEMMA UnusedExists ==
  ASSUME NEW mine \in [Req -> Generation], NEW r \in Req, mine[r] = 0
  PROVE  Unused(mine) \in Generation \ {0} /\ \A q \in Req : mine[q] # Unused(mine)
<1> DEFINE others == Req \ {r}
           image == {mine[q] : q \in others}
           n == Cardinality(Req)
<1>1. IsFiniteSet(Req) /\ n \in Nat
  BY RetrievalAssumption, FS_CardinalityType
<1>2. IsFiniteSet(others) /\ Cardinality(others) = n - 1
  BY <1>1, FS_RemoveElement
<1>3. IsFiniteSet(image) /\ Cardinality(image) <= n - 1
  <2>1. [q \in others |-> mine[q]] \in Surjection(others, image)
    BY DEF Surjection
  <2> QED
    BY <1>2, <2>1, FS_Surjection
<1>4. IsFiniteSet(1 .. n) /\ Cardinality(1 .. n) = n
  BY <1>1, FS_Interval
<1>5. ~(1 .. n \subseteq image)
  <2>1. 1 .. n \subseteq image => n <= Cardinality(image)
    BY <1>3, <1>4, FS_Subset
  <2>2. Cardinality(image) \in Nat
    BY <1>3, FS_CardinalityType
  <2> QED
    BY <1>1, <1>3, <2>1, <2>2
<1>6. PICK g \in 1 .. n : g \notin image
  BY <1>5
<1>7. g \in Generation \ {0} /\ \A q \in Req : mine[q] # g
  BY <1>1, <1>6 DEF Generation
<1> QED
  BY <1>7 DEF Unused

\* A request that joins the users of a key gets their object, or a new one.
LEMMA SharedJoin ==
  ASSUME NEW Key, NEW keyOf \in [Req -> Key], NEW object, NEW users, NEW mine,
         NEW active \in SUBSET Req, Shared(Key, keyOf, object, users, mine, active),
         NEW r \in Req \ active, NEW new,
         new = IF object[keyOf[r]] = 0 THEN Unused(mine) ELSE object[keyOf[r]]
  PROVE  Shared(Key, keyOf, [object EXCEPT ![keyOf[r]] = new],
                [users EXCEPT ![keyOf[r]] = @ + 1], [mine EXCEPT ![r] = new], active \cup {r})
<1> DEFINE k == keyOf[r]
           object2 == [object EXCEPT ![k] = new]
           users2 == [users EXCEPT ![k] = @ + 1]
           mine2 == [mine EXCEPT ![r] = new]
           active2 == active \cup {r}
<1>1. /\ object \in [Key -> Generation] /\ users \in [Key -> 0 .. Cardinality(Req)]
      /\ mine \in [Req -> Generation] /\ k \in Key /\ mine[r] = 0
  BY DEF Shared
<1>2. new \in Generation /\ new # 0
  BY <1>1, UnusedExists
<1>3. \A u \in Key : u # k => object[u] # new \/ object[u] = 0
  <2>1. CASE object[k] = 0
    <3>1. \A q \in Req : mine[q] # new
      BY <1>1, <2>1, UnusedExists
    <3>2. \A u \in Key : object[u] # 0 => \E q \in active : object[u] = mine[q]
      BY DEF Shared, UsersOf
    <3> QED
      BY <3>1, <3>2
  <2>2. CASE object[k] # 0
    BY <1>1, <2>2 DEF Shared
  <2> QED
    BY <2>1, <2>2
<1>4. \A u \in Key : /\ IsFiniteSet(UsersOf(keyOf, active, u))
                     /\ users[u] = Cardinality(UsersOf(keyOf, active, u))
  <2> TAKE u \in Key
  <2>1. UsersOf(keyOf, active, u) \in SUBSET Req
    BY DEF UsersOf
  <2> QED
    BY <2>1, RetrievalAssumption, FS_Subset DEF Shared
<1>5. ASSUME NEW u \in Key
      PROVE  /\ users2[u] = Cardinality(UsersOf(keyOf, active2, u))
             /\ users2[u] \in 0 .. Cardinality(Req)
  <2>1. UsersOf(keyOf, active2, u) \in SUBSET Req /\ IsFiniteSet(Req)
    BY RetrievalAssumption DEF UsersOf
  <2>2. /\ IsFiniteSet(UsersOf(keyOf, active2, u))
        /\ Cardinality(UsersOf(keyOf, active2, u)) <= Cardinality(Req)
    BY <2>1, FS_Subset
  <2>3. /\ Cardinality(UsersOf(keyOf, active2, u)) \in Nat
        /\ Cardinality(Req) \in Nat
    BY <2>1, <2>2, FS_CardinalityType
  <2>4. CASE u = k
    <3>1. UsersOf(keyOf, active2, u) = UsersOf(keyOf, active, u) \cup {r}
      BY <2>4 DEF UsersOf
    <3>2. r \notin UsersOf(keyOf, active, u)
      BY DEF UsersOf
    <3>3. Cardinality(UsersOf(keyOf, active, u) \cup {r}) = Cardinality(UsersOf(keyOf, active, u)) + 1
      BY <1>4, <3>2, FS_AddElement
    <3>4. users2[u] = users[u] + 1 /\ users[u] \in Int
      BY <1>1, <2>3, <2>4
    <3> HIDE DEF users2, active2
    <3> QED
      BY <1>4, <2>2, <2>3, <3>1, <3>3, <3>4
  <2>5. CASE u # k
    <3>1. UsersOf(keyOf, active2, u) = UsersOf(keyOf, active, u)
      BY <2>5 DEF UsersOf
    <3>2. users2[u] = users[u]
      BY <1>1, <2>5
    <3> QED
      BY <1>4, <2>2, <2>3, <3>1, <3>2
  <2> QED
    BY <2>4, <2>5
<1>6. /\ object2 \in [Key -> Generation] /\ mine2 \in [Req -> Generation]
      /\ users2 \in [Key -> 0 .. Cardinality(Req)]
  BY <1>1, <1>2, <1>5
<1>7. \A u \in Key : object2[u] # 0 => UsersOf(keyOf, active2, u) # {}
  BY <1>1 DEF Shared, UsersOf
<1>8. \A q \in active2 : mine2[q] # 0 /\ object2[keyOf[q]] = mine2[q]
  <2> TAKE q \in active2
  <2>1. CASE q = r
    BY <1>1, <1>2, <2>1
  <2>2. CASE q # r /\ keyOf[q] # k
    BY <1>1, <2>2 DEF Shared
  <2>3. CASE q # r /\ keyOf[q] = k
    <3>1. mine[q] # 0 /\ object[k] = mine[q]
      BY <2>3 DEF Shared
    <3> QED
      BY <1>1, <2>3, <3>1
  <2> QED
    BY <2>1, <2>2, <2>3
<1>9. \A q \in Req \ active2 : mine2[q] = 0
  BY <1>1 DEF Shared
<1>10. \A u, v \in Key : object2[u] # 0 /\ object2[u] = object2[v] => u = v
  BY <1>1, <1>3 DEF Shared
<1> HIDE DEF object2, users2, mine2, active2
<1>11. Shared(Key, keyOf, object2, users2, mine2, active2)
  BY <1>5, <1>6, <1>7, <1>8, <1>9, <1>10 DEF Shared
<1> QED
  BY <1>11 DEF object2, users2, mine2, active2

\* A request that leaves takes the object with it if it was the last user.
LEMMA SharedLeave ==
  ASSUME NEW Key, NEW keyOf \in [Req -> Key], NEW object, NEW users, NEW mine,
         NEW active \in SUBSET Req, Shared(Key, keyOf, object, users, mine, active),
         NEW r \in active
  PROVE  Shared(Key, keyOf,
                IF users[keyOf[r]] = 1 THEN [object EXCEPT ![keyOf[r]] = 0] ELSE object,
                [users EXCEPT ![keyOf[r]] = @ - 1], [mine EXCEPT ![r] = 0], active \ {r})
<1> DEFINE k == keyOf[r]
           object2 == IF users[k] = 1 THEN [object EXCEPT ![k] = 0] ELSE object
           users2 == [users EXCEPT ![k] = @ - 1]
           mine2 == [mine EXCEPT ![r] = 0]
           active2 == active \ {r}
<1>1. /\ object \in [Key -> Generation] /\ users \in [Key -> 0 .. Cardinality(Req)]
      /\ mine \in [Req -> Generation] /\ k \in Key
  BY DEF Shared
<1>2. IsFiniteSet(Req) /\ Cardinality(Req) \in Nat /\ 0 \in Generation
  <2>1. IsFiniteSet(Req) /\ Cardinality(Req) \in Nat
    BY RetrievalAssumption, FS_CardinalityType
  <2> QED
    BY <2>1 DEF Generation
<1>3. \A u \in Key : /\ IsFiniteSet(UsersOf(keyOf, active, u))
                     /\ users[u] = Cardinality(UsersOf(keyOf, active, u))
  <2> TAKE u \in Key
  <2>1. UsersOf(keyOf, active, u) \in SUBSET Req
    BY DEF UsersOf
  <2> QED
    BY <1>2, <2>1, FS_Subset DEF Shared
<1>4. ASSUME NEW u \in Key
      PROVE  /\ users2[u] = Cardinality(UsersOf(keyOf, active2, u))
             /\ users2[u] \in 0 .. Cardinality(Req)
             /\ IsFiniteSet(UsersOf(keyOf, active2, u))
  <2>1. UsersOf(keyOf, active2, u) \in SUBSET Req
    BY DEF UsersOf
  <2>2. /\ IsFiniteSet(UsersOf(keyOf, active2, u))
        /\ Cardinality(UsersOf(keyOf, active2, u)) <= Cardinality(Req)
    BY <1>2, <2>1, FS_Subset
  <2>3. Cardinality(UsersOf(keyOf, active2, u)) \in Nat
    BY <2>2, FS_CardinalityType
  <2>4. CASE u = k
    <3>1. UsersOf(keyOf, active2, u) = UsersOf(keyOf, active, u) \ {r}
      BY <2>4 DEF UsersOf
    <3>2. r \in UsersOf(keyOf, active, u)
      BY <2>4 DEF UsersOf
    <3>3. Cardinality(UsersOf(keyOf, active, u) \ {r}) = Cardinality(UsersOf(keyOf, active, u)) - 1
      BY <1>3, <3>2, FS_RemoveElement
    <3>4. users2[u] = users[u] - 1
      BY <1>1, <2>4
    <3> QED
      BY <1>2, <1>3, <2>2, <2>3, <3>1, <3>3, <3>4
  <2>5. CASE u # k
    <3>1. UsersOf(keyOf, active2, u) = UsersOf(keyOf, active, u)
      BY <2>5 DEF UsersOf
    <3>2. users2[u] = users[u]
      BY <1>1, <2>5
    <3> QED
      BY <1>2, <1>3, <2>2, <2>3, <3>1, <3>2
  <2> QED
    BY <2>4, <2>5
<1>5. /\ object2 \in [Key -> Generation] /\ mine2 \in [Req -> Generation]
      /\ users2 \in [Key -> 0 .. Cardinality(Req)]
  BY <1>1, <1>2, <1>4
<1>6. users[k] = 1 <=> UsersOf(keyOf, active2, k) = {}
  <2>1. users2[k] = users[k] - 1 /\ users[k] \in Int
    BY <1>1, <1>2
  <2>2. Cardinality(UsersOf(keyOf, active2, k)) = 0 <=> UsersOf(keyOf, active2, k) = {}
    BY <1>1, <1>4, FS_EmptySet
  <2>3. users2[k] = Cardinality(UsersOf(keyOf, active2, k))
    BY <1>1, <1>4
  <2> HIDE DEF users2, active2, k
  <2> QED
    BY <2>1, <2>2, <2>3
<1>7. \A u \in Key : object2[u] # 0 => UsersOf(keyOf, active2, u) # {}
  <2> TAKE u \in Key
  <2>1. CASE u = k
    BY <1>1, <1>6, <2>1
  <2>2. CASE u # k
    <3>1. UsersOf(keyOf, active2, u) = UsersOf(keyOf, active, u) /\ object2[u] = object[u]
      BY <1>1, <2>2 DEF UsersOf
    <3> QED
      BY <3>1 DEF Shared
  <2> QED
    BY <2>1, <2>2
<1>8. \A q \in active2 : mine2[q] # 0 /\ object2[keyOf[q]] = mine2[q]
  <2> TAKE q \in active2
  <2>1. mine[q] # 0 /\ object[keyOf[q]] = mine[q] /\ mine2[q] = mine[q]
    BY <1>1 DEF Shared
  <2>2. object2[keyOf[q]] = object[keyOf[q]]
    BY <1>1, <1>6 DEF UsersOf
  <2> QED
    BY <2>1, <2>2
<1>9. \A q \in Req \ active2 : mine2[q] = 0
  BY <1>1 DEF Shared
<1>10. \A u, v \in Key : object2[u] # 0 /\ object2[u] = object2[v] => u = v
  BY <1>1 DEF Shared
<1> HIDE DEF object2, users2, mine2, active2
<1>11. Shared(Key, keyOf, object2, users2, mine2, active2)
  BY <1>4, <1>5, <1>7, <1>8, <1>9, <1>10 DEF Shared
<1> QED
  BY <1>11 DEF object2, users2, mine2, active2

-----------------------------------------------------------------------------
(* The service.                                                            *)

\* The users of a lock, and of a semaphore.
Active == {r \in Req : at[r] # "idle"}
InDomain == {r \in Req : at[r] \in Queued \cup InSlot}
DomOf == [r \in Req |-> DomainOf[UrlOf[r]]]

\* Requests with a slot of one semaphore object.
Holders(g) == {r \in HasDomain : mySem[r] = g}

Locks == Shared(Url, UrlOf, lock, lockUsers, myLock, Active)
Semaphores == Shared(Domain, DomOf, sem, semUsers, mySem, InDomain)

ServiceInv ==
  /\ at \in [Req -> Place]
  /\ Locks
  /\ Semaphores
  /\ \A q, r \in Locked : myLock[q] = myLock[r] => q = r
  /\ \A g \in Generation \ {0} : Cardinality(Holders(g)) <= DomainSlots

\* The steps of a request.
Act(r) == ServiceStep(r) \/ Render(r) \/ Cancel(r)

\* They move that request only, from one place to another.
LEMMA ActMoves ==
  ASSUME at \in [Req -> Place], NEW r \in Req, Act(r)
  PROVE  at' \in [Req -> Place] /\ \A q \in Req \ {r} : at'[q] = at[q]
<1>1. \A place \in Place : GoTo(r, place) => /\ at' \in [Req -> Place]
                                             /\ \A q \in Req \ {r} : at'[q] = at[q]
  BY DEF GoTo
<1>2. \E place \in Place : GoTo(r, place)
  <2>1. CASE UrlLock(r) \/ Acquire(r) \/ Store(r) \/ Leave(r) \/ Cancel(r)
    BY <2>1 DEF UrlLock, Acquire, Store, Leave, Cancel, Place
  <2>2. CASE Read(r)
    BY <2>2 DEF Read, EnterDomain, Place, Queued
  <2>3. CASE DomainSlot(r)
    BY <2>3 DEF DomainSlot, Place, Queued
  <2>4. CASE GlobalSlot(r)
    BY <2>4 DEF GlobalSlot, Place, InSlot
  <2>5. CASE Fetch(r) \/ Render(r)
    BY <2>5 DEF Fetch, Render, Place, InSlot
  <2> QED
    BY <2>1, <2>2, <2>3, <2>4, <2>5 DEF Act, ServiceStep
<1> QED
  BY <1>1, <1>2

LEMMA LocksStep ==
  ASSUME ServiceInv, NEW r \in Req, Act(r)
  PROVE  Locks'
<1>0. /\ at \in [Req -> Place] /\ UrlOf \in [Req -> Url] /\ Active \in SUBSET Req
      /\ Shared(Url, UrlOf, lock, lockUsers, myLock, Active)
      /\ \A q \in Req \ {r} : at'[q] = at[q]
      /\ at' \in [Req -> Place]
  BY RetrievalAssumption, ActMoves DEF ServiceInv, Locks, Active
<1> SUFFICES Shared(Url, UrlOf, lock', lockUsers', myLock', Active')
  BY DEF Locks, Shared, UsersOf
<1>1. CASE UrlLock(r)
  <2> DEFINE new == IF lock[UrlOf[r]] = 0 THEN Unused(myLock) ELSE lock[UrlOf[r]]
  <2>1. r \in Req \ Active /\ Active' = Active \cup {r}
    BY <1>0, <1>1 DEF UrlLock, Active, GoTo
  <2>2. /\ lock' = [lock EXCEPT ![UrlOf[r]] = new]
        /\ myLock' = [myLock EXCEPT ![r] = new]
        /\ lockUsers' = [lockUsers EXCEPT ![UrlOf[r]] = @ + 1]
    BY <1>1 DEF UrlLock
  <2>3. Shared(Url, UrlOf, [lock EXCEPT ![UrlOf[r]] = new], [lockUsers EXCEPT ![UrlOf[r]] = @ + 1],
               [myLock EXCEPT ![r] = new], Active \cup {r})
    BY <1>0, <2>1, SharedJoin
  <2> QED
    BY <2>1, <2>2, <2>3
<1>2. CASE Leave(r)
  <2>1. r \in Active /\ Active' = Active \ {r}
    BY <1>0, <1>2 DEF Leave, Active, GoTo
  <2>2. /\ lock' = IF lockUsers[UrlOf[r]] = 1 THEN [lock EXCEPT ![UrlOf[r]] = 0] ELSE lock
        /\ myLock' = [myLock EXCEPT ![r] = 0]
        /\ lockUsers' = [lockUsers EXCEPT ![UrlOf[r]] = @ - 1]
    BY <1>2 DEF Leave
  <2>3. Shared(Url, UrlOf, IF lockUsers[UrlOf[r]] = 1 THEN [lock EXCEPT ![UrlOf[r]] = 0] ELSE lock,
               [lockUsers EXCEPT ![UrlOf[r]] = @ - 1], [myLock EXCEPT ![r] = 0], Active \ {r})
    BY <1>0, <2>1, SharedLeave
  <2> QED
    BY <2>1, <2>2, <2>3
<1>3. CASE ~UrlLock(r) /\ ~Leave(r)
  <2>1. UNCHANGED <<lock, lockUsers, myLock>>
    BY <1>3 DEF Act, ServiceStep, Acquire, Read, DomainSlot, GlobalSlot, Fetch, Render, Store, Cancel
  <2>2. at[r] # "idle" /\ at'[r] # "idle"
    BY <1>0, <1>3
       DEF Act, ServiceStep, Acquire, Read, EnterDomain, DomainSlot, GlobalSlot, Fetch, Render,
           Store, Cancel, GoTo, Queued, InSlot
  <2>3. Active' = Active
    BY <1>0, <2>2 DEF Active
  <2> QED
    BY <1>0, <2>1, <2>3
<1> QED
  BY <1>1, <1>2, <1>3

\* The semaphore of a domain is joined on the way in, left on the way out, and
\* kept in between.
LEMMA SemaphoresStep ==
  ASSUME ServiceInv, NEW r \in Req, Act(r)
  PROVE  /\ Semaphores'
         /\ \/ /\ UNCHANGED <<sem, semUsers, mySem>> /\ InDomain' = InDomain
            \/ /\ r \notin InDomain /\ at'[r] \in {"domain static", "domain browser"}
               /\ \A q \in Req \ {r} : mySem'[q] = mySem[q]
            \/ /\ r \in InDomain /\ r \notin InDomain'
               /\ \A q \in Req \ {r} : mySem'[q] = mySem[q]
<1>0. /\ at \in [Req -> Place] /\ DomOf \in [Req -> Domain] /\ InDomain \in SUBSET Req
      /\ Shared(Domain, DomOf, sem, semUsers, mySem, InDomain)
      /\ \A q \in Req \ {r} : at'[q] = at[q]
      /\ at' \in [Req -> Place] /\ Dom(r) = DomOf[r] /\ mySem \in [Req -> Generation]
  BY RetrievalAssumption, ActMoves DEF ServiceInv, Semaphores, InDomain, DomOf, Dom, Shared
<1> DEFINE Kept == UNCHANGED <<sem, semUsers, mySem>> /\ InDomain' = InDomain
           Joined == /\ r \notin InDomain /\ at'[r] \in {"domain static", "domain browser"}
                     /\ \A q \in Req \ {r} : mySem'[q] = mySem[q]
           Left == /\ r \in InDomain /\ r \notin InDomain'
                   /\ \A q \in Req \ {r} : mySem'[q] = mySem[q]
<1> SUFFICES /\ Shared(Domain, DomOf, sem', semUsers', mySem', InDomain')
             /\ Kept \/ Joined \/ Left
  BY DEF Semaphores, Shared, UsersOf
<1>1. CASE at[r] = "reading" /\ \E place \in {"domain browser", "domain static"} : EnterDomain(r, place)
  <2> DEFINE new == IF sem[DomOf[r]] = 0 THEN Unused(mySem) ELSE sem[DomOf[r]]
  <2>1. at'[r] \in {"domain static", "domain browser"}
    BY <1>0, <1>1 DEF EnterDomain, GoTo
  <2>2. r \in Req \ InDomain /\ InDomain' = InDomain \cup {r}
    BY <1>0, <1>1, <2>1 DEF InDomain, Queued, InSlot
  <2>3. /\ sem' = [sem EXCEPT ![DomOf[r]] = new]
        /\ mySem' = [mySem EXCEPT ![r] = new]
        /\ semUsers' = [semUsers EXCEPT ![DomOf[r]] = @ + 1]
    BY <1>0, <1>1 DEF EnterDomain
  <2>4. Shared(Domain, DomOf, [sem EXCEPT ![DomOf[r]] = new], [semUsers EXCEPT ![DomOf[r]] = @ + 1],
               [mySem EXCEPT ![r] = new], InDomain \cup {r})
    BY <1>0, <2>2, SharedJoin
  <2>5. Joined
    BY <1>0, <2>1, <2>2, <2>3
  <2> QED
    BY <2>2, <2>3, <2>4, <2>5
<1>2. CASE at[r] \in Queued \cup InSlot /\ LeaveDomain(r) /\ at'[r] \in {"storing", "ended"}
  <2>1. r \in InDomain /\ InDomain' = InDomain \ {r}
    BY <1>0, <1>2 DEF InDomain, Queued, InSlot
  <2>2. /\ sem' = IF semUsers[DomOf[r]] = 1 THEN [sem EXCEPT ![DomOf[r]] = 0] ELSE sem
        /\ mySem' = [mySem EXCEPT ![r] = 0]
        /\ semUsers' = [semUsers EXCEPT ![DomOf[r]] = @ - 1]
    BY <1>0, <1>2 DEF LeaveDomain
  <2>3. Shared(Domain, DomOf, IF semUsers[DomOf[r]] = 1 THEN [sem EXCEPT ![DomOf[r]] = 0] ELSE sem,
               [semUsers EXCEPT ![DomOf[r]] = @ - 1], [mySem EXCEPT ![r] = 0], InDomain \ {r})
    BY <1>0, <2>1, SharedLeave
  <2>4. Left
    BY <1>0, <2>1, <2>2
  <2> QED
    BY <2>1, <2>2, <2>3, <2>4
<1>3. CASE /\ UNCHANGED <<sem, semUsers, mySem>>
           /\ at[r] \in Queued \cup InSlot <=> at'[r] \in Queued \cup InSlot
  <2>1. InDomain' = InDomain
    BY <1>0, <1>3 DEF InDomain
  <2> QED
    BY <1>0, <1>3, <2>1
<1> HIDE DEF Kept, Joined, Left
<1>4. CASE Read(r)
  <2>1. CASE GoTo(r, "ended") /\ UNCHANGED <<sem, semUsers, mySem>>
    BY <1>0, <1>3, <1>4, <2>1 DEF Read, GoTo, Queued, InSlot
  <2> QED
    BY <1>1, <1>4, <2>1 DEF Read
<1>5. CASE Fetch(r) \/ Render(r)
  BY <1>0, <1>2, <1>3, <1>5 DEF Fetch, Render, GoTo, Queued, InSlot
<1>6. CASE Cancel(r)
  BY <1>0, <1>2, <1>3, <1>6 DEF Cancel, GoTo, Queued, InSlot
<1>7. CASE UrlLock(r) \/ Acquire(r) \/ DomainSlot(r) \/ GlobalSlot(r) \/ Store(r) \/ Leave(r)
  BY <1>0, <1>3, <1>7 DEF UrlLock, Acquire, DomainSlot, GlobalSlot, Store, Leave, GoTo, Queued, InSlot
<1> QED
  BY <1>4, <1>5, <1>6, <1>7 DEF Act, ServiceStep

\* A lock is acquired by one of its users at a time, and none of those who wait
\* or work gets another object.
LEMMA LockedStep ==
  ASSUME ServiceInv, NEW r \in Req, Act(r)
  PROVE  (\A p, q \in Locked : myLock[p] = myLock[q] => p = q)'
<1>0. /\ at \in [Req -> Place] /\ at' \in [Req -> Place] /\ \A q \in Req \ {r} : at'[q] = at[q]
      /\ myLock \in [Req -> Generation]
      /\ \A p, q \in Locked : myLock[p] = myLock[q] => p = q
  BY ActMoves DEF ServiceInv, Locks, Shared
<1>1. CASE Acquire(r)
  <2>1. \A q \in Locked : myLock[q] # myLock[r]
    BY <1>1 DEF Acquire
  <2>2. Locked' \subseteq Locked \cup {r} /\ myLock' = myLock
    BY <1>0, <1>1 DEF Acquire, Locked
  <2> QED
    BY <1>0, <2>1, <2>2
<1>2. CASE ~Acquire(r)
  <2>1. r \in Locked' => r \in Locked /\ UNCHANGED myLock
    BY <1>0, <1>2
       DEF Act, ServiceStep, UrlLock, Read, EnterDomain, DomainSlot, GlobalSlot, Fetch, Render,
           Store, Leave, Cancel, GoTo, Locked, Queued, InSlot
  <2>2. \A q \in Req \ {r} : myLock'[q] = myLock[q] /\ (q \in Locked' => q \in Locked)
    BY <1>0 DEF Act, ServiceStep, UrlLock, Acquire, Read, DomainSlot, GlobalSlot, Fetch, Render,
                Store, Leave, Cancel, Locked
  <2>3. Locked' \subseteq Locked /\ \A q \in Locked' : myLock'[q] = myLock[q]
    BY <2>1, <2>2 DEF Locked
  <2> QED
    BY <1>0, <2>3
<1> QED
  BY <1>1, <1>2

\* A slot of a semaphore is taken while there is one.
LEMMA HoldersStep ==
  ASSUME ServiceInv, NEW r \in Req, Act(r), NEW g \in Generation \ {0}
  PROVE  Cardinality(Holders(g))' <= DomainSlots
<1>0. /\ at \in [Req -> Place] /\ at' \in [Req -> Place] /\ \A q \in Req \ {r} : at'[q] = at[q]
      /\ IsFiniteSet(Req) /\ DomainSlots \in Nat
      /\ Cardinality(Holders(g)) <= DomainSlots
  BY ActMoves, RetrievalAssumption DEF ServiceInv
<1>1. IsFiniteSet(Holders(g)) /\ Cardinality(Holders(g)) \in Nat
  <2>1. Holders(g) \in SUBSET Req
    BY DEF Holders, HasDomain
  <2> QED
    BY <1>0, <2>1, FS_Subset, FS_CardinalityType
<1>2. CASE DomainSlot(r)
  <2>1. /\ Cardinality(Holders(mySem[r])) < DomainSlots
        /\ UNCHANGED mySem
    BY <1>2 DEF DomainSlot, Holders
  <2>2. Holders(g)' = IF mySem[r] = g THEN Holders(g) \cup {r} ELSE Holders(g)
    BY <1>0, <1>2, <2>1 DEF DomainSlot, GoTo, Holders, HasDomain, InSlot
  <2>3. r \notin Holders(g)
    BY <1>0, <1>2 DEF DomainSlot, Holders, HasDomain, InSlot
  <2>4. Cardinality(Holders(g) \cup {r}) = Cardinality(Holders(g)) + 1
    BY <1>1, <2>3, FS_AddElement
  <2> QED
    BY <1>0, <1>1, <2>1, <2>2, <2>4
<1>3. CASE ~DomainSlot(r)
  <2>1. \A q \in HasDomain' : q \in HasDomain /\ mySem'[q] = mySem[q]
    <3>1. at'[r] \in {"global static", "global browser"} \cup InSlot =>
            at[r] \in {"global static", "global browser"} \cup InSlot
      BY <1>0, <1>3
         DEF Act, ServiceStep, UrlLock, Acquire, Read, EnterDomain, GlobalSlot, Fetch, Render,
             Store, Leave, Cancel, GoTo, InSlot
    <3>2. HasDomain' \subseteq HasDomain
      BY <1>0, <3>1 DEF HasDomain
    <3>3. r \in HasDomain' => mySem'[r] = mySem[r]
      BY <1>0, <3>2, SemaphoresStep DEF HasDomain, InDomain, InSlot, Queued
    <3>4. \A q \in Req \ {r} : mySem'[q] = mySem[q]
      BY SemaphoresStep
    <3> QED
      BY <3>2, <3>3, <3>4 DEF HasDomain
  <2>2. Holders(g)' \in SUBSET Holders(g)
    BY <2>1 DEF Holders
  <2>3. Cardinality(Holders(g)') <= Cardinality(Holders(g))
    BY <1>1, <2>2, FS_Subset
  <2>4. Cardinality(Holders(g)') \in Nat
    BY <1>1, <2>2, FS_Subset, FS_CardinalityType
  <2> QED
    BY <1>0, <1>1, <2>3, <2>4
<1> QED
  BY <1>2, <1>3

LEMMA ServiceStepInv ==
  ASSUME ServiceInv, NEW r \in Req, Act(r)
  PROVE  ServiceInv'
<1>1. at' \in [Req -> Place] /\ Locks' /\ Semaphores'
  BY ActMoves, LocksStep, SemaphoresStep DEF ServiceInv
<1>2. (\A g \in Generation \ {0} : Cardinality(Holders(g)) <= DomainSlots)'
  BY HoldersStep
<1> QED
  BY <1>1, <1>2, LockedStep DEF ServiceInv

-----------------------------------------------------------------------------
(* The browser.                                                            *)

Stage == {"asks", "waits", "launches", "renders"}

\* Whoever launches a browser holds the lock for it, and there is none meanwhile.
BrowserInv ==
  /\ chromium \in Generation
  /\ stage \in [Req -> Stage] /\ uses \in [Req -> Generation]
  /\ \A r \in Req : stage[r] = "launches" => launcher = r /\ chromium = 0
  /\ BrowserServesItsUsers

LEMMA BrowserStepInv == BrowserInv /\ [BrowserNext]_renderVars => BrowserInv'
<1> SUFFICES ASSUME BrowserInv, [BrowserNext]_renderVars
             PROVE  BrowserInv'
  OBVIOUS
<1> USE DEF BrowserInv, BrowserServesItsUsers
<1>0. 0 \in Generation
  BY RetrievalAssumption, FS_CardinalityType DEF Generation
<1>1. ASSUME NEW r \in Req, OpenContext(r), Connected
      PROVE  BrowserInv'
  BY <1>1 DEF OpenContext, ToStage, Connected, Stage
<1>2. ASSUME NEW r \in Req, EnsureBrowser(r)
      PROVE  BrowserInv'
  BY <1>1, <1>2 DEF EnsureBrowser, ToStage, Stage
<1>3. ASSUME NEW r \in Req, EnterLaunch(r)
      PROVE  BrowserInv'
  BY <1>0, <1>1, <1>3, NoReqAssumption DEF EnterLaunch, CloseRuntime, ToStage, Stage, Connected
<1>4. ASSUME NEW r \in Req, Launched(r)
      PROVE  BrowserInv'
  <2>1. /\ launcher = r /\ chromium = 0 /\ \A q \in Req : uses[q] = 0
        /\ \A q \in Req \ {r} : stage[q] # "launches"
    BY <1>4 DEF Launched
  <2>2. chromium' \in Generation \ {0}
    <3>1. 1 \in Generation \ {0}
      <4>1. IsFiniteSet(Req) /\ Cardinality(Req) \in Nat /\ Cardinality(Req) # 0
        BY RetrievalAssumption, FS_CardinalityType, FS_EmptySet
      <4> QED
        BY <4>1 DEF Generation
    <3>2. \A q \in Req \ {r} : uses[q] # 1
      BY <2>1
    <3> QED
      BY <1>4, <3>1, <3>2 DEF Launched
  <2>3. /\ stage' = [stage EXCEPT ![r] = "renders"]
        /\ uses' = [uses EXCEPT ![r] = chromium']
        /\ launcher' = NoReq
    BY <1>4 DEF Launched, ToStage
  <2> QED
    BY <2>1, <2>2, <2>3 DEF Stage
<1>5. ASSUME NEW r \in Req, CloseContext(r)
      PROVE  BrowserInv'
  BY <1>0, <1>5 DEF CloseContext, ToStage, Stage
<1>6. CASE Disconnect
  BY <1>0, <1>6 DEF Disconnect, Connected
<1>7. CASE UNCHANGED browserVars
  BY <1>7 DEF browserVars
<1> QED
  BY <1>2, <1>3, <1>4, <1>5, <1>6, <1>7
     DEF BrowserNext, BrowserStep, EndRendering, CancelRendering, renderVars

-----------------------------------------------------------------------------
(* Service and browser together.                                           *)

LEMMA ServiceCorrect == BrowserSpec => []ServiceInv
<1>1. BrowserInit => ServiceInv
  <2> SUFFICES ASSUME BrowserInit
               PROVE  ServiceInv
    OBVIOUS
  <2>1. IsFiniteSet({}) /\ Cardinality({}) = 0 /\ Cardinality(Req) \in Nat
    BY RetrievalAssumption, FS_EmptySet, FS_CardinalityType
  <2>2. at = [r \in Req |-> "idle"]
    BY DEF BrowserInit, Init
  <2>3. Active = {} /\ InDomain = {} /\ Locked = {} /\ HasDomain = {}
    BY <2>2 DEF Active, InDomain, Locked, HasDomain, Queued, InSlot
  <2>4. /\ \A u : UsersOf(UrlOf, Active, u) = {}
        /\ \A d : UsersOf(DomOf, InDomain, d) = {}
        /\ \A g : Holders(g) = {}
    BY <2>3 DEF UsersOf, Holders
  <2>5. Locks
    BY <2>1, <2>3, <2>4 DEF BrowserInit, Init, Locks, Shared, Generation
  <2>6. Semaphores
    BY <2>1, <2>3, <2>4 DEF BrowserInit, Init, Semaphores, Shared, Generation
  <2> QED
    BY <2>1, <2>2, <2>3, <2>4, <2>5, <2>6, RetrievalAssumption DEF ServiceInv, Place
<1>2. ServiceInv /\ [BrowserNext]_renderVars => ServiceInv'
  <2>1. ServiceInv /\ UNCHANGED vars => ServiceInv'
    <3> SUFFICES ASSUME ServiceInv, UNCHANGED vars
                 PROVE  ServiceInv'
      OBVIOUS
    <3>1. Locks'
      BY DEF ServiceInv, Locks, Shared, UsersOf, Active, vars
    <3>2. Semaphores'
      BY DEF ServiceInv, Semaphores, Shared, UsersOf, InDomain, vars
    <3>3. (\A q, r \in Locked : myLock[q] = myLock[r] => q = r)'
      BY DEF ServiceInv, Locked, vars
    <3>4. \A g : Holders(g)' = Holders(g)
      BY DEF Holders, HasDomain, vars
    <3>5. (\A g \in Generation \ {0} : Cardinality(Holders(g)) <= DomainSlots)'
      BY <3>4 DEF ServiceInv
    <3> QED
      BY <3>1, <3>2, <3>3, <3>5 DEF ServiceInv, vars
  <2>2. BrowserNext => UNCHANGED vars \/ \E r \in Req : Act(r)
    BY DEF BrowserNext, BrowserStep, EnsureBrowser, EnterLaunch, Launched, EndRendering,
           CancelRendering, Disconnect, Act
  <2> QED
    BY <2>1, <2>2, ServiceStepInv DEF renderVars
<1> QED
  BY <1>1, <1>2, PTL DEF BrowserSpec

\* A page is fetched by one request at a time, and a domain is never asked by
\* more than its politeness limit, although its lock and its semaphore come and
\* go with their users (_url_lock and _domain_sem, app/retrieval/service.py).
THEOREM ApartCorrect == BrowserSpec => []RequestsKeepApart
<1>1. ServiceInv => RequestsKeepApart
  <2> SUFFICES ASSUME ServiceInv
               PROVE  RequestsKeepApart
    OBVIOUS
  <2>1. \A q, r \in Locked : UrlOf[q] = UrlOf[r] => q = r
    <3>1. \A r \in Locked : r \in Active
      BY DEF Locked, Active, Queued, InSlot
    <3> QED
      BY <3>1 DEF ServiceInv, Locks, Shared
  <2>2. ASSUME NEW d \in Domain
        PROVE  Cardinality({r \in HasGlobal : Dom(r) = d}) <= DomainSlots
    <3> DEFINE here == {r \in HasGlobal : Dom(r) = d}
    <3>1. CASE here = {}
      BY <3>1, FS_EmptySet, RetrievalAssumption
    <3>2. CASE here # {}
      <4>1. \A r \in here : /\ r \in InDomain /\ r \in HasDomain
                            /\ DomOf[r] = d
        BY DEF HasGlobal, HasDomain, InDomain, DomOf, Dom
      <4>2. \A r \in here : mySem[r] # 0 /\ mySem[r] = sem[d]
        BY <4>1 DEF ServiceInv, Semaphores, Shared
      <4>3. sem[d] \in Generation \ {0}
        BY <3>2, <4>2 DEF ServiceInv, Semaphores, Shared
      <4>4. here \in SUBSET Holders(sem[d]) /\ Holders(sem[d]) \in SUBSET Req
        BY <4>1, <4>2 DEF Holders, HasDomain
      <4> HIDE DEF here
      <4>5. IsFiniteSet(Holders(sem[d])) /\ IsFiniteSet(here)
        BY <4>4, FS_Subset, RetrievalAssumption
      <4>6. /\ Cardinality(here) <= Cardinality(Holders(sem[d]))
            /\ Cardinality(Holders(sem[d])) <= DomainSlots
            /\ Cardinality(here) \in Nat /\ Cardinality(Holders(sem[d])) \in Nat
        BY <4>3, <4>4, <4>5, FS_Subset, FS_CardinalityType DEF ServiceInv
      <4> QED
        BY <4>6, RetrievalAssumption DEF here
    <3> QED
      BY <3>1, <3>2
  <2> QED
    BY <2>1, <2>2 DEF RequestsKeepApart
<1> QED
  BY <1>1, ServiceCorrect, PTL

\* A lock or a semaphore that nobody uses is not kept: a worker that runs for
\* months does not collect them.
THEOREM ObjectsCorrect == BrowserSpec => []NoObjectWithoutUsers
<1>1. ServiceInv => NoObjectWithoutUsers
  <2> SUFFICES ASSUME ServiceInv
               PROVE  NoObjectWithoutUsers
    OBVIOUS
  <2>1. TypeOK
    BY DEF ServiceInv, Locks, Semaphores, Shared, TypeOK
  <2>2. \A u \in Url : lock[u] # 0 => \E r \in Req : UrlOf[r] = u /\ at[r] # "idle"
    BY DEF ServiceInv, Locks, Shared, UsersOf, Active
  <2>3. \A d \in Domain : sem[d] # 0 =>
          \E r \in Req : Dom(r) = d /\ at[r] \in Queued \cup InSlot
    BY DEF ServiceInv, Semaphores, Shared, UsersOf, InDomain, DomOf, Dom
  <2> QED
    BY <2>1, <2>2, <2>3 DEF NoObjectWithoutUsers
<1> QED
  BY <1>1, ServiceCorrect, PTL

\* A browser that pages are being rendered in is never replaced, whatever
\* crashes, times out or is cancelled (_ensure_browser, app/retrieval/browser.py).
THEOREM BrowserCorrect == BrowserSpec => []BrowserServesItsUsers
<1>1. BrowserInit => BrowserInv
  <2>1. 0 \in Generation
    BY RetrievalAssumption, FS_CardinalityType DEF Generation
  <2> QED
    BY <2>1 DEF BrowserInit, BrowserInv, BrowserServesItsUsers, Stage
<1>2. BrowserInv => BrowserServesItsUsers
  BY DEF BrowserInv
<1> QED
  BY <1>1, <1>2, BrowserStepInv, PTL DEF BrowserSpec
=============================================================================
