--------------------------- MODULE Backend_proofs ---------------------------
(***************************************************************************)
(* The parts below the request handlers, for every value of the constants: *)
(* ids grow, friendship follows consent, limits are kept, and a token      *)
(* works until it is logged out.  Each part is proved of its own           *)
(* specification, with an inductive invariant of its own: IdInv,           *)
(* FriendInv, LimitInv and AccountInv.                                     *)
(***************************************************************************)
EXTENDS MCBackend, TLAPS

-----------------------------------------------------------------------------
(* Ids.  That the last id is at most Id(last, sequence) is not inductive: a *)
(* call that waits for the next millisecond has set sequence_ to 0 already, *)
(* and a restart forgets both fields.  IdInv says what bounds the last id   *)
(* then: the largest id of its millisecond.                                 *)

(* The largest number that an id of millisecond last has been given.        *)
Used == IF call = "sequence" THEN SeqSize - 1 ELSE sequence

IdInv ==
  /\ S!TypeOK
  /\ id = -1 \/ id < S!Id(made + 1, 0)
  /\ ~fresh => last >= Epoch /\ id <= S!Id(last, Used)

(* Ids are integers.                                                        *)
LEMMA IdType == \A m, s \in Nat : S!Id(m, s) \in Int
BY BackendAssumption, SMTT(30) DEF S!Id

(* Within a millisecond the sequence orders the ids.                        *)
LEMMA IdSameMs == \A m, s, t \in Nat : s < t => S!Id(m, s) < S!Id(m, t)
<1> SUFFICES ASSUME NEW m \in Nat, NEW s \in Nat, NEW t \in Nat, s < t
             PROVE  S!Id(m, s) < S!Id(m, t)
    BY Zenon
<1> DEFINE b == (m - Epoch) * SeqSize
<1>1. b \in Int
  BY BackendAssumption, SMTT(30)
<1>2. S!Id(m, s) = b + s /\ S!Id(m, t) = b + t
  BY Zenon DEF S!Id
<1> HIDE DEF b
<1> QED
  BY <1>1, <1>2, SMTT(30)

(* Every id of a millisecond is below every id of a later one: the sequence *)
(* does not reach into the time part.                                       *)
LEMMA IdNextMs ==
  \A m, n, s \in Nat : m < n /\ s < SeqSize => S!Id(m, s) < S!Id(n, 0)
<1> SUFFICES ASSUME NEW m \in Nat, NEW n \in Nat, NEW s \in Nat, m < n, s < SeqSize
             PROVE  S!Id(m, s) < S!Id(n, 0)
    BY Zenon
<1> DEFINE b == (m - Epoch) * SeqSize
           c == (n - m - 1) * SeqSize
<1>1. b \in Int /\ c \in Nat
  BY BackendAssumption, SMTT(30)
<1>2. S!Id(m, s) = b + s
  BY Zenon DEF S!Id
<1>3. S!Id(n, 0) = b + c + SeqSize
  BY BackendAssumption, SMTT(30) DEF S!Id
<1> HIDE DEF b, c
<1> QED
  BY <1>1, <1>2, <1>3, BackendAssumption, SMTT(30)

(* From the epoch on ids are not negative.                                  *)
LEMMA IdPositive == \A m, s \in Nat : m >= Epoch => S!Id(m, s) >= 0
<1> SUFFICES ASSUME NEW m \in Nat, NEW s \in Nat, m >= Epoch PROVE S!Id(m, s) >= 0
    BY Zenon
<1> DEFINE b == (m - Epoch) * SeqSize
<1>1. b \in Nat
  BY BackendAssumption, SMTT(30)
<1>2. S!Id(m, s) = b + s
  BY Zenon DEF S!Id
<1> HIDE DEF b
<1> QED
  BY <1>1, <1>2, SMTT(30)

(* The invariant holds at first.                                            *)
LEMMA IdsInit == S!Init => IdInv
<1> SUFFICES ASSUME S!Init PROVE IdInv
    BY Zenon
<1>1. S!TypeOK
  BY BackendAssumption, SMTT(30) DEF S!Init, S!TypeOK
<1> QED
  BY <1>1, Zenon DEF S!Init, IdInv

(* What a returning call establishes, for a number that exceeds those of    *)
(* the same process.                                                        *)
LEMMA Returned ==
  ASSUME IdInv, NEW seq \in 0..(SeqSize - 1), S!Return(clock, seq), clock' = clock,
         clock >= last, ~fresh => id < S!Id(clock, seq)
  PROVE  IdInv' /\ (id' # id /\ (fresh => clock > made) => id' > id)
<1> USE BackendAssumption
<1>1. /\ clock \in Nat /\ last \in Nat /\ id \in Int /\ made \in Nat /\ seq \in Nat
      /\ made + 1 \in Nat /\ clock + 1 \in Nat /\ Epoch \in Nat
      /\ seq < SeqSize /\ fresh \in BOOLEAN
  BY SMTT(30) DEF IdInv, S!TypeOK
<1>2. last' = clock /\ sequence' = seq /\ call' = "none"
  BY Zenon DEF S!Return
<1>3. CASE clock < Epoch
  <2>1. id' = id /\ made' = made /\ fresh' = fresh
    BY <1>3, Zenon DEF S!Return
  <2>2. fresh
    BY <1>1, <1>3, SMTT(30) DEF IdInv
  <2>3. S!TypeOK'
    BY <1>1, <1>2, <2>1, Zenon DEF IdInv, S!TypeOK
  <2> QED
    BY <2>1, <2>2, <2>3, Zenon DEF IdInv, S!Id
<1>4. CASE ~(clock < Epoch)
  <2>1. id' = S!Id(clock, seq) /\ made' = clock /\ fresh' = FALSE
    BY <1>4, Zenon DEF S!Return
  <2>2. clock >= Epoch
    BY <1>1, <1>4, SMTT(30)
  <2>3. S!Id(clock, seq) \in Int /\ S!Id(clock, seq) >= 0
    BY <1>1, <2>2, IdType, IdPositive, Zenon
  <2>4. S!Id(clock, seq) < S!Id(clock + 1, 0)
    <3>1. clock < clock + 1
      BY <1>1, SMTT(30)
    <3> QED
      BY <1>1, <3>1, IdNextMs, Zenon
  <2>5. S!TypeOK'
    BY <1>1, <1>2, <2>1, <2>3, Zenon DEF IdInv, S!TypeOK
  <2>6. Used' = seq
    BY <1>2, Zenon DEF Used
  <2>7. S!Id(last, Used)' = S!Id(clock, seq) /\ S!Id(made + 1, 0)' = S!Id(clock + 1, 0)
    BY <1>2, <2>1, <2>6, Zenon DEF S!Id
  <2>8. IdInv'
    BY <1>1, <1>2, <2>1, <2>2, <2>3, <2>4, <2>5, <2>7, SMTT(30) DEF IdInv
  <2>9. ASSUME fresh, clock > made PROVE id' > id
    <3>1. CASE id = -1
      BY <2>1, <2>3, <3>1, SMTT(30)
    <3>2. CASE id < S!Id(made + 1, 0)
      <4>1. S!Id(clock, 0) <= S!Id(clock, seq)
        <5>1. CASE seq = 0
          BY <1>1, <5>1, IdType, SMTT(30)
        <5>2. CASE 0 < seq
          <6>1. S!Id(clock, 0) < S!Id(clock, seq)
            BY <1>1, <5>2, IdSameMs, Zenon
          <6> QED
            BY <1>1, <6>1, IdType, SMTT(30)
        <5> QED
          BY <1>1, <5>1, <5>2, SMTT(30)
      <4>2. S!Id(made + 1, 0) <= S!Id(clock, 0)
        <5>1. CASE made + 1 = clock
          BY <1>1, <5>1, IdType, SMTT(30)
        <5>2. CASE made + 1 < clock
          <6>1. 0 < SeqSize
            BY SMTT(30)
          <6>2. S!Id(made + 1, 0) < S!Id(clock, 0)
            BY <1>1, <5>2, <6>1, IdNextMs, Zenon
          <6> QED
            BY <1>1, <6>2, IdType, SMTT(30)
        <5> QED
          BY <1>1, <2>9, <5>1, <5>2, SMTT(30)
      <4>3. S!Id(made + 1, 0) \in Int /\ S!Id(clock, 0) \in Int
        BY <1>1, IdType, Zenon
      <4> QED
        BY <1>1, <2>1, <2>3, <3>2, <4>1, <4>2, <4>3, SMTT(30)
    <3> QED
      BY <3>1, <3>2, Zenon DEF IdInv
  <2>10. ASSUME ~fresh PROVE id' > id
    BY <1>1, <2>1, <2>3, <2>10, SMTT(30)
  <2> QED
    BY <1>1, <2>8, <2>9, <2>10, Zenon
<1> QED
  BY <1>3, <1>4, Zenon

(* In a later millisecond than the last one the number 0 exceeds them.      *)
LEMMA LaterMs ==
  ASSUME IdInv, clock > last, ~fresh
  PROVE  id < S!Id(clock, 0)
<1> USE BackendAssumption
<1>1. clock \in Nat /\ last \in Nat /\ id \in Int /\ Used \in Nat /\ Used < SeqSize
  BY SMTT(30) DEF IdInv, S!TypeOK, Used
<1>2. id <= S!Id(last, Used)
  BY Zenon DEF IdInv
<1>3. S!Id(last, Used) < S!Id(clock, 0)
  BY <1>1, IdNextMs, Zenon
<1>4. S!Id(last, Used) \in Int /\ S!Id(clock, 0) \in Int
  BY <1>1, IdType, Zenon
<1> QED
  BY <1>1, <1>2, <1>3, <1>4, SMTT(30)

(* The remainder in nextId() is the successor, or 0 when the numbers of the *)
(* millisecond are used up.                                                 *)
LEMMA SequenceStep ==
  \A n \in 0..(SeqSize - 1) :
    (n + 1) % SeqSize = IF n = SeqSize - 1 THEN 0 ELSE n + 1
BY BackendAssumption, SMTT(30)

(* Every step keeps the invariant, and an id it returns is larger, the      *)
(* first of a process if the clock has passed the last.                     *)
LEMMA IdsNext ==
  IdInv /\ [S!Next]_S!vars =>
    IdInv' /\ (id' # id /\ (fresh => clock > made) => id' > id)
<1> SUFFICES ASSUME IdInv, [S!Next]_S!vars
             PROVE  IdInv' /\ (id' # id /\ (fresh => clock > made) => id' > id)
    BY Zenon
<1> USE BackendAssumption
<1>0. /\ clock \in Nat /\ last \in Nat /\ id \in Int
      /\ sequence \in 0..(SeqSize - 1) /\ 0 \in 0..(SeqSize - 1)
  BY SMTT(30) DEF IdInv, S!TypeOK
<1>1. CASE S!NextId
  <2>0. clock >= last /\ clock' = clock /\ call = "none"
    BY <1>1, Zenon DEF S!NextId
  <2>1. CASE clock > last
    <3>1. S!Return(clock, 0)
      BY <1>0, <1>1, <2>1, SMTT(30) DEF S!NextId
    <3> QED
      BY <1>0, <2>0, <2>1, <3>1, LaterMs, Returned, Zenon
  <2>2. CASE clock = last /\ sequence = SeqSize - 1
    <3>1. (sequence + 1) % SeqSize = 0
      BY <1>0, <2>2, SequenceStep, Zenon
    <3>2. /\ call' = "sequence" /\ sequence' = 0 /\ last' = last
          /\ id' = id /\ made' = made /\ fresh' = fresh
      BY <1>1, <2>2, <3>1, Zenon DEF S!NextId
    <3>3. Used' = Used
      BY <2>0, <2>2, <3>2, Zenon DEF Used
    <3>4. S!TypeOK'
      BY <1>0, <2>0, <3>2, Zenon DEF IdInv, S!TypeOK
    <3> QED
      BY <3>2, <3>3, <3>4, Zenon DEF IdInv, S!Id
  <2>3. CASE clock = last /\ sequence # SeqSize - 1
    <3>1. (sequence + 1) % SeqSize = sequence + 1 /\ sequence + 1 # 0
      BY <1>0, <2>3, SequenceStep, SMTT(30)
    <3>2. S!Return(clock, sequence + 1)
      BY <1>1, <2>3, <3>1, Zenon DEF S!NextId
    <3>3. ASSUME ~fresh PROVE id < S!Id(clock, sequence + 1)
      <4>1. id <= S!Id(last, sequence)
        BY <2>0, <3>3, Zenon DEF IdInv, Used
      <4>2. S!Id(last, sequence) < S!Id(last, sequence + 1)
        BY <1>0, IdSameMs, SMTT(30)
      <4>3. S!Id(last, sequence) \in Int /\ S!Id(last, sequence + 1) \in Int
        BY <1>0, IdType, SMTT(30)
      <4> QED
        BY <1>0, <2>3, <4>1, <4>2, <4>3, SMTT(30)
    <3>4. sequence + 1 \in 0..(SeqSize - 1)
      BY <1>0, <2>3, SMTT(30)
    <3> QED
      BY <2>0, <3>2, <3>3, <3>4, Returned, Zenon
  <2> QED
    BY <1>0, <2>0, <2>1, <2>2, <2>3, SMTT(30)
<1>2. CASE S!ClockBehind
  <2>1. /\ call = "none" /\ call' = "behind" /\ clock' = clock /\ last' = last
        /\ sequence' = sequence /\ id' = id /\ made' = made /\ fresh' = fresh
    BY <1>2, Zenon DEF S!ClockBehind
  <2>2. Used' = Used
    BY <2>1, Zenon DEF Used
  <2> QED
    BY <2>1, <2>2, Zenon DEF IdInv, S!TypeOK, S!Id
<1>3. CASE S!Wake
  <2>1. S!Return(clock, 0) /\ clock' = clock /\ clock > last
    BY <1>3, Zenon DEF S!Wake
  <2>2. clock >= last
    BY <1>0, <2>1, SMTT(30)
  <2> QED
    BY <1>0, <2>1, <2>2, LaterMs, Returned, Zenon
<1>4. CASE S!Restart
  <2>1. /\ last' = 0 /\ sequence' = 0 /\ call' = "none" /\ fresh' = TRUE
        /\ clock' = clock /\ id' = id /\ made' = made
    BY <1>4, Zenon DEF S!Restart
  <2>2. S!TypeOK'
    BY <1>0, <2>1, Zenon DEF IdInv, S!TypeOK
  <2> QED
    BY <2>1, <2>2, Zenon DEF IdInv, S!Id
<1>5. ASSUME NEW t \in 0..LastClock, S!SetClock(t) PROVE IdInv' /\ id' = id
  <2>1. /\ clock' = t /\ last' = last /\ sequence' = sequence /\ call' = call
        /\ id' = id /\ made' = made /\ fresh' = fresh
    BY <1>5, Zenon DEF S!SetClock
  <2>2. Used' = Used
    BY <2>1, Zenon DEF Used
  <2> QED
    BY <2>1, <2>2, Zenon DEF IdInv, S!TypeOK, S!Id
<1>6. CASE UNCHANGED S!vars
  BY <1>6, Zenon DEF S!vars, IdInv, S!TypeOK, Used, S!Id
<1> QED
  BY <1>1, <1>2, <1>3, <1>4, <1>5, <1>6, Zenon DEF S!Next

(* Whatever the widths and the clock, an id is larger than the one before   *)
(* it, the first id of a process if the clock has passed the last one of    *)
(* the process before: IdsGrow, for every value of the constants.           *)
THEOREM IdsAlwaysGrow == S!Spec => IdsGrow
<1>1. S!Init => IdInv
  BY IdsInit, Zenon
<1>2. IdInv /\ [S!Next]_S!vars =>
        IdInv' /\ [id' # id /\ (fresh => clock > made) => id' > id]_S!vars
  BY IdsNext, Zenon
<1> QED
  BY <1>1, <1>2, PTL DEF S!Spec, IdsGrow, S!IdsGrow
-----------------------------------------------------------------------------
(* Friends.  FriendsByConsent is not inductive: that an answer takes one    *)
(* entry, and no more, out of a list of requests needs that no two requests *)
(* between the same accounts are pending, in either direction.              *)

Statuses == {"none", "pending", "accepted", "rejected", "deleted"}

(* The accounts a request is between.                                       *)
Between(r) == {requests[r].from, requests[r].to}

FriendTypes ==
  /\ profiled \subseteq People
  /\ DOMAIN requests = F!RequestIds
  /\ \A r \in F!RequestIds :
       /\ requests[r] = [from |-> requests[r].from, to |-> requests[r].to,
                          status |-> requests[r].status]
       /\ requests[r].status \in Statuses
       /\ requests[r].status # "none" =>
            /\ requests[r].from \in People /\ requests[r].to \in People
            /\ requests[r].from # requests[r].to
  /\ relation \in [F!Pairs -> {"none", "normal", "deleted"}]

OnePending ==
  \A i, j \in F!RequestIds : F!IsPending(i) /\ F!IsPending(j) /\ Between(i) = Between(j) => i = j

(* History and rows.                                                        *)
AskedIsPending ==
  \A x, y : <<x, y>> \in asked <=>
    \E r \in F!RequestIds : F!IsPending(r) /\ requests[r].from = x /\ requests[r].to = y

AgreedIsRelated ==
  /\ \A both \in agreed : \E p \in F!Pairs : both = {p[1], p[2]}
  /\ \A p \in F!Pairs : relation[p] = "normal" <=> {p[1], p[2]} \in agreed

FriendInv == FriendTypes /\ OnePending /\ AskedIsPending /\ AgreedIsRelated

(* The invariant holds at first.                                            *)
LEMMA FriendsInit == F!Init => FriendInv
<1> SUFFICES ASSUME F!Init PROVE FriendInv
    BY Zenon
<1> USE DEF F!Init, F!NoRow
<1>1. FriendTypes
  BY Zenon DEF FriendTypes, Statuses
<1>3. OnePending /\ AskedIsPending
  BY Zenon DEF OnePending, AskedIsPending, F!IsPending
<1>4. AgreedIsRelated
  BY Zenon DEF AgreedIsRelated
<1> QED
  BY <1>1, <1>3, <1>4, Zenon DEF FriendInv

(* The lists are what the two accounts want.                                *)
LEMMA FriendsConsent == FriendInv => F!FriendsByConsent
<1> SUFFICES ASSUME FriendInv, NEW a \in People
             PROVE  /\ F!ListFriendAccountIds(a) = {b \in People : {a, b} \in agreed}
                    /\ F!ListFriends(a) = {b \in profiled : {a, b} \in agreed}
                    /\ \A r \in F!ListIncomingRequests(a) : <<requests[r].from, a>> \in asked
                    /\ \A x \in profiled : <<x, a>> \in asked =>
                         \E r \in F!ListIncomingRequests(a) : requests[r].from = x
    BY Zenon DEF F!FriendsByConsent
<1>1. F!ListFriendAccountIds(a) = {b \in People : {a, b} \in agreed}
  <2>1. {a, a} \notin agreed
    BY SMTT(30) DEF FriendInv, AgreedIsRelated, F!Pairs
  <2>2. \A b \in People \ {a} : relation[<<a, b>>] = "normal" <=> {a, b} \in agreed
    <3> SUFFICES ASSUME NEW b \in People \ {a}
                 PROVE  relation[<<a, b>>] = "normal" <=> {a, b} \in agreed
        BY Zenon
    <3>1. <<a, b>> \in F!Pairs
      BY Zenon DEF F!Pairs
    <3> QED
      BY <3>1, Zenon DEF FriendInv, AgreedIsRelated
  <2> QED
    BY <2>1, <2>2, Zenon DEF F!ListFriendAccountIds
<1>2. F!ListFriends(a) = {b \in profiled : {a, b} \in agreed}
  BY <1>1, Zenon DEF F!ListFriends, FriendInv, FriendTypes
<1>3. \A r \in F!ListIncomingRequests(a) : <<requests[r].from, a>> \in asked
  BY DEF FriendInv, AskedIsPending, F!ListIncomingRequests, F!ListPendingIncoming
<1>4. \A x \in profiled : <<x, a>> \in asked =>
        \E r \in F!ListIncomingRequests(a) : requests[r].from = x
  BY SMTT(30) DEF FriendInv, AskedIsPending, F!ListIncomingRequests, F!ListPendingIncoming
<1> QED
  BY <1>1, <1>2, <1>3, <1>4, Zenon

(* A request is sent.                                                       *)
LEMMA SendStep ==
  ASSUME FriendInv, NEW a \in People, NEW b \in People, a # b,
         F!SendRequest(a, b)
  PROVE  FriendInv'
<1>1. PICK k \in F!RequestIds :
        /\ F!IsNextRequestId(k)
        /\ requests' = [requests EXCEPT ![k] = [from |-> a, to |-> b, status |-> "pending"]]
  BY Zenon DEF F!SendRequest, F!CreatePendingRequest
<1>2. requests[k].status = "none"
  BY <1>1, BackendAssumption, SMTT(30) DEF F!IsNextRequestId, F!RequestIds
<1>3. /\ requests' = [requests EXCEPT ![k] = [from |-> a, to |-> b, status |-> "pending"]]
      /\ ~F!PendingPair(a, b)
      /\ asked' = asked \union {<<a, b>>}
      /\ UNCHANGED <<profiled, relation, agreed>>
  BY <1>1, Zenon DEF F!SendRequest, F!CreatePendingRequest
<1>4. /\ DOMAIN requests' = F!RequestIds
      /\ requests'[k] = [from |-> a, to |-> b, status |-> "pending"]
      /\ \A r \in F!RequestIds \ {k} : requests'[r] = requests[r]
  BY <1>1, <1>3, Zenon DEF FriendInv, FriendTypes
<1>5. FriendTypes'
  BY <1>1, <1>3, <1>4, SMTT(30) DEF FriendInv, FriendTypes, Statuses, F!RequestIds, F!Pairs
<1>7. OnePending'
  <2>1. \A r \in F!RequestIds \ {k} : requests'[r].status = "pending" =>
          {requests'[r].from, requests'[r].to} # {a, b}
    BY <1>3, <1>4, Zenon DEF F!IsPending, F!PendingPair
  <2>2. {requests'[k].from, requests'[k].to} = {a, b}
    BY <1>4, SMTT(30)
  <2>3. \A i, j \in F!RequestIds :
          requests[i].status = "pending" /\ requests[j].status = "pending"
          /\ {requests[i].from, requests[i].to} = {requests[j].from, requests[j].to} => i = j
    BY Zenon DEF FriendInv, OnePending, F!IsPending, Between
  <2> SUFFICES ASSUME NEW i \in F!RequestIds, NEW j \in F!RequestIds,
                      requests'[i].status = "pending", requests'[j].status = "pending",
                      {requests'[i].from, requests'[i].to} = {requests'[j].from, requests'[j].to}
               PROVE  i = j
      BY Zenon DEF OnePending, F!IsPending, Between
  <2>4. CASE i # k /\ j # k
    BY <2>3, <2>4, <1>4, Zenon
  <2>5. CASE i = k \/ j = k
    BY <2>1, <2>2, <2>5, Zenon
  <2> QED
    BY <2>4, <2>5, Zenon
<1>8. AskedIsPending'
  <2> SUFFICES ASSUME NEW x, NEW y
               PROVE  <<x, y>> \in asked' <=>
                        \E r \in F!RequestIds : requests'[r].status = "pending"
                                              /\ requests'[r].from = x /\ requests'[r].to = y
      BY Zenon DEF AskedIsPending, F!IsPending
  <2>1. <<x, y>> \in asked' <=> <<x, y>> \in asked \/ (x = a /\ y = b)
    BY <1>3, Zenon
  <2>2. <<x, y>> \in asked <=>
          \E r \in F!RequestIds : requests[r].status = "pending"
                                /\ requests[r].from = x /\ requests[r].to = y
    BY SMTT(30) DEF FriendInv, AskedIsPending, F!IsPending
  <2> QED
    BY <2>1, <2>2, <1>2, <1>4, SMTT(30)
<1>9. AgreedIsRelated'
  BY <1>3, Zenon DEF FriendInv, AgreedIsRelated, F!Pairs
<1> QED
  BY <1>5, <1>7, <1>8, <1>9, Zenon DEF FriendInv

(* A request is answered or removed: its row changes its status only.       *)
LEMMA StatusStep ==
  ASSUME FriendInv, NEW r \in F!RequestIds, requests[r].status # "none",
         NEW s \in {"accepted", "rejected", "deleted"},
         requests' = [requests EXCEPT ![r].status = s],
         profiled' = profiled, relation' \in [F!Pairs -> {"none", "normal", "deleted"}]
  PROVE  /\ FriendTypes' /\ OnePending'
         /\ requests'[r].status = s
         /\ \A i \in F!RequestIds \ {r} : requests'[i] = requests[i]
<1>1. /\ DOMAIN requests' = F!RequestIds
      /\ requests'[r] = [from |-> requests[r].from, to |-> requests[r].to, status |-> s]
      /\ \A i \in F!RequestIds \ {r} : requests'[i] = requests[i]
  BY SMTT(30) DEF FriendInv, FriendTypes
<1>2. FriendTypes'
  BY <1>1, SMTT(30) DEF FriendInv, FriendTypes, Statuses, F!RequestIds, F!Pairs
<1>4. OnePending'
  <2>1. \A i, j \in F!RequestIds :
          requests[i].status = "pending" /\ requests[j].status = "pending"
          /\ {requests[i].from, requests[i].to} = {requests[j].from, requests[j].to} => i = j
    BY Zenon DEF FriendInv, OnePending, F!IsPending, Between
  <2>2. \A i \in F!RequestIds : requests'[i].status = "pending" =>
          i # r /\ requests'[i] = requests[i]
    BY <1>1
  <2> SUFFICES ASSUME NEW i \in F!RequestIds, NEW j \in F!RequestIds,
                      requests'[i].status = "pending", requests'[j].status = "pending",
                      {requests'[i].from, requests'[i].to} = {requests'[j].from, requests'[j].to}
               PROVE  i = j
      BY Zenon DEF OnePending, F!IsPending, Between
  <2>3. requests'[i] = requests[i] /\ requests'[j] = requests[j]
    BY <2>2, Zenon
  <2> QED
    BY <2>1, <2>3, Zenon
<1> QED
  BY <1>1, <1>2, <1>4, Zenon

(* An answer to a pending request takes its entry, and no other, out of the *)
(* list.                                                                    *)
LEMMA AnswerStep ==
  ASSUME FriendInv, NEW r \in F!RequestIds, requests[r].status = "pending",
         requests'[r].status # "pending",
         \A i \in F!RequestIds \ {r} : requests'[i] = requests[i],
         asked' = asked \ {<<requests[r].from, requests[r].to>>}
  PROVE  AskedIsPending'
<1> SUFFICES ASSUME NEW x, NEW y
             PROVE  <<x, y>> \in asked' <=>
                      \E i \in F!RequestIds : requests'[i].status = "pending"
                                           /\ requests'[i].from = x /\ requests'[i].to = y
    BY Zenon DEF AskedIsPending, F!IsPending
<1>1. <<x, y>> \in asked' <=>
        <<x, y>> \in asked /\ ~(x = requests[r].from /\ y = requests[r].to)
  BY Zenon
<1>2. <<x, y>> \in asked <=>
        \E i \in F!RequestIds : requests[i].status = "pending"
                             /\ requests[i].from = x /\ requests[i].to = y
  BY SMTT(30) DEF FriendInv, AskedIsPending, F!IsPending
<1>3. \A i \in F!RequestIds \ {r} : requests[i].status = "pending" =>
        ~(requests[i].from = requests[r].from /\ requests[i].to = requests[r].to)
  BY Zenon DEF FriendInv, OnePending, F!IsPending, Between
<1> QED
  BY <1>1, <1>2, <1>3, Zenon

(* The two rows of a friendship follow the agreement.                       *)
LEMMA RowsStep ==
  ASSUME FriendInv, NEW a \in People, NEW b \in People, a # b,
         NEW status \in {"normal", "deleted"},
         F!SetRelation(F!BothWays(a, b), status),
         agreed' = IF status = "normal" THEN agreed \union {{a, b}} ELSE agreed \ {{a, b}}
  PROVE  AgreedIsRelated' /\ relation' \in [F!Pairs -> {"none", "normal", "deleted"}]
<1>1. /\ relation' \in [F!Pairs -> {"none", "normal", "deleted"}]
      /\ \A p \in F!Pairs : relation'[p] = IF p \in F!BothWays(a, b) THEN status ELSE relation[p]
  BY Zenon DEF F!SetRelation, FriendInv, FriendTypes
<1>2. \A p \in F!Pairs : p \in F!BothWays(a, b) <=> {p[1], p[2]} = {a, b}
  BY SMTT(30) DEF F!BothWays, F!Pairs
<1>3. <<a, b>> \in F!Pairs /\ {<<a, b>>[1], <<a, b>>[2]} = {a, b}
  BY Zenon DEF F!Pairs
<1>4. \A both \in agreed' : \E p \in F!Pairs : both = {p[1], p[2]}
  BY <1>3, Zenon DEF FriendInv, AgreedIsRelated
<1>5. \A p \in F!Pairs : relation'[p] = "normal" <=> {p[1], p[2]} \in agreed'
  BY <1>1, <1>2, Zenon DEF FriendInv, AgreedIsRelated
<1> QED
  BY <1>1, <1>4, <1>5, Zenon DEF AgreedIsRelated, F!Pairs

(* Each step keeps the invariant.                                           *)
LEMMA FriendsNext ==
  ASSUME FriendInv, [F!Next]_F!friendVars
  PROVE  FriendInv'
<1>1. ASSUME NEW a \in People, NEW b \in People, a # b, F!SendRequest(a, b)
      PROVE  FriendInv'
  BY <1>1, SendStep, Zenon
<1>2. ASSUME NEW a \in People, NEW b \in People, a # b, F!RemoveFriend(a, b)
      PROVE  FriendInv'
  <2>1. AgreedIsRelated' /\ relation' \in [F!Pairs -> {"none", "normal", "deleted"}]
    BY <1>2, RowsStep, Zenon DEF F!RemoveFriend
  <2>2. UNCHANGED <<profiled, requests, asked>>
    BY <1>2, Zenon DEF F!RemoveFriend
  <2>3. FriendTypes'
    BY <2>1, <2>2, Zenon DEF FriendInv, FriendTypes
  <2>4. OnePending' /\ AskedIsPending'
    BY <2>2, SMTT(30) DEF FriendInv, OnePending, AskedIsPending, F!IsPending, Between
  <2> QED
    BY <2>1, <2>3, <2>4, Zenon DEF FriendInv
<1>3. ASSUME NEW a \in People, NEW r \in F!RequestIds, F!AcceptRequest(a, r)
      PROVE  FriendInv'
  <2> DEFINE x == requests[r].from
  <2>1. /\ requests[r].status = "pending" /\ requests[r].to = a
        /\ requests' = [requests EXCEPT ![r].status = "accepted"]
        /\ F!SetRelation(F!BothWays(x, a), "normal")
        /\ asked' = asked \ {<<x, a>>}
        /\ agreed' = IF <<x, a>> \in asked THEN agreed \union {{x, a}} ELSE agreed
        /\ profiled' = profiled
    BY <1>3, Zenon DEF F!AcceptRequest, F!MayHandle, F!IsPending, F!Consent
  <2>2. x \in People /\ x # a /\ <<x, a>> \in asked
    BY <2>1, Zenon DEF FriendInv, FriendTypes, AskedIsPending, F!IsPending
  <2>3. AgreedIsRelated' /\ relation' \in [F!Pairs -> {"none", "normal", "deleted"}]
    <3> HIDE DEF x
    <3> QED
      BY <2>1, <2>2, RowsStep, Zenon
  <2>4. /\ FriendTypes' /\ OnePending'
        /\ requests'[r].status = "accepted"
        /\ \A i \in F!RequestIds \ {r} : requests'[i] = requests[i]
    BY <2>1, <2>3, StatusStep, Zenon
  <2>5. AskedIsPending'
    BY <2>1, <2>4, AnswerStep, Zenon
  <2> QED
    BY <2>3, <2>4, <2>5, Zenon DEF FriendInv
<1>4. ASSUME NEW a \in People, NEW r \in F!RequestIds, F!RejectRequest(a, r)
      PROVE  FriendInv'
  <2>1. /\ requests[r].status = "pending" /\ requests[r].to = a
        /\ requests' = [requests EXCEPT ![r].status = "rejected"]
        /\ asked' = asked \ {<<requests[r].from, a>>}
        /\ UNCHANGED <<profiled, relation, agreed>>
    BY <1>4, Zenon DEF F!RejectRequest, F!MayHandle, F!IsPending
  <2>2. AgreedIsRelated' /\ relation' \in [F!Pairs -> {"none", "normal", "deleted"}]
    BY <2>1, Zenon DEF FriendInv, FriendTypes, AgreedIsRelated, F!Pairs
  <2>3. /\ FriendTypes' /\ OnePending'
        /\ requests'[r].status = "rejected"
        /\ \A i \in F!RequestIds \ {r} : requests'[i] = requests[i]
    BY <2>1, <2>2, StatusStep, Zenon
  <2>4. AskedIsPending'
    BY <2>1, <2>3, AnswerStep, Zenon
  <2> QED
    BY <2>2, <2>3, <2>4, Zenon DEF FriendInv
<1>5. ASSUME NEW r \in F!RequestIds, F!DeleteHandledBefore(r)
      PROVE  FriendInv'
  <2>1. /\ requests[r].status \in {"accepted", "rejected"}
        /\ requests' = [requests EXCEPT ![r].status = "deleted"]
        /\ UNCHANGED <<profiled, relation, asked, agreed>>
    BY <1>5, Zenon DEF F!DeleteHandledBefore, F!IsHandled
  <2>2. AgreedIsRelated' /\ relation' \in [F!Pairs -> {"none", "normal", "deleted"}]
    BY <2>1, Zenon DEF FriendInv, FriendTypes, AgreedIsRelated, F!Pairs
  <2>3. /\ FriendTypes' /\ OnePending'
        /\ requests'[r].status = "deleted"
        /\ \A i \in F!RequestIds \ {r} : requests'[i] = requests[i]
    BY <2>1, <2>2, StatusStep, Zenon
  <2>4. AskedIsPending'
    <3>1. \A i \in F!RequestIds :
            /\ requests'[i].status = "pending" <=> requests[i].status = "pending"
            /\ requests[i].status = "pending" => requests'[i] = requests[i]
      BY <2>1, <2>3, Zenon
    <3> SUFFICES ASSUME NEW x, NEW y
                 PROVE  <<x, y>> \in asked' <=>
                          \E i \in F!RequestIds : requests'[i].status = "pending"
                                               /\ requests'[i].from = x /\ requests'[i].to = y
        BY Zenon DEF AskedIsPending, F!IsPending
    <3>2. <<x, y>> \in asked <=>
            \E i \in F!RequestIds : requests[i].status = "pending"
                                 /\ requests[i].from = x /\ requests[i].to = y
      BY SMTT(30) DEF FriendInv, AskedIsPending, F!IsPending
    <3> QED
      BY <2>1, <3>1, <3>2, Zenon
  <2> QED
    BY <2>2, <2>3, <2>4, Zenon DEF FriendInv
<1>6. CASE UNCHANGED F!friendVars
  BY <1>6, SMTT(30) DEF F!friendVars, FriendInv, FriendTypes, OnePending, AskedIsPending,
              AgreedIsRelated, F!IsPending, Between
<1> QED
  BY <1>1, <1>2, <1>3, <1>4, <1>5, <1>6, Zenon DEF F!Next

(* Friendship follows consent: whatever requests are sent, answered and     *)
(* cleaned up, the lists of FriendService show as friends exactly those who *)
(* agreed, and a pending request exactly to the account it waits for.       *)
THEOREM FriendshipNeedsConsent == F!Spec => []FriendsByConsent
<1>1. F!Init => FriendInv
  BY FriendsInit, Zenon
<1>2. FriendInv /\ [F!Next]_F!friendVars => FriendInv'
  BY FriendsNext, Zenon
<1>3. FriendInv => FriendsByConsent
  BY FriendsConsent, Zenon DEF FriendsByConsent
<1> QED
  BY <1>1, <1>2, <1>3, PTL DEF F!Spec

-----------------------------------------------------------------------------
(* The rate limiter.  That whoever comes back when told to is let through   *)
(* needs that the counter ends no later than the block does.  The bound on  *)
(* what passes needs how the hits of two windows follow each other: a       *)
(* window begins after the hits of the one before, and holds no more hits   *)
(* than its counter says.                                                   *)

LimitTypes ==
  /\ now \in Nat /\ counter \in Nat /\ honest = TRUE
  /\ counterEnds \in Nat \cup {R!Gone}
  /\ blockEnds \in Nat \cup {R!Gone} /\ promise \in Nat \cup {R!Gone}
  /\ passed \in Seq(Nat)

(* What the client was told is when the block ends, and no counter outlives *)
(* a block that still holds.                                                *)
PromiseIsKept ==
  /\ promise # R!Gone /\ blockEnds # R!Gone => promise = blockEnds
  /\ promise # R!Gone => counterEnds <= promise
  /\ blockEnds # R!Gone /\ now < blockEnds => counterEnds <= blockEnds

(* The last k hits that passed fell into the window that ends at            *)
(* counterEnds, the ones before them did not, and all but MaxRequests of    *)
(* those lie a whole window before it.                                      *)
WindowHolds(k) ==
  /\ k <= counter /\ k <= MaxRequests
  /\ \A i \in 1..(Len(passed) - k) :
       /\ passed[i] < counterEnds - WindowMs
       /\ i + MaxRequests <= Len(passed) - k => passed[i] + WindowMs < counterEnds - WindowMs

Windows ==
  /\ counterEnds = R!Gone => passed = <<>>
  /\ counterEnds # R!Gone =>
       /\ counter >= 1 /\ WindowMs <= counterEnds /\ counterEnds <= now + WindowMs
       /\ \E k \in 0..Len(passed) : WindowHolds(k)
  /\ \A i \in 1..Len(passed) : passed[i] <= counterEnds

Spaced ==
  \A i \in 1..Len(passed) : i + 2 * MaxRequests \in 1..Len(passed)
    => passed[i + 2 * MaxRequests] - passed[i] >= WindowMs

LimitInv == LimitTypes /\ PromiseIsKept /\ Windows /\ Spaced

(* What is kept of the hits after one more: the oldest may be dropped.      *)
LEMMA KeepOneMore ==
  ASSUME NEW s \in Seq(Nat), NEW n \in Nat
  PROVE  \E d \in {0, 1} :
           /\ R!Keep(Append(s, n)) \in Seq(Nat)
           /\ Len(R!Keep(Append(s, n))) = Len(s) + 1 - d
           /\ d = 1 => Len(s) > 2 * MaxRequests
           /\ R!Keep(Append(s, n))[Len(s) + 1 - d] = n
           /\ \A i \in 1..(Len(s) - d) : R!Keep(Append(s, n))[i] = s[i + d]
<1> DEFINE q == Append(s, n)
<1>1. /\ q \in Seq(Nat) /\ Len(q) = Len(s) + 1 /\ Len(s) \in Nat
      /\ q[Len(s) + 1] = n /\ \A i \in 1..Len(s) : q[i] = s[i]
  BY SMTT(30)
<1> HIDE DEF q
<1>2. 2 * MaxRequests \in Nat
  BY BackendAssumption, SMTT(30)
<1>3. CASE Len(q) > 2 * MaxRequests + 1
  <2>1. R!Keep(q) = Tail(q)
    BY <1>3, Zenon DEF R!Keep
  <2>2. /\ Tail(q) \in Seq(Nat) /\ Len(Tail(q)) = Len(s)
        /\ \A i \in 1..Len(s) : Tail(q)[i] = q[i + 1]
    BY <1>1, SMTT(30)
  <2>3. Len(s) > 2 * MaxRequests /\ Len(s) \in 1..Len(s)
    BY <1>1, <1>2, <1>3, SMTT(30)
  <2>4. Tail(q)[Len(s)] = n
    BY <1>1, <2>2, <2>3, Zenon
  <2>5. \A i \in 1..(Len(s) - 1) : Tail(q)[i] = s[i + 1]
    BY <1>1, <2>2, SMTT(30)
  <2>6. Len(s) + 1 - 1 = Len(s)
    BY <1>1, SMTT(30)
  <2> QED
    BY <2>1, <2>2, <2>3, <2>4, <2>5, <2>6, Zenon DEF q
<1>4. CASE ~(Len(q) > 2 * MaxRequests + 1)
  <2>1. R!Keep(q) = q
    BY <1>4, Zenon DEF R!Keep
  <2> QED
    BY <1>1, <2>1, SMTT(30) DEF q
<1> QED
  BY <1>3, <1>4, Zenon

(* Nothing has passed at first.                                             *)
LEMMA LimitsInit == R!Init => LimitInv
<1> SUFFICES ASSUME R!Init PROVE LimitInv
    BY Zenon
<1>1. /\ now = 0 /\ counter = 0 /\ counterEnds = -1 /\ blockEnds = -1
      /\ promise = -1 /\ honest = TRUE /\ passed = <<>> /\ Len(passed) = 0
  BY Zenon DEF R!Init, R!Gone
<1>2. LimitTypes
  BY <1>1, SMTT(30) DEF LimitTypes, R!Gone
<1>3. PromiseIsKept
  BY <1>1, Zenon DEF PromiseIsKept, R!Gone
<1>4. Windows /\ Spaced
  BY <1>1, SMTT(30) DEF Windows, Spaced, R!Gone
<1> QED
  BY <1>2, <1>3, <1>4, Zenon DEF LimitInv

(* A refused client was told a time that has not come yet.                  *)
LEMMA RefusalsAreHonest ==
  ASSUME LimitInv, promise # R!Gone, R!HitBlocked \/ R!HitTooMany
  PROVE  now <= promise
<1>1. /\ now \in Nat /\ counterEnds \in Int /\ blockEnds \in Int /\ promise \in Nat
      /\ counterEnds <= promise
      /\ blockEnds # -1 => promise = blockEnds
  BY SMTT(30) DEF LimitInv, LimitTypes, PromiseIsKept, R!Gone
<1>2. CASE R!HitBlocked
  BY <1>1, <1>2, SMTT(30) DEF R!HitBlocked, R!Pttl, R!Exists, R!Gone
<1>3. CASE R!HitTooMany
  BY <1>1, <1>3, BackendAssumption, SMTT(30) DEF R!HitTooMany, R!Count, R!Exists, R!Gone
<1> QED
  BY <1>2, <1>3, Zenon

(* A refusal by the block.                                                  *)
LEMMA HitBlockedStep ==
  ASSUME LimitInv, R!HitBlocked PROVE LimitInv'
<1>1. /\ promise' = now + R!Pttl(blockEnds)
      /\ honest' = (honest /\ (promise # R!Gone => now <= promise))
      /\ now' = now /\ counter' = counter /\ counterEnds' = counterEnds
      /\ blockEnds' = blockEnds /\ passed' = passed
      /\ R!Pttl(blockEnds) > 0
  BY Zenon DEF R!HitBlocked
<1>2. now \in Nat /\ blockEnds \in Int /\ counterEnds \in Int
  BY SMTT(30) DEF LimitInv, LimitTypes, R!Gone
<1>3. promise' = blockEnds /\ now < blockEnds /\ blockEnds # -1
  BY <1>1, <1>2, SMTT(30) DEF R!Pttl, R!Exists, R!Gone
<1>4. LimitTypes'
  BY <1>1, <1>2, <1>3, RefusalsAreHonest, Zenon DEF LimitInv, LimitTypes, R!Gone
<1>5. PromiseIsKept'
  BY <1>1, <1>2, <1>3, Zenon DEF LimitInv, PromiseIsKept, R!Gone
<1>6. Windows' /\ Spaced'
  BY <1>1, Zenon DEF LimitInv, Windows, WindowHolds, Spaced, R!Gone
<1> QED
  BY <1>4, <1>5, <1>6, Zenon DEF LimitInv

(* One hit too many: the counter is that of a window not over yet.          *)
LEMMA HitTooManyStep ==
  ASSUME LimitInv, R!HitTooMany PROVE LimitInv'
<1>1. /\ counter' = R!Count /\ blockEnds' = now + BlockMs /\ promise' = now + BlockMs
      /\ honest' = (honest /\ (promise # R!Gone => now <= promise))
      /\ now' = now /\ counterEnds' = counterEnds /\ passed' = passed
      /\ R!Count > MaxRequests
  BY Zenon DEF R!HitTooMany
<1>2. now \in Nat /\ counter \in Nat /\ counterEnds \in Int /\ passed \in Seq(Nat)
  BY SMTT(30) DEF LimitInv, LimitTypes, R!Gone
<1>3. counterEnds # -1 /\ counter' = counter + 1
  BY <1>1, <1>2, BackendAssumption, SMTT(30) DEF R!Count, R!Exists, R!Gone
<1>4. counterEnds <= now + WindowMs
  BY <1>3, Zenon DEF LimitInv, Windows, R!Gone
<1>5. LimitTypes'
  <2>1. honest' = TRUE
    BY <1>1, RefusalsAreHonest, Zenon DEF LimitInv, LimitTypes
  <2>2. now + BlockMs \in Nat /\ counter + 1 \in Nat
    BY <1>2, BackendAssumption, SMTT(30)
  <2> QED
    BY <1>1, <1>2, <1>3, <2>1, <2>2, Zenon DEF LimitInv, LimitTypes
<1>6. PromiseIsKept'
  BY <1>1, <1>2, <1>4, BackendAssumption, SMTT(30) DEF PromiseIsKept, R!Gone
<1>7. Windows'
  <2>1. PICK k \in 0..Len(passed) : WindowHolds(k)
    BY <1>3, Zenon DEF LimitInv, Windows, R!Gone
  <2>2. WindowHolds(k)'
    BY <1>1, <1>2, <1>3, <2>1, SMTT(30) DEF WindowHolds
  <2> QED
    BY <1>1, <1>2, <1>3, <2>2, SMTT(30) DEF LimitInv, Windows, R!Gone
<1>8. Spaced'
  BY <1>1, Zenon DEF LimitInv, Spaced
<1> QED
  BY <1>5, <1>6, <1>7, <1>8, Zenon DEF LimitInv

(* A hit is let through: it joins the window, or begins one.                *)
LEMMA HitCountedStep ==
  ASSUME LimitInv, R!HitCounted PROVE LimitInv'
<1> DEFINE M == MaxRequests
           W == WindowMs
           n == Len(passed)
<1>1. /\ counter' = R!Count
      /\ counterEnds' = IF R!Count = 1 THEN now + W ELSE counterEnds
      /\ promise' = R!Gone
      /\ passed' = R!Keep(Append(passed, now))
      /\ now' = now /\ blockEnds' = blockEnds /\ honest' = honest
      /\ R!Pttl(blockEnds) <= 0 /\ R!Count <= M
  BY Zenon DEF R!HitCounted
<1>2. /\ now \in Nat /\ counter \in Nat /\ counterEnds \in Int /\ blockEnds \in Int
      /\ counterEnds # -1 => counterEnds \in Nat
      /\ passed \in Seq(Nat) /\ n \in Nat /\ honest = TRUE
      /\ M \in Nat /\ M >= 1 /\ W \in Nat /\ W >= 1
      /\ \A i \in 1..n : passed[i] \in Nat
  BY BackendAssumption, SMTT(30) DEF LimitInv, LimitTypes, R!Gone
<1>3. PICK d \in {0, 1} :
        /\ passed' \in Seq(Nat) /\ Len(passed') = n + 1 - d
        /\ d = 1 => n > 2 * M
        /\ passed'[n + 1 - d] = now
        /\ \A i \in 1..(n - d) : passed'[i] = passed[i + d]
  BY <1>1, <1>2, KeepOneMore, Zenon
<1>4. PICK k \in 0..n :
        /\ k <= M
        /\ \A i \in 1..(n - k) :
             /\ passed[i] < counterEnds - W
             /\ i + M <= n - k => passed[i] + W < counterEnds - W
        /\ counterEnds # -1 => k <= counter
  <2>1. CASE counterEnds = -1
    <3>1. passed = <<>> /\ n = 0
      BY <2>1, Zenon DEF LimitInv, Windows, R!Gone
    <3>2. 0 \in 0..n /\ 0 <= M /\ 1..(n - 0) = {}
      BY <1>2, <3>1, SMTT(30)
    <3> QED
      BY <2>1, <3>2, Zenon
  <2>2. CASE counterEnds # -1
    BY <2>2, Zenon DEF LimitInv, Windows, WindowHolds, R!Gone
  <2> QED
    BY <2>1, <2>2, Zenon
<1>5. /\ counterEnds = -1 => n = 0
      /\ counterEnds # -1 => counter >= 1 /\ W <= counterEnds /\ counterEnds <= now + W
      /\ \A i \in 1..n : passed[i] <= counterEnds
  BY Zenon DEF LimitInv, Windows, R!Gone
<1>6. blockEnds # -1 => now >= blockEnds
  BY <1>1, <1>2, SMTT(30) DEF R!Pttl, R!Exists, R!Gone
<1> HIDE DEF M, W, n
(* The window goes on, or the hit is the first of one.                      *)
<1>7. \/ /\ counterEnds # -1 /\ now <= counterEnds
         /\ counter' = counter + 1 /\ counterEnds' = counterEnds /\ counter + 1 <= M
      \/ /\ now > counterEnds /\ counter' = 1 /\ counterEnds' = now + W
  BY <1>1, <1>2, <1>5, SMTT(30) DEF R!Count, R!Exists, R!Gone
<1>8. counterEnds' \in Nat
  BY <1>2, <1>7, SMTT(30)
<1>9. LimitTypes'
  BY <1>1, <1>2, <1>3, <1>7, <1>8, SMTT(30) DEF LimitInv, LimitTypes, R!Gone
<1>10. PromiseIsKept'
  BY <1>1, <1>2, <1>6, SMTT(30) DEF PromiseIsKept, R!Gone
(* The hits of the new state: hit i is hit i + d of old, the last is now.   *)
<1>11. \A i \in 1..(n + 1 - d) : i < n + 1 - d => i + d \in 1..n /\ passed'[i] = passed[i + d]
  BY <1>2, <1>3, SMTT(30)
<1>12. Windows'
  <2>1. \A i \in 1..(n + 1 - d) : passed'[i] <= counterEnds'
    <3> SUFFICES ASSUME NEW i \in 1..(n + 1 - d) PROVE passed'[i] <= counterEnds'
        BY Zenon
    <3>1. CASE i = n + 1 - d
      BY <1>2, <1>3, <1>7, <3>1, SMTT(30)
    <3>2. CASE i < n + 1 - d
      BY <1>2, <1>5, <1>7, <1>11, <3>2, SMTT(30)
    <3> QED
      BY <1>2, <3>1, <3>2, SMTT(30)
  <2>2. W <= counterEnds' /\ counterEnds' <= now + W /\ counter' >= 1
    BY <1>2, <1>5, <1>7, SMTT(30)
  <2> DEFINE l == Len(passed')
  <2>0. l = n + 1 - d
    BY <1>3, Zenon
  <2> HIDE DEF l
  <2>3. \E j \in 0..l :
          /\ j <= counter' /\ j <= M
          /\ \A i \in 1..(l - j) :
               /\ passed'[i] < counterEnds' - W
               /\ i + M <= l - j => passed'[i] + W < counterEnds' - W
    <3>1. CASE counterEnds # -1 /\ now <= counterEnds
               /\ counter' = counter + 1 /\ counterEnds' = counterEnds /\ counter + 1 <= M
      <4>1. k + 1 \in 0..l /\ k + 1 <= counter' /\ k + 1 <= M
        BY <1>2, <2>0, <1>3, <1>4, <3>1, SMTT(30)
      <4>2. \A i \in 1..(l - (k + 1)) :
               /\ i < l /\ i \in 1..l
               /\ i + d \in 1..(n - k)
               /\ i + M <= l - (k + 1) => i + d + M <= n - k
        BY <1>2, <2>0, <1>4, SMTT(30)
      <4>3. \A i \in 1..(l - (k + 1)) :
               /\ passed'[i] < counterEnds' - W
               /\ i + M <= l - (k + 1) => passed'[i] + W < counterEnds' - W
        BY <1>4, <2>0, <1>11, <3>1, <4>2, Zenon
      <4> QED
        BY <4>1, <4>3, Zenon
    <3>2. CASE now > counterEnds /\ counter' = 1 /\ counterEnds' = now + W
      <4>1. 1 \in 0..l /\ 1 <= counter' /\ 1 <= M
        BY <1>2, <2>0, <1>3, <3>2, SMTT(30)
      <4>2. \A i \in 1..(l - 1) :
               /\ i < l /\ i \in 1..l /\ i + d \in 1..n
               /\ i + M <= l - 1 => i + d \in 1..(n - k)
        BY <1>2, <2>0, <1>4, SMTT(30)
      <4>3. ASSUME NEW i \in 1..(l - 1)
            PROVE  /\ passed'[i] < counterEnds' - W
                   /\ i + M <= l - 1 => passed'[i] + W < counterEnds' - W
        <5>1. passed'[i] = passed[i + d] /\ passed[i + d] \in Nat
          BY <1>2, <2>0, <1>11, <4>2, Zenon
        <5>2. passed[i + d] <= counterEnds
          BY <1>5, <4>2, Zenon
        <5>3. i + M <= l - 1 => passed[i + d] < counterEnds - W
          BY <1>4, <4>2, Zenon
        <5> QED
          BY <1>2, <2>0, <3>2, <5>1, <5>2, <5>3, SMTT(30)
      <4> QED
        BY <4>1, <4>3, Zenon
    <3> QED
      BY <1>7, <3>1, <3>2, Zenon
  <2>4. \E j \in 0..Len(passed') : WindowHolds(j)'
    <3>1. PICK j \in 0..l :
            /\ j <= counter' /\ j <= M
            /\ \A i \in 1..(l - j) :
                 /\ passed'[i] < counterEnds' - W
                 /\ i + M <= l - j => passed'[i] + W < counterEnds' - W
      BY <2>3, Zenon
    <3>2. WindowHolds(j)'
      BY <3>1, Zenon DEF WindowHolds, M, W, l
    <3> QED
      BY <3>2, Zenon DEF l
  <2>5. counterEnds' # -1 /\ \A i \in 1..Len(passed') : passed'[i] <= counterEnds'
    BY <1>3, <1>8, <2>1, SMTT(30)
  <2>6. counter' >= 1 /\ WindowMs <= counterEnds' /\ counterEnds' <= now' + WindowMs
    BY <1>1, <2>2, Zenon DEF W
  <2> QED
    BY <2>4, <2>5, <2>6, Zenon DEF Windows, R!Gone
<1>13. Spaced'
  <2> SUFFICES ASSUME NEW i \in 1..(n + 1 - d), i + 2 * M \in 1..(n + 1 - d)
               PROVE  passed'[i + 2 * M] - passed'[i] >= W
      BY <1>1, <1>3, Zenon DEF Spaced, M, W
  <2>1. i < n + 1 - d /\ i + d \in 1..n /\ passed'[i] = passed[i + d] /\ passed[i + d] \in Nat
    BY <1>2, <1>11, SMTT(30)
  <2>2. CASE i + 2 * M < n + 1 - d
    <3>1. i + 2 * M + d \in 1..n /\ passed'[i + 2 * M] = passed[i + 2 * M + d]
      BY <1>11, <2>2, Zenon
    <3>2. \A j \in 1..n : j + 2 * M \in 1..n => passed[j + 2 * M] - passed[j] >= W
      BY Zenon DEF LimitInv, Spaced, M, W, n
    <3>3. i + 2 * M + d = (i + d) + 2 * M
      BY <1>2, SMTT(30)
    <3> QED
      BY <2>1, <3>1, <3>2, <3>3, Zenon
  <2>3. CASE i + 2 * M = n + 1 - d
    <3>1. passed'[i + 2 * M] = now
      BY <1>3, <2>3, Zenon
    <3>2. i + d \in 1..(n - k)
      BY <1>2, <1>4, <2>3, SMTT(30)
    <3>3. counterEnds # -1
      BY <1>5, <2>1, <1>2, SMTT(30)
    <3>4. passed[i + d] + W <= now
      <4>1. CASE now > counterEnds
        BY <1>2, <1>4, <2>1, <3>2, <4>1, SMTT(30)
      <4>2. CASE counter + 1 <= M
        <5>1. i + d + M <= n - k
          BY <1>2, <1>4, <2>3, <3>3, <4>2, SMTT(30)
        <5>2. passed[i + d] + W < counterEnds - W
          BY <1>4, <3>2, <5>1, Zenon
        <5> QED
          BY <1>2, <1>5, <2>1, <3>3, <5>2, SMTT(30)
      <4> QED
        BY <1>7, <4>1, <4>2, Zenon
    <3> QED
      BY <1>2, <2>1, <3>1, <3>4, SMTT(30)
  <2> QED
    BY <1>2, <2>2, <2>3, SMTT(30)
<1> QED
  BY <1>9, <1>10, <1>12, <1>13, Zenon DEF LimitInv

(* The two commands of reset(), and time.                                   *)
LEMMA OtherLimitSteps ==
  ASSUME LimitInv, R!ResetCounter \/ R!ResetBlock \/ R!Tick \/ UNCHANGED R!vars
  PROVE  LimitInv'
<1>1. /\ now \in Nat /\ counterEnds \in Int /\ blockEnds \in Int /\ promise \in Int
      /\ counterEnds >= -1 /\ promise # -1 => promise \in Nat
  BY SMTT(30) DEF LimitInv, LimitTypes, R!Gone
<1>2. CASE R!ResetCounter
  <2>1. /\ counterEnds' = -1 /\ passed' = <<>> /\ Len(passed') = 0
        /\ now' = now /\ counter' = counter /\ blockEnds' = blockEnds
        /\ promise' = promise /\ honest' = honest
    BY <1>2, Zenon DEF R!ResetCounter, R!Gone
  <2>2. LimitTypes'
    BY <2>1, SMTT(30) DEF LimitInv, LimitTypes, R!Gone
  <2>3. PromiseIsKept'
    BY <1>1, <2>1, SMTT(30) DEF LimitInv, LimitTypes, PromiseIsKept, R!Gone
  <2>4. Windows' /\ Spaced'
    BY <2>1, SMTT(30) DEF Windows, Spaced, R!Gone
  <2> QED
    BY <2>2, <2>3, <2>4, Zenon DEF LimitInv
<1>3. CASE R!ResetBlock
  <2>1. /\ blockEnds' = -1 /\ passed' = <<>> /\ Len(passed') = 0
        /\ now' = now /\ counter' = counter /\ counterEnds' = counterEnds
        /\ promise' = promise /\ honest' = honest
    BY <1>3, Zenon DEF R!ResetBlock, R!Gone
  <2>2. LimitTypes'
    BY <2>1, SMTT(30) DEF LimitInv, LimitTypes, R!Gone
  <2>3. PromiseIsKept'
    BY <1>1, <2>1, Zenon DEF LimitInv, PromiseIsKept, R!Gone
  <2>4. Spaced'
    BY <2>1, SMTT(30) DEF Spaced
  <2>5. counterEnds # -1 => WindowHolds(0)'
    BY <2>1, BackendAssumption, SMTT(30) DEF LimitInv, LimitTypes, WindowHolds
  <2>6. Windows'
    BY <1>1, <2>1, <2>5, SMTT(30) DEF LimitInv, Windows, R!Gone
  <2> QED
    BY <2>2, <2>3, <2>4, <2>6, Zenon DEF LimitInv
<1>4. CASE R!Tick
  <2>1. /\ now' = now + 1 /\ counter' = counter /\ counterEnds' = counterEnds
        /\ blockEnds' = blockEnds /\ promise' = promise /\ honest' = honest /\ passed' = passed
    BY <1>4, Zenon DEF R!Tick
  <2>2. LimitTypes' /\ PromiseIsKept'
    BY <1>1, <2>1, SMTT(30) DEF LimitInv, LimitTypes, PromiseIsKept, R!Gone
  <2>3. \A j : WindowHolds(j)' <=> WindowHolds(j)
    BY <2>1, Zenon DEF WindowHolds
  <2>4. Windows' /\ Spaced'
    BY <1>1, <2>1, <2>3, BackendAssumption, SMTT(30) DEF LimitInv, Windows, Spaced, R!Gone
  <2> QED
    BY <2>2, <2>4, Zenon DEF LimitInv
<1>5. CASE UNCHANGED R!vars
  BY <1>5, Zenon DEF R!vars, LimitInv, LimitTypes, PromiseIsKept, Windows, WindowHolds, Spaced
<1> QED
  BY <1>2, <1>3, <1>4, <1>5, Zenon

(* Limits are kept, for every rule whose block is not shorter than its      *)
(* window: whoever comes back when RateLimiter told them to is let through, *)
(* and no stretch as long as the window lets through more than twice the    *)
(* limit.                                                                   *)
THEOREM LimitsHold == R!Spec => []LimitsAreKept
<1>1. R!Init => LimitInv
  BY LimitsInit, Zenon
<1>2. LimitInv /\ [R!Next]_R!vars => LimitInv'
  BY HitBlockedStep, HitTooManyStep, HitCountedStep, OtherLimitSteps, Zenon DEF R!Next, R!Hit
<1>3. LimitInv => LimitsAreKept
  <2> SUFFICES ASSUME LimitInv PROVE R!LimitsAreKept
      BY Zenon DEF LimitsAreKept
  <2>1. DOMAIN passed = 1..Len(passed)
    BY SMTT(30) DEF LimitInv, LimitTypes
  <2> QED
    BY <2>1, Zenon DEF LimitInv, LimitTypes, Spaced, R!LimitsAreKept
<1> QED
  BY <1>1, <1>2, <1>3, PTL DEF R!Spec

-----------------------------------------------------------------------------
(* Tokens.  The property is not inductive: that an answered logout stays    *)
(* answered needs what a logout under way has read of the row (it may have  *)
(* been revoked or deleted since, but never comes back), that a row is      *)
(* revoked by a logout only, and that a token is issued once.               *)

SessionRow == [account : Ids \cup {NoAccount}, expireAt : Nat, revoked : BOOLEAN, revokedAt : Nat]

AccountTypes ==
  /\ day \in Nat \ {0}
  /\ rows \in [Tokens -> SessionRow]
  /\ issued \in [Tokens -> [to : Ids \cup {NoAccount}, until : Nat]]
  /\ tried \subseteq Tokens /\ ended \subseteq tried

(* A token that works no more: its row is deleted or revoked.               *)
Dead(t) == rows[t] = A!Gone \/ rows[t].revoked

RowsFollowLogins ==
  \A t \in Tokens :
    /\ rows[t] # A!Gone => /\ rows[t].account = issued[t].to
                           /\ rows[t].expireAt = issued[t].until
                           /\ issued[t] # A!NotIssued
    /\ rows[t].revoked => t \in tried
    /\ t \in tried => issued[t] # A!NotIssued
    /\ t \notin tried /\ issued[t].until > day => ~Dead(t)
    /\ t \in ended => Dead(t)

LogoutUnderWay ==
  base.op = "logout" => base.token \in tried /\ (base.row.revoked => Dead(base.token))

AccountInv == AccountTypes /\ RowsFollowLogins /\ LogoutUnderWay

(* No token is issued at first.                                             *)
LEMMA AccountsInit == A!Init => AccountInv
<1> SUFFICES ASSUME A!Init PROVE AccountInv
    BY Zenon
<1>1. /\ rows = [t \in Tokens |-> A!Gone] /\ issued = [t \in Tokens |-> A!NotIssued]
      /\ tried = {} /\ ended = {} /\ day = 1 /\ base.op = "idle"
  BY Zenon DEF A!Init, A!Idle
<1>2. A!Gone \in SessionRow /\ A!Gone.revoked = FALSE
      /\ A!NotIssued \in [to : Ids \cup {NoAccount}, until : Nat] /\ A!NotIssued.until = 0
  BY Zenon DEF A!Gone, A!NotIssued, SessionRow
<1>3. AccountTypes
  BY <1>1, <1>2, SMTT(30) DEF AccountTypes
<1>4. RowsFollowLogins
  BY <1>1, <1>2, SMTT(30) DEF RowsFollowLogins
<1>5. LogoutUnderWay
  BY <1>1, Zenon DEF LogoutUnderWay
<1> QED
  BY <1>3, <1>4, <1>5, Zenon DEF AccountInv

(* What the update of revokeSession leaves of the rows.                     *)
LEMMA RevokeEffect ==
  ASSUME AccountTypes, NEW t \in Tokens, A!RevokeSession(t, day)
  PROVE  /\ rows' \in [Tokens -> SessionRow]
         /\ \A u \in Tokens \ {t} : rows'[u] = rows[u]
         /\ Dead(t)'
         /\ rows'[t].revoked => rows[t] # A!Gone
         /\ rows'[t] # A!Gone =>
              /\ rows[t] # A!Gone
              /\ rows'[t].account = rows[t].account
              /\ rows'[t].expireAt = rows[t].expireAt
<1>1. rows \in [Tokens -> SessionRow] /\ day \in Nat
  BY Zenon DEF AccountTypes
<1>2. A!Gone.revoked = FALSE
  BY Zenon DEF A!Gone
<1>3. CASE rows[t] # A!Gone /\ ~rows[t].revoked
  <2>1. rows' = [rows EXCEPT ![t] = [rows[t] EXCEPT !.revoked = TRUE, !.revokedAt = day]]
    BY <1>1, <1>3, Zenon DEF A!RevokeSession
  <2> DEFINE r == [rows[t] EXCEPT !.revoked = TRUE, !.revokedAt = day]
  <2>2. /\ r \in SessionRow /\ r.revoked = TRUE
        /\ r.account = rows[t].account /\ r.expireAt = rows[t].expireAt
    BY <1>1, Zenon DEF SessionRow
  <2> HIDE DEF r
  <2>3. rows' = [rows EXCEPT ![t] = r]
    BY <2>1, Zenon DEF r
  <2>4. rows' \in [Tokens -> SessionRow] /\ rows'[t] = r /\ \A u \in Tokens \ {t} : rows'[u] = rows[u]
    BY <1>1, <2>2, <2>3, Zenon
  <2> QED
    BY <1>3, <2>2, <2>4, Zenon DEF Dead
<1>4. CASE ~(rows[t] # A!Gone /\ ~rows[t].revoked)
  <2>1. rows' = rows
    BY <1>4, Zenon DEF A!RevokeSession
  <2> QED
    BY <1>1, <1>2, <1>4, <2>1, Zenon DEF Dead
<1> QED
  BY <1>3, <1>4, Zenon

(* A step that issues nothing, ends nothing and lets rows only die, for     *)
(* tokens that a logout was tried for or that have expired, keeps the rows  *)
(* in line with the logins.                                                 *)
LEMMA DyingStep ==
  ASSUME AccountInv,
         rows' \in [Tokens -> SessionRow], issued' = issued,
         day' \in Nat \ {0}, day' >= day,
         tried' \subseteq Tokens, tried \subseteq tried', ended' = ended,
         \A t \in tried' : rows[t] # A!Gone \/ t \in tried,
         \A t \in Tokens :
           /\ rows'[t] # A!Gone => /\ rows[t] # A!Gone
                                   /\ rows'[t].account = rows[t].account
                                   /\ rows'[t].expireAt = rows[t].expireAt
           /\ Dead(t) => Dead(t)'
           /\ Dead(t)' => Dead(t) \/ t \in tried' \/ issued[t].until <= day'
           /\ rows'[t].revoked => t \in tried'
  PROVE  AccountTypes' /\ RowsFollowLogins'
<1>1. AccountTypes'
  BY Zenon DEF AccountInv, AccountTypes
<1>2. ASSUME NEW t \in Tokens
      PROVE  /\ rows'[t] # A!Gone => /\ rows'[t].account = issued'[t].to
                                     /\ rows'[t].expireAt = issued'[t].until
                                     /\ issued'[t] # A!NotIssued
             /\ rows'[t].revoked => t \in tried'
             /\ t \in tried' => issued'[t] # A!NotIssued
             /\ t \notin tried' /\ issued'[t].until > day' => ~Dead(t)'
             /\ t \in ended' => Dead(t)'
  <2>1. /\ rows[t] # A!Gone => /\ rows[t].account = issued[t].to
                               /\ rows[t].expireAt = issued[t].until
                               /\ issued[t] # A!NotIssued
        /\ t \in tried => issued[t] # A!NotIssued
        /\ t \notin tried /\ issued[t].until > day => ~Dead(t)
        /\ t \in ended => Dead(t)
    BY Zenon DEF AccountInv, RowsFollowLogins
  <2>2. issued[t].until \in Nat /\ day \in Nat
    BY Zenon DEF AccountInv, AccountTypes
  <2>3. t \notin tried' /\ issued[t].until > day' => ~Dead(t)'
    BY <2>1, <2>2, SMTT(30)
  <2> QED
    BY <2>1, <2>3, Zenon
<1>3. RowsFollowLogins'
  BY <1>2, Zenon DEF RowsFollowLogins, A!Gone, A!NotIssued
<1> QED
  BY <1>1, <1>3, Zenon

(* A login issues a token that was not issued before.                       *)
LEMMA LoginStep ==
  ASSUME AccountInv, NEW c \in Clients, NEW a \in Ids, NEW t \in Tokens, A!Login(c, a, t)
  PROVE  AccountInv'
<1> DEFINE r == [account |-> a, expireAt |-> day + TokenLife, revoked |-> FALSE, revokedAt |-> 0]
           i == [to |-> a, until |-> day + TokenLife]
<1>1. /\ rows' = [rows EXCEPT ![t] = r] /\ issued' = [issued EXCEPT ![t] = i]
      /\ issued[t] = A!NotIssued
      /\ day' = day /\ tried' = tried /\ ended' = ended /\ base' = base /\ base = A!Idle
  BY Zenon DEF A!Login, A!CreateSession, A!Free
<1>2. /\ rows \in [Tokens -> SessionRow] /\ day \in Nat \ {0} /\ ended \subseteq tried
      /\ issued \in [Tokens -> [to : Ids \cup {NoAccount}, until : Nat]]
  BY Zenon DEF AccountInv, AccountTypes
<1>3. /\ r \in SessionRow /\ r # A!Gone /\ ~r.revoked /\ r.account = i.to /\ r.expireAt = i.until
      /\ i \in [to : Ids \cup {NoAccount}, until : Nat] /\ i # A!NotIssued
  BY <1>2, BackendAssumption, SMTT(30) DEF SessionRow, A!Gone, A!NotIssued
<1> HIDE DEF r, i
<1>4. /\ rows'[t] = r /\ issued'[t] = i
      /\ \A u \in Tokens \ {t} : rows'[u] = rows[u] /\ issued'[u] = issued[u]
  BY <1>1, <1>2, Zenon
<1>5. AccountTypes'
  BY <1>1, <1>3, Zenon DEF AccountInv, AccountTypes
<1>6. t \notin tried
  BY <1>1, Zenon DEF AccountInv, RowsFollowLogins
<1>7. RowsFollowLogins'
  <2> SUFFICES ASSUME NEW u \in Tokens
               PROVE  /\ rows'[u] # A!Gone => /\ rows'[u].account = issued'[u].to
                                              /\ rows'[u].expireAt = issued'[u].until
                                              /\ issued'[u] # A!NotIssued
                      /\ rows'[u].revoked => u \in tried'
                      /\ u \in tried' => issued'[u] # A!NotIssued
                      /\ u \notin tried' /\ issued'[u].until > day' => ~Dead(u)'
                      /\ u \in ended' => Dead(u)'
      BY Zenon DEF RowsFollowLogins, A!Gone, A!NotIssued
  <2>1. CASE u = t
    BY <1>1, <1>2, <1>3, <1>4, <1>6, <2>1, Zenon DEF Dead
  <2>2. CASE u # t
    <3>1. rows'[u] = rows[u] /\ issued'[u] = issued[u] /\ (Dead(u)' <=> Dead(u))
      BY <1>4, <2>2, Zenon DEF Dead, A!Gone
    <3> QED
      BY <1>1, <3>1, Zenon DEF AccountInv, RowsFollowLogins
  <2> QED
    BY <2>1, <2>2, Zenon
<1>8. LogoutUnderWay'
  BY <1>1, Zenon DEF LogoutUnderWay, A!Idle
<1> QED
  BY <1>5, <1>7, <1>8, Zenon DEF AccountInv

(* The steps that change no row and begin no logout.                        *)
LEMMA QuietAccountStep ==
  ASSUME AccountInv, rows' = rows, issued' = issued, ended' = ended, tried' = tried,
         day' \in Nat \ {0}, day' >= day, base' = base \/ base'.op # "logout"
  PROVE  AccountInv'
<1>1. \A t : Dead(t)' <=> Dead(t)
  BY Zenon DEF Dead, A!Gone
<1>2. rows \in [Tokens -> SessionRow] /\ \A t \in Tokens : rows[t].revoked => t \in tried
  BY Zenon DEF AccountInv, AccountTypes, RowsFollowLogins
<1>3. \A t \in Tokens :
        /\ rows'[t] # A!Gone => /\ rows[t] # A!Gone
                                /\ rows'[t].account = rows[t].account
                                /\ rows'[t].expireAt = rows[t].expireAt
        /\ Dead(t) => Dead(t)'
        /\ Dead(t)' => Dead(t) \/ t \in tried' \/ issued[t].until <= day'
        /\ rows'[t].revoked => t \in tried'
  BY <1>1, <1>2, Zenon
<1>4. tried' \subseteq Tokens /\ tried \subseteq tried'
  BY Zenon DEF AccountInv, AccountTypes
<1>5. AccountTypes' /\ RowsFollowLogins'
  BY <1>2, <1>3, <1>4, DyingStep, Zenon
<1>6. LogoutUnderWay'
  BY <1>1, Zenon DEF AccountInv, LogoutUnderWay
<1> QED
  BY <1>5, <1>6, Zenon DEF AccountInv

(* The requests that use a token, and the cleanup.                          *)
LEMMA AccountsNext == AccountInv /\ [A!Next]_A!accountVars => AccountInv'
<1> SUFFICES ASSUME AccountInv, [A!Next]_A!accountVars PROVE AccountInv'
    BY Zenon
<1>0. /\ rows \in [Tokens -> SessionRow] /\ day \in Nat \ {0} /\ day >= day
      /\ tried \subseteq Tokens /\ LogoutUnderWay
      /\ \A t \in Tokens : /\ rows[t].revoked => t \in tried
                           /\ rows[t] # A!Gone => rows[t].expireAt = issued[t].until
  BY SMTT(30) DEF AccountInv, AccountTypes, RowsFollowLogins
<1>1. ASSUME NEW a \in Ids, A!RegisterUser(a) PROVE AccountInv'
  <2>1. rows' = rows /\ issued' = issued /\ ended' = ended /\ tried' = tried /\ day' = day /\ base' = base
    BY <1>1, Zenon DEF A!RegisterUser, A!history
  <2> QED
    BY <1>0, <2>1, QuietAccountStep, Zenon
<1>2. ASSUME NEW c \in Clients, NEW a \in Ids, NEW t \in Tokens, A!Login(c, a, t) PROVE AccountInv'
  BY <1>2, LoginStep, Zenon
<1>3. ASSUME NEW c \in Clients, NEW t \in Tokens, A!FindForLogin(c, t) PROVE AccountInv'
  <2>1. /\ rows' = rows /\ issued' = issued /\ ended' = ended /\ tried' = tried /\ day' = day
        /\ base'.op # "logout"
    BY <1>3, Zenon DEF A!FindForLogin, A!history, A!tables
  <2> QED
    BY <1>0, <2>1, QuietAccountStep, Zenon
<1>4. ASSUME NEW c \in Clients, NEW t \in Tokens, A!FindForLogout(c, t) PROVE AccountInv'
  <2>1. /\ rows' = rows /\ issued' = issued /\ ended' = ended /\ day' = day
        /\ tried' = tried \union {t} /\ rows[t] # A!Gone
        /\ base'.token = t /\ base'.row = rows[t]
    BY <1>4, Zenon DEF A!FindForLogout, A!tables
  <2>2. \A u : Dead(u)' <=> Dead(u)
    BY <2>1, Zenon DEF Dead, A!Gone
  <2>3. AccountTypes' /\ RowsFollowLogins'
    BY <1>0, <2>1, <2>2, DyingStep, Zenon
  <2>4. LogoutUnderWay'
    BY <2>1, Zenon DEF LogoutUnderWay, Dead
  <2> QED
    BY <2>3, <2>4, Zenon DEF AccountInv
<1>5. CASE A!BindByToken \/ A!TouchFails
  <2>1. /\ rows' = rows /\ issued' = issued /\ ended' = ended /\ tried' = tried /\ day' = day
        /\ base' = A!Idle
    BY <1>5, Zenon DEF A!BindByToken, A!TouchFails, A!history, A!tables
  <2>2. base'.op # "logout"
    BY <2>1, Zenon DEF A!Idle
  <2> QED
    BY <1>0, <2>1, <2>2, QuietAccountStep, Zenon
<1>6. CASE A!RevokeAndUnbind \/ A!RevokeFails
  <2>0. base.op = "logout" /\ base.token \in Tokens
    BY <1>0, <1>6, Zenon DEF LogoutUnderWay, A!RevokeAndUnbind, A!RevokeFails
  <2>10. PICK t \in Tokens : t = base.token
    BY <2>0, Zenon
  <2>1. /\ base.op = "logout" /\ issued' = issued /\ tried' = tried /\ day' = day /\ base' = A!Idle
        /\ rows' = rows \/ A!RevokeSession(t, day)
        /\ \/ ended' = ended
           \/ ended' = ended \union {t} /\ (A!RevokeSession(t, day) \/ base.row.revoked)
    BY <1>6, <2>10, Zenon DEF A!RevokeAndUnbind, A!RevokeFails, A!history
  <2>2. t \in tried /\ (base.row.revoked => Dead(t))
    BY <1>0, <2>10, <2>1, Zenon DEF LogoutUnderWay
  <2>3. /\ rows' \in [Tokens -> SessionRow]
        /\ \A u \in Tokens \ {t} : rows'[u] = rows[u]
        /\ Dead(t) => Dead(t)'
        /\ rows'[t].revoked => rows[t] # A!Gone
        /\ rows'[t] # A!Gone =>
             /\ rows[t] # A!Gone
             /\ rows'[t].account = rows[t].account
             /\ rows'[t].expireAt = rows[t].expireAt
    <3>1. CASE A!RevokeSession(t, day)
      BY <2>2, <3>1, RevokeEffect, Zenon DEF AccountInv
    <3>2. CASE rows' = rows
      <4>1. A!Gone.revoked = FALSE
        BY Zenon DEF A!Gone
      <4> QED
        BY <1>0, <3>2, <4>1, Zenon DEF Dead
    <3> QED
      BY <2>1, <3>1, <3>2, Zenon
  <2>4. \A u \in Tokens \ {t} : Dead(u)' <=> Dead(u)
    BY <2>3, Zenon DEF Dead, A!Gone
  <2>5. ended' # ended => Dead(t)'
    BY <2>1, <2>2, <2>3, RevokeEffect, Zenon DEF AccountInv
  <2>6. LogoutUnderWay'
    BY <2>1, Zenon DEF LogoutUnderWay, A!Idle
  <2>7. ASSUME NEW u \in Tokens
        PROVE  /\ rows'[u] # A!Gone => /\ rows'[u].account = issued'[u].to
                                       /\ rows'[u].expireAt = issued'[u].until
                                       /\ issued'[u] # A!NotIssued
               /\ rows'[u].revoked => u \in tried'
               /\ u \in tried' => issued'[u] # A!NotIssued
               /\ u \notin tried' /\ issued'[u].until > day' => ~Dead(u)'
               /\ u \in ended' => Dead(u)'
    <3>1. /\ rows[u] # A!Gone => /\ rows[u].account = issued[u].to
                                 /\ rows[u].expireAt = issued[u].until
                                 /\ issued[u] # A!NotIssued
          /\ rows[u].revoked => u \in tried
          /\ u \in tried => issued[u] # A!NotIssued
          /\ u \notin tried /\ issued[u].until > day => ~Dead(u)
          /\ u \in ended => Dead(u)
      BY Zenon DEF AccountInv, RowsFollowLogins
    <3>2. CASE u # t
      BY <2>1, <2>3, <2>4, <3>1, <3>2, Zenon
    <3>3. CASE u = t
      BY <2>1, <2>2, <2>3, <2>5, <3>1, <3>3, Zenon
    <3> QED
      BY <3>2, <3>3, Zenon
  <2>8. RowsFollowLogins'
    BY <2>7, Zenon DEF RowsFollowLogins, A!Gone, A!NotIssued
  <2>9. AccountTypes'
    BY <2>1, <2>2, <2>3, Zenon DEF AccountInv, AccountTypes
  <2> QED
    BY <2>6, <2>8, <2>9, Zenon DEF AccountInv
<1>7. ASSUME NEW c \in Clients, A!Disconnect(c) PROVE AccountInv'
  <2>1. rows' = rows /\ issued' = issued /\ ended' = ended /\ tried' = tried /\ day' = day /\ base' = base
    BY <1>7, Zenon DEF A!Disconnect, A!history, A!tables
  <2> QED
    BY <1>0, <2>1, QuietAccountStep, Zenon
<1>8. ASSUME NEW t \in Tokens, A!DeleteExpiredBefore(t) \/ A!DeleteRevokedBefore(t)
      PROVE  AccountInv'
  <2>1. /\ rows' = [rows EXCEPT ![t] = A!Gone]
        /\ issued' = issued /\ ended' = ended /\ tried' = tried /\ day' = day /\ base' = base
        /\ \/ rows[t] # A!Gone /\ rows[t].expireAt < day - Retention
           \/ rows[t].revoked
    BY <1>8, Zenon DEF A!DeleteExpiredBefore, A!DeleteRevokedBefore, A!Cutoff, A!history
  <2>2. A!Gone.revoked = FALSE /\ A!Gone \in SessionRow
    BY Zenon DEF A!Gone, SessionRow
  <2>3. /\ rows' \in [Tokens -> SessionRow] /\ rows'[t] = A!Gone
        /\ \A u \in Tokens \ {t} : rows'[u] = rows[u]
    BY <1>0, <2>1, <2>2, Zenon
  <2>4. Dead(t)' /\ \A u \in Tokens \ {t} : Dead(u)' <=> Dead(u)
    BY <2>3, Zenon DEF Dead, A!Gone
  <2>5. t \in tried \/ issued[t].until <= day
    <3>1. issued[t].until \in Nat
      BY Zenon DEF AccountInv, AccountTypes
    <3> QED
      BY <1>0, <2>1, <3>1, BackendAssumption, SMTT(30)
  <2>6. \A u \in Tokens :
           /\ rows'[u] # A!Gone => /\ rows[u] # A!Gone
                                   /\ rows'[u].account = rows[u].account
                                   /\ rows'[u].expireAt = rows[u].expireAt
           /\ Dead(u) => Dead(u)'
           /\ Dead(u)' => Dead(u) \/ u \in tried' \/ issued[u].until <= day'
           /\ rows'[u].revoked => u \in tried'
    BY <1>0, <2>1, <2>2, <2>3, <2>4, <2>5, Zenon
  <2>7. AccountTypes' /\ RowsFollowLogins'
    BY <1>0, <2>1, <2>3, <2>6, DyingStep, Zenon
  <2>8. LogoutUnderWay'
    BY <1>0, <2>1, <2>4, Zenon DEF LogoutUnderWay
  <2> QED
    BY <2>7, <2>8, Zenon DEF AccountInv
<1>9. CASE A!Tick
  <2>1. rows' = rows /\ issued' = issued /\ ended' = ended /\ tried' = tried /\ day' = day + 1 /\ base' = base
    BY <1>9, Zenon DEF A!Tick, A!history, A!tables
  <2>2. day' \in Nat \ {0} /\ day' >= day
    BY <1>0, <2>1, SMTT(30)
  <2> QED
    BY <2>1, <2>2, QuietAccountStep, Zenon
<1>10. CASE UNCHANGED A!accountVars
  <2>1. rows' = rows /\ issued' = issued /\ ended' = ended /\ tried' = tried /\ day' = day /\ base' = base
    BY <1>10, Zenon DEF A!accountVars
  <2> QED
    BY <1>0, <2>1, QuietAccountStep, Zenon
<1> QED
  BY <1>1, <1>2, <1>3, <1>4, <1>5, <1>6, <1>7, <1>8, <1>9, <1>10, Zenon DEF A!Next

(* A token works until it expires or is logged out and never afterwards,    *)
(* for any accounts, tokens, lifetimes and retention: AuthService with the  *)
(* cleanup of user_sessions in between.                                     *)
THEOREM TokensWorkUntilLogout == A!Spec => []TokensLiveUntilLogout
<1>1. A!Init => AccountInv
  BY AccountsInit, Zenon
<1>2. AccountInv /\ [A!Next]_A!accountVars => AccountInv'
  BY AccountsNext, Zenon
<1>3. AccountInv => TokensLiveUntilLogout
  <2> SUFFICES ASSUME AccountInv, NEW t \in Tokens
               PROVE  /\ t \notin tried /\ issued[t].until > day => A!Usable(rows[t], day)
                      /\ t \in ended => ~A!Usable(rows[t], day)
                      /\ rows[t] # A!Gone => rows[t].account = issued[t].to
      BY Zenon DEF TokensLiveUntilLogout, A!TokensLiveUntilLogout
  <2>1. /\ rows[t] # A!Gone => /\ rows[t].account = issued[t].to
                               /\ rows[t].expireAt = issued[t].until
        /\ t \notin tried /\ issued[t].until > day => ~Dead(t)
        /\ t \in ended => Dead(t)
    BY Zenon DEF AccountInv, RowsFollowLogins
  <2> QED
    BY <2>1, Zenon DEF Dead, A!Usable
<1> QED
  BY <1>1, <1>2, <1>3, PTL DEF A!Spec
=============================================================================
