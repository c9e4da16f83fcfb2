------------------------------ MODULE Friends ------------------------------
(***************************************************************************)
(* Friend requests and friend relations: FriendService over the tables     *)
(* friend_requests and friend_relations.                                   *)
(*                                                                         *)
(* The handlers run one after the other on the base loop, so a handler is  *)
(* one step; the cleanup of handled requests runs on a pool thread and is  *)
(* a step of its own.  Each call of a repository takes a connection and    *)
(* may fail.  A transaction that fails leaves nothing behind (module       *)
(* SqlPool), except that the answer to a commit may be lost after the      *)
(* server has committed.  The event pushed to the other account after the  *)
(* commit is only logged when it cannot be delivered; it changes no row.   *)
(***************************************************************************)
EXTENDS Naturals

CONSTANTS Accounts,     \* account ids
          MaxRequests   \* bound: friend requests ever created

VARIABLES profiled,   \* accounts with a row in user_profiles
          requests,   \* friend_requests: request_id -> row
          relation,   \* friend_relations: (account, friend) -> status
          asked,      \* history: <<x, y>> when x waits for an answer of y
          agreed      \* history: {x, y} when both wanted it, and still do

friendVars == <<profiled, requests, relation, asked, agreed>>

RequestIds == 1 .. MaxRequests
Pairs == {p \in Accounts \X Accounts : p[1] # p[2]}

(* status: 0 = pending, 1 = accepted, 2 = rejected; NoRow: never inserted, *)
(* or removed by the cleanup.                                              *)
NoRow == [from |-> "", to |-> "", status |-> "none"]
IsPending(id) == requests[id].status = "pending"
IsHandled(id) == requests[id].status \in {"accepted", "rejected"}

(* The unique key over the unordered pair of a pending request.            *)
PendingPair(a, b) ==
    \E id \in RequestIds : IsPending(id) /\ {requests[id].from, requests[id].to} = {a, b}

(* request_id is AUTO_INCREMENT: the first id that was never used.         *)
IsNextRequestId(id) == \A other \in RequestIds : requests[other].status # "none" <=> other < id

Init ==
    /\ profiled \in SUBSET Accounts
    /\ requests = [id \in RequestIds |-> NoRow]
    /\ relation = [p \in Pairs |-> "none"]
    /\ asked = {}
    /\ agreed = {}
-----------------------------------------------------------------------------
(* areFriends reads one direction; a failed query counts as "no".          *)
AreFriends(a, b, answered) == answered /\ relation[<<a, b>>] = "normal"

(* findUser: a failed query counts as "no such user".                      *)
FindUser(a) == a \in profiled

(* listFriendAccountIds, and listFriends: the friends with a profile.      *)
ListFriendAccountIds(a) == {b \in Accounts \ {a} : relation[<<a, b>>] = "normal"}
ListFriends(a) == ListFriendAccountIds(a) \intersect profiled

(* listPendingIncoming, and listIncomingRequests: the list is empty when   *)
(* no requester in it has a profile.                                       *)
ListPendingIncoming(a) == {id \in RequestIds : IsPending(id) /\ requests[id].to = a}
ListIncomingRequests(a) ==
    {id \in ListPendingIncoming(a) :
         \E other \in ListPendingIncoming(a) : requests[other].from \in profiled}

(* The insert of a pending request.                                        *)
CreatePendingRequest(a, b) ==
    /\ ~PendingPair(a, b)
    /\ \E id \in RequestIds :
         /\ IsNextRequestId(id)
         /\ requests' = [requests EXCEPT ![id] = [from |-> a, to |-> b, status |-> "pending"]]

(* sendRequest: the target has a profile, the two are not known to be      *)
(* friends, and no request between them is pending.                        *)
SendRequest(a, b) ==
    /\ FindUser(b)
    /\ \E answered \in BOOLEAN : ~AreFriends(a, b, answered)
    /\ CreatePendingRequest(a, b)
    /\ asked' = asked \union {<<a, b>>}
    /\ UNCHANGED <<profiled, relation, agreed>>

(* The checks shared by acceptance and rejection, made under the row lock. *)
MayHandle(a, id) == IsPending(id) /\ requests[id].to = a

(* The two rows a friendship is made of.                                   *)
BothWays(a, b) == {<<a, b>>, <<b, a>>}
SetRelation(rows, status) ==
    relation' = [p \in Pairs |-> IF p \in rows THEN status ELSE relation[p]]

(* What the two accounts want after a answers the request of x.            *)
Consent(x, a) ==
    /\ asked' = asked \ {<<x, a>>}
    /\ agreed' = IF <<x, a>> \in asked THEN agreed \union {{x, a}} ELSE agreed

(* Mutant: the acceptance does not look at the status, so that the same   *)
(* request can be accepted again after the friendship has ended.           *)
AcceptRequestTwice(a, id) ==
    /\ requests[id].status # "none" /\ requests[id].to = a
    /\ requests' = [requests EXCEPT ![id].status = "accepted"]
    /\ SetRelation(BothWays(requests[id].from, a), "normal")
    /\ Consent(requests[id].from, a)
    /\ UNCHANGED profiled

(* acceptPendingAndCreateFriendPair: the request and both rows change in   *)
(* one transaction.                                                        *)
AcceptRequest(a, id) ==
    /\ MayHandle(a, id)
    /\ requests' = [requests EXCEPT ![id].status = "accepted"]
    /\ SetRelation(BothWays(requests[id].from, a), "normal")
    /\ Consent(requests[id].from, a)
    /\ UNCHANGED profiled

(* rejectPending.                                                          *)
RejectRequest(a, id) ==
    /\ MayHandle(a, id)
    /\ requests' = [requests EXCEPT ![id].status = "rejected"]
    /\ asked' = asked \ {<<requests[id].from, a>>}
    /\ UNCHANGED <<profiled, relation, agreed>>

(* removeFriend: both rows must still be normal, and both are soft-deleted.*)
RemoveFriend(a, b) ==
    /\ AreFriends(a, b, TRUE)
    /\ \A p \in BothWays(a, b) : relation[p] = "normal"
    /\ SetRelation(BothWays(a, b), "deleted")
    /\ agreed' = agreed \ {{a, b}}
    /\ UNCHANGED <<profiled, requests, asked>>

(* deleteHandledBefore: a handled request old enough is removed.           *)
DeleteHandledBefore(id) ==
    /\ IsHandled(id)
    /\ requests' = [requests EXCEPT ![id].status = "deleted"]
    /\ UNCHANGED <<profiled, relation, asked, agreed>>

Next ==
    \/ \E a, b \in Accounts : a # b /\ (SendRequest(a, b) \/ RemoveFriend(a, b))
    \/ \E a \in Accounts, id \in RequestIds : AcceptRequest(a, id) \/ RejectRequest(a, id)
    \/ \E id \in RequestIds : DeleteHandledBefore(id)

Spec == Init /\ [][Next]_friendVars
-----------------------------------------------------------------------------
(* Two accounts are friends, each in the other's list, exactly when one    *)
(* asked, the other accepted that very request, and neither has removed    *)
(* the other since: a request serves once, only its receiver can accept    *)
(* it, a removal takes both rows, and the cleanup of old requests changes  *)
(* nothing of this; whoever has a profile is shown.  A request is shown to *)
(* its receiver, and to nobody else, until that receiver answers it: other *)
(* requests, answers and the cleanup do not take it away.                  *)
FriendsByConsent ==
    \A a \in Accounts :
        /\ ListFriendAccountIds(a) = {b \in Accounts : {a, b} \in agreed}
        /\ ListFriends(a) = {b \in profiled : {a, b} \in agreed}
        /\ \A id \in ListIncomingRequests(a) : <<requests[id].from, a>> \in asked
        /\ \A x \in profiled : <<x, a>> \in asked =>
               \E id \in ListIncomingRequests(a) : requests[id].from = x
=============================================================================
