------------------------- MODULE BillingCheckoutProofs -------------------------
(***************************************************************************)
(* Proofs about BillingCheckout, for any number of clients, keys and       *)
(* crashes.  The inductive invariant says who may post (only the request   *)
(* that inserted the row, once), that a call is in one place, and that     *)
(* what a request loaded or is about to store is still true of the row.    *)
(***************************************************************************)
EXTENDS BillingCheckout, TLAPS

(* A row's identifier was minted by a client of that row's key; an absent  *)
(* row has the values Init gave it.                                        *)
RowsOwned ==
  \A k \in Keys :
    /\ rowId[k] # None => KeyOf[rowId[k]] = k
    /\ rowId[k] = None => rowStatus[k] = "pending" /\ rowLink[k] = NoLink

(* Only the request that inserted the row reaches the POST, and only the   *)
(* row's identifier was ever posted.                                       *)
PosterOwns ==
  \A r \in Requests :
    /\ posts[r] <= 1
    /\ posts[r] > 0 => rowId[KeyOf[r]] = r
    /\ pc[r] \in {"post", "wait"} =>
         rowId[KeyOf[r]] = r /\ rowStatus[KeyOf[r]] = "pending"
    /\ pc[r] = "post" => posts[r] = 0
    /\ pc[r] = "wait" => answer[r] = <<r, 1>>

(* A call is under way, has become a link, or was refused: only one of     *)
(* them; and it is the first call of its reference.                        *)
CallsApart ==
  /\ \A l \in wire \cup links \cup refused : l[2] = 1 /\ posts[l[1]] = 1
  /\ wire \cap links = {}
  /\ wire \cap refused = {}
  /\ links \cap refused = {}

(* What a request holds is still true: the row it loaded only gained, and  *)
(* the link it is about to store exists and is the row's.                  *)
HeldIsTrue ==
  \A r \in Requests :
    /\ pc[r] = "found" =>
         /\ rowId[KeyOf[r]] # None
         /\ snap[r].id = rowId[KeyOf[r]]
         /\ snap[r].link # NoLink => rowLink[KeyOf[r]] = snap[r].link
    /\ pc[r] = "bind" =>
         answer[r] \in links /\ answer[r][1] = rowId[KeyOf[r]]

IInv ==
  /\ TypeOK
  /\ RowsOwned
  /\ PosterOwns
  /\ CallsApart
  /\ HeldIsTrue
  /\ FailedIsFinal
  /\ BoundToItsOwnLink
  /\ ToldIsDurable
--------------------------------------------------------------------------------
(* Init establishes the invariant.                                         *)
LEMMA InitEstablishes == Init => IInv
BY CheckoutConstants
   DEF CheckoutConstants, Init, IInv, TypeOK, RowsOwned, PosterOwns, CallsApart, HeldIsTrue, FailedIsFinal,
       BoundToItsOwnLink, ToldIsDurable, Links, NoLink, NoRow, Steps, Operations

(* Under the invariant a call is the first one of its reference.           *)
LEMMA CallShape ==
  ASSUME TypeOK, CallsApart
  PROVE  \A l \in wire \cup links \cup refused : l[1] \in Requests /\ l = <<l[1], 1>>
BY DEF TypeOK, CallsApart, Links

LEMMA ArriveNewKeeps ==
  ASSUME NEW r \in Requests, IInv, ArriveNew(r)
  PROVE  IInv'
<1> USE CheckoutConstants
    DEF CheckoutConstants, IInv, ArriveNew, Goto, rowVars, requestVars, providerVars
<1>1. TypeOK'
  BY DEF TypeOK, Links, NoLink, Steps, Operations
<1>2. RowsOwned'
  BY DEF TypeOK, RowsOwned, NoLink, PosterOwns, HeldIsTrue
<1>3. PosterOwns'
  BY DEF TypeOK, PosterOwns, RowsOwned
<1>4. CallsApart'
  BY DEF TypeOK, CallsApart, PosterOwns, Links
<1>5. HeldIsTrue'
  BY DEF TypeOK, HeldIsTrue, PosterOwns, RowsOwned, BoundToItsOwnLink, CallsApart, Links, NoLink, Steps
<1>6. FailedIsFinal'
  BY DEF TypeOK, FailedIsFinal, PosterOwns, CallsApart, RowsOwned, HeldIsTrue, Links
<1>7. BoundToItsOwnLink'
  BY DEF TypeOK, BoundToItsOwnLink, HeldIsTrue, RowsOwned, NoLink
<1>8. ToldIsDurable'
  BY DEF TypeOK, ToldIsDurable, HeldIsTrue, RowsOwned, BoundToItsOwnLink, Links, NoLink, CallsApart
<1>9. QED
  BY <1>1, <1>2, <1>3, <1>4, <1>5, <1>6, <1>7, <1>8

LEMMA ArriveKnownKeeps ==
  ASSUME NEW r \in Requests, IInv, ArriveKnown(r)
  PROVE  IInv'
<1> USE CheckoutConstants
    DEF CheckoutConstants, IInv, ArriveKnown, Load, Goto, RowOf, rowVars, requestVars, providerVars
<1>1. TypeOK'
  BY DEF TypeOK, Links, NoLink, Steps, Operations
<1>2. RowsOwned'
  BY DEF TypeOK, RowsOwned, NoLink, PosterOwns, HeldIsTrue
<1>3. PosterOwns'
  BY DEF TypeOK, PosterOwns, RowsOwned
<1>4. CallsApart'
  BY DEF TypeOK, CallsApart, PosterOwns, Links
<1>5. HeldIsTrue'
  BY DEF TypeOK, HeldIsTrue, PosterOwns, RowsOwned, BoundToItsOwnLink, CallsApart, Links, NoLink, Steps
<1>6. FailedIsFinal'
  BY DEF TypeOK, FailedIsFinal, PosterOwns, CallsApart, RowsOwned, HeldIsTrue, Links
<1>7. BoundToItsOwnLink'
  BY DEF TypeOK, BoundToItsOwnLink, HeldIsTrue, RowsOwned, NoLink
<1>8. ToldIsDurable'
  BY DEF TypeOK, ToldIsDurable, HeldIsTrue, RowsOwned, BoundToItsOwnLink, Links, NoLink, CallsApart
<1>9. QED
  BY <1>1, <1>2, <1>3, <1>4, <1>5, <1>6, <1>7, <1>8

LEMMA ClaimKeeps ==
  ASSUME NEW r \in Requests, IInv, Claim(r)
  PROVE  IInv'
<1> USE CheckoutConstants
    DEF CheckoutConstants, IInv, Claim, Goto, rowVars, requestVars, providerVars
<1>1. TypeOK'
  BY DEF TypeOK, Links, NoLink, Steps, Operations
<1>2. RowsOwned'
  BY DEF TypeOK, RowsOwned, NoLink, PosterOwns, HeldIsTrue
<1>3. PosterOwns'
  <2>1. \A q \in Requests : KeyOf[q] = KeyOf[r] => posts[q] = 0 /\ pc[q] \notin {"post", "wait"}
    BY DEF TypeOK, PosterOwns
  <2>2. rowStatus[KeyOf[r]] = "pending"
    BY DEF RowsOwned
  <2>3. QED
    BY <2>1, <2>2 DEF TypeOK, PosterOwns
<1>4. CallsApart'
  BY DEF TypeOK, CallsApart, PosterOwns, Links
<1>5. HeldIsTrue'
  BY DEF TypeOK, HeldIsTrue, PosterOwns, RowsOwned, BoundToItsOwnLink, CallsApart, Links, NoLink, Steps
<1>6. FailedIsFinal'
  BY DEF TypeOK, FailedIsFinal, PosterOwns, CallsApart, RowsOwned, HeldIsTrue, Links
<1>7. BoundToItsOwnLink'
  BY DEF TypeOK, BoundToItsOwnLink, HeldIsTrue, RowsOwned, NoLink
<1>8. ToldIsDurable'
  BY DEF TypeOK, ToldIsDurable, HeldIsTrue, RowsOwned, BoundToItsOwnLink, Links, NoLink, CallsApart
<1>9. QED
  BY <1>1, <1>2, <1>3, <1>4, <1>5, <1>6, <1>7, <1>8

LEMMA ClaimConflictKeeps ==
  ASSUME NEW r \in Requests, IInv, ClaimConflict(r)
  PROVE  IInv'
<1> USE CheckoutConstants
    DEF CheckoutConstants, IInv, ClaimConflict, Load, Goto, RowOf, rowVars, requestVars, providerVars
<1>1. TypeOK'
  BY DEF TypeOK, Links, NoLink, Steps, Operations
<1>2. RowsOwned'
  BY DEF TypeOK, RowsOwned, NoLink, PosterOwns, HeldIsTrue
<1>3. PosterOwns'
  BY DEF TypeOK, PosterOwns, RowsOwned
<1>4. CallsApart'
  BY DEF TypeOK, CallsApart, PosterOwns, Links
<1>5. HeldIsTrue'
  BY DEF TypeOK, HeldIsTrue, PosterOwns, RowsOwned, BoundToItsOwnLink, CallsApart, Links, NoLink, Steps
<1>6. FailedIsFinal'
  BY DEF TypeOK, FailedIsFinal, PosterOwns, CallsApart, RowsOwned, HeldIsTrue, Links
<1>7. BoundToItsOwnLink'
  BY DEF TypeOK, BoundToItsOwnLink, HeldIsTrue, RowsOwned, NoLink
<1>8. ToldIsDurable'
  BY DEF TypeOK, ToldIsDurable, HeldIsTrue, RowsOwned, BoundToItsOwnLink, Links, NoLink, CallsApart
<1>9. QED
  BY <1>1, <1>2, <1>3, <1>4, <1>5, <1>6, <1>7, <1>8

LEMMA PostKeeps ==
  ASSUME NEW r \in Requests, IInv, Post(r)
  PROVE  IInv'
<1> USE CheckoutConstants
    DEF CheckoutConstants, IInv, Post, Goto, rowVars, requestVars, providerVars
<1>1. TypeOK'
  BY DEF TypeOK, Links, NoLink, Steps, Operations
<1>2. RowsOwned'
  BY DEF TypeOK, RowsOwned, NoLink, PosterOwns, HeldIsTrue
<1>3. PosterOwns'
  BY DEF TypeOK, PosterOwns, RowsOwned
<1>4. CallsApart'
  BY DEF TypeOK, CallsApart, PosterOwns, Links
<1>5. HeldIsTrue'
  BY DEF TypeOK, HeldIsTrue, PosterOwns, RowsOwned, BoundToItsOwnLink, CallsApart, Links, NoLink, Steps
<1>6. FailedIsFinal'
  BY DEF TypeOK, FailedIsFinal, PosterOwns, CallsApart, RowsOwned, HeldIsTrue, Links
<1>7. BoundToItsOwnLink'
  BY DEF TypeOK, BoundToItsOwnLink, HeldIsTrue, RowsOwned, NoLink
<1>8. ToldIsDurable'
  BY DEF TypeOK, ToldIsDurable, HeldIsTrue, RowsOwned, BoundToItsOwnLink, Links, NoLink, CallsApart
<1>9. QED
  BY <1>1, <1>2, <1>3, <1>4, <1>5, <1>6, <1>7, <1>8

LEMMA NotConfiguredKeeps ==
  ASSUME NEW r \in Requests, IInv, NotConfigured(r)
  PROVE  IInv'
<1> USE CheckoutConstants
    DEF CheckoutConstants, IInv, NotConfigured, RecordFailed, Finish, Goto, NoRow, rowVars, requestVars, providerVars
<1>1. TypeOK'
  BY DEF TypeOK, Links, NoLink, Steps, Operations
<1>2. RowsOwned'
  BY DEF TypeOK, RowsOwned, NoLink, PosterOwns, HeldIsTrue
<1>3. PosterOwns'
  BY DEF TypeOK, PosterOwns, RowsOwned
<1>4. CallsApart'
  BY DEF TypeOK, CallsApart, PosterOwns, Links
<1>5. HeldIsTrue'
  BY DEF TypeOK, HeldIsTrue, PosterOwns, RowsOwned, BoundToItsOwnLink, CallsApart, Links, NoLink, Steps
<1>6. FailedIsFinal'
  BY DEF TypeOK, FailedIsFinal, PosterOwns, CallsApart, RowsOwned, HeldIsTrue, Links
<1>7. BoundToItsOwnLink'
  BY DEF TypeOK, BoundToItsOwnLink, HeldIsTrue, RowsOwned, NoLink
<1>8. ToldIsDurable'
  BY DEF TypeOK, ToldIsDurable, HeldIsTrue, RowsOwned, BoundToItsOwnLink, Links, NoLink, CallsApart
<1>9. QED
  BY <1>1, <1>2, <1>3, <1>4, <1>5, <1>6, <1>7, <1>8

LEMMA PostRefusedKeeps ==
  ASSUME NEW r \in Requests, IInv, PostRefused(r)
  PROVE  IInv'
<1> USE CheckoutConstants
    DEF CheckoutConstants, IInv, PostRefused, RecordFailed, Finish, Goto, NoRow, rowVars, requestVars, providerVars
<1>1. TypeOK'
  BY DEF TypeOK, Links, NoLink, Steps, Operations
<1>2. RowsOwned'
  BY DEF TypeOK, RowsOwned, NoLink, PosterOwns, HeldIsTrue
<1>3. PosterOwns'
  BY DEF TypeOK, PosterOwns, RowsOwned
<1>4. CallsApart'
  BY DEF TypeOK, CallsApart, PosterOwns, Links
<1>5. HeldIsTrue'
  BY DEF TypeOK, HeldIsTrue, PosterOwns, RowsOwned, BoundToItsOwnLink, CallsApart, Links, NoLink, Steps
<1>6. FailedIsFinal'
  <2>1. <<r, 1>> \in refused /\ rowId[KeyOf[r]] = r
    BY DEF PosterOwns, RecordFailed, Finish, Goto
  <2>2. \A l \in links \cup wire : l[1] # r
    BY <2>1, CallShape DEF CallsApart
  <2>3. QED
    BY <2>1, <2>2 DEF TypeOK, FailedIsFinal
<1>7. BoundToItsOwnLink'
  BY DEF TypeOK, BoundToItsOwnLink, HeldIsTrue, RowsOwned, NoLink
<1>8. ToldIsDurable'
  BY DEF TypeOK, ToldIsDurable, HeldIsTrue, RowsOwned, BoundToItsOwnLink, Links, NoLink, CallsApart
<1>9. QED
  BY <1>1, <1>2, <1>3, <1>4, <1>5, <1>6, <1>7, <1>8

LEMMA PostUnknownKeeps ==
  ASSUME NEW r \in Requests, IInv, PostUnknown(r)
  PROVE  IInv'
<1> USE CheckoutConstants
    DEF CheckoutConstants, IInv, PostUnknown, Finish, Goto, NoRow, rowVars, requestVars, providerVars
<1>1. TypeOK'
  BY DEF TypeOK, Links, NoLink, Steps, Operations
<1>2. RowsOwned'
  BY DEF TypeOK, RowsOwned, NoLink, PosterOwns, HeldIsTrue
<1>3. PosterOwns'
  BY DEF TypeOK, PosterOwns, RowsOwned
<1>4. CallsApart'
  BY DEF TypeOK, CallsApart, PosterOwns, Links
<1>5. HeldIsTrue'
  BY DEF TypeOK, HeldIsTrue, PosterOwns, RowsOwned, BoundToItsOwnLink, CallsApart, Links, NoLink, Steps
<1>6. FailedIsFinal'
  BY DEF TypeOK, FailedIsFinal, PosterOwns, CallsApart, RowsOwned, HeldIsTrue, Links
<1>7. BoundToItsOwnLink'
  BY DEF TypeOK, BoundToItsOwnLink, HeldIsTrue, RowsOwned, NoLink
<1>8. ToldIsDurable'
  BY DEF TypeOK, ToldIsDurable, HeldIsTrue, RowsOwned, BoundToItsOwnLink, Links, NoLink, CallsApart
<1>9. QED
  BY <1>1, <1>2, <1>3, <1>4, <1>5, <1>6, <1>7, <1>8

LEMMA PostAnsweredKeeps ==
  ASSUME NEW r \in Requests, IInv, PostAnswered(r)
  PROVE  IInv'
<1> USE CheckoutConstants
    DEF CheckoutConstants, IInv, PostAnswered, Goto, rowVars, requestVars, providerVars
<1>1. TypeOK'
  BY DEF TypeOK, Links, NoLink, Steps, Operations
<1>2. RowsOwned'
  BY DEF TypeOK, RowsOwned, NoLink, PosterOwns, HeldIsTrue
<1>3. PosterOwns'
  BY DEF TypeOK, PosterOwns, RowsOwned
<1>4. CallsApart'
  BY DEF TypeOK, CallsApart, PosterOwns, Links
<1>5. HeldIsTrue'
  BY DEF TypeOK, HeldIsTrue, PosterOwns, RowsOwned, BoundToItsOwnLink, CallsApart, Links, NoLink, Steps
<1>6. FailedIsFinal'
  BY DEF TypeOK, FailedIsFinal, PosterOwns, CallsApart, RowsOwned, HeldIsTrue, Links
<1>7. BoundToItsOwnLink'
  BY DEF TypeOK, BoundToItsOwnLink, HeldIsTrue, RowsOwned, NoLink
<1>8. ToldIsDurable'
  BY DEF TypeOK, ToldIsDurable, HeldIsTrue, RowsOwned, BoundToItsOwnLink, Links, NoLink, CallsApart
<1>9. QED
  BY <1>1, <1>2, <1>3, <1>4, <1>5, <1>6, <1>7, <1>8

LEMMA BindKeeps ==
  ASSUME NEW r \in Requests, IInv, Bind(r)
  PROVE  IInv'
<1> USE CheckoutConstants
    DEF CheckoutConstants, IInv, Bind, Finish, Goto, NoRow, rowVars, requestVars, providerVars
<1> DEFINE k == KeyOf[r]
<1>0. /\ k \in Keys
      /\ answer[r] \in links /\ answer[r] \in Links
      /\ answer[r] = <<rowId[k], 1>> /\ rowId[k] \in Requests
      /\ rowLink[k] # NoLink => rowLink[k] = answer[r]
      /\ \A l \in told[k] : l = answer[r]
  <2>1. answer[r] \in links /\ answer[r][1] = rowId[k]
    BY DEF HeldIsTrue, Finish, Goto
  <2>2. k \in Keys /\ answer[r] \in Links /\ told[k] \subseteq Links
    BY <2>1 DEF TypeOK
  <2>3. answer[r] = <<rowId[k], 1>> /\ rowId[k] \in Requests
    BY <2>1, CallShape
  <2>4. rowLink[k] # NoLink => rowLink[k] = <<rowId[k], 1>>
    BY <2>2, CallShape DEF BoundToItsOwnLink
  <2>5. NoLink \notin Links
    BY DEF Links, NoLink
  <2>6. QED
    BY <2>1, <2>2, <2>3, <2>4, <2>5 DEF ToldIsDurable
<1>1. TypeOK'
  <2>1. told' \in [Keys -> SUBSET Links]
    BY <1>0 DEF TypeOK
  <2>2. rowLink' \in [Keys -> Links \cup {NoLink}]
    BY <1>0 DEF TypeOK
  <2>3. QED
    BY <2>1, <2>2 DEF TypeOK, Steps, Operations, Links, NoLink
<1>2. RowsOwned'
  BY <1>0 DEF TypeOK, RowsOwned
<1>3. PosterOwns'
  BY DEF TypeOK, PosterOwns, RowsOwned
<1>4. CallsApart'
  BY DEF TypeOK, CallsApart, PosterOwns, Links
<1>5. HeldIsTrue'
  BY <1>0 DEF TypeOK, HeldIsTrue
<1>6. FailedIsFinal'
  BY DEF TypeOK, FailedIsFinal, PosterOwns, CallsApart, RowsOwned, HeldIsTrue, Links
<1>7. BoundToItsOwnLink'
  BY <1>0 DEF TypeOK, BoundToItsOwnLink
<1>8. ToldIsDurable'
  BY <1>0 DEF TypeOK, ToldIsDurable
<1>9. QED
  BY <1>1, <1>2, <1>3, <1>4, <1>5, <1>6, <1>7, <1>8

LEMMA ReturnBoundKeeps ==
  ASSUME NEW r \in Requests, IInv, ReturnBound(r)
  PROVE  IInv'
<1> USE CheckoutConstants
    DEF CheckoutConstants, IInv, ReturnBound, Finish, Goto, NoRow, rowVars, requestVars, providerVars
<1>1. TypeOK'
  <2>1. snap[r].link \in Links
    BY DEF TypeOK
  <2>2. told' \in [Keys -> SUBSET Links]
    BY <2>1 DEF TypeOK
  <2>3. QED
    BY <2>2 DEF TypeOK, NoLink, Links, Steps
<1>2. RowsOwned'
  BY DEF TypeOK, RowsOwned, NoLink, PosterOwns, HeldIsTrue
<1>3. PosterOwns'
  BY DEF TypeOK, PosterOwns, RowsOwned
<1>4. CallsApart'
  BY DEF TypeOK, CallsApart, PosterOwns, Links
<1>5. HeldIsTrue'
  BY DEF TypeOK, HeldIsTrue, PosterOwns, RowsOwned, BoundToItsOwnLink, CallsApart, Links, NoLink, Steps
<1>6. FailedIsFinal'
  BY DEF TypeOK, FailedIsFinal, PosterOwns, CallsApart, RowsOwned, HeldIsTrue, Links
<1>7. BoundToItsOwnLink'
  BY DEF TypeOK, BoundToItsOwnLink, HeldIsTrue, RowsOwned, NoLink
<1>8. ToldIsDurable'
  BY DEF TypeOK, ToldIsDurable, HeldIsTrue, RowsOwned, BoundToItsOwnLink, Links, NoLink, CallsApart
<1>9. QED
  BY <1>1, <1>2, <1>3, <1>4, <1>5, <1>6, <1>7, <1>8

LEMMA ReturnFailedKeeps ==
  ASSUME NEW r \in Requests, IInv, ReturnFailed(r)
  PROVE  IInv'
<1> USE CheckoutConstants
    DEF CheckoutConstants, IInv, ReturnFailed, Finish, Goto, NoRow, rowVars, requestVars, providerVars
<1>1. TypeOK'
  BY DEF TypeOK, Links, NoLink, Steps, Operations
<1>2. RowsOwned'
  BY DEF TypeOK, RowsOwned, NoLink, PosterOwns, HeldIsTrue
<1>3. PosterOwns'
  BY DEF TypeOK, PosterOwns, RowsOwned
<1>4. CallsApart'
  BY DEF TypeOK, CallsApart, PosterOwns, Links
<1>5. HeldIsTrue'
  BY DEF TypeOK, HeldIsTrue, PosterOwns, RowsOwned, BoundToItsOwnLink, CallsApart, Links, NoLink, Steps
<1>6. FailedIsFinal'
  BY DEF TypeOK, FailedIsFinal, PosterOwns, CallsApart, RowsOwned, HeldIsTrue, Links
<1>7. BoundToItsOwnLink'
  BY DEF TypeOK, BoundToItsOwnLink, HeldIsTrue, RowsOwned, NoLink
<1>8. ToldIsDurable'
  BY DEF TypeOK, ToldIsDurable, HeldIsTrue, RowsOwned, BoundToItsOwnLink, Links, NoLink, CallsApart
<1>9. QED
  BY <1>1, <1>2, <1>3, <1>4, <1>5, <1>6, <1>7, <1>8

LEMMA LookupFoundKeeps ==
  ASSUME NEW r \in Requests, IInv, LookupFound(r)
  PROVE  IInv'
<1> USE CheckoutConstants
    DEF CheckoutConstants, IInv, LookupFound, MustLookUp, Exact, rowVars, requestVars, providerVars
<1>1. TypeOK'
  BY DEF TypeOK, Links, NoLink, Steps, Operations
<1>2. RowsOwned'
  BY DEF TypeOK, RowsOwned, NoLink, PosterOwns, HeldIsTrue
<1>3. PosterOwns'
  BY DEF TypeOK, PosterOwns, RowsOwned
<1>4. CallsApart'
  BY DEF TypeOK, CallsApart, PosterOwns, Links
<1>5. HeldIsTrue'
  BY DEF TypeOK, HeldIsTrue, PosterOwns, RowsOwned, BoundToItsOwnLink, CallsApart, Links, NoLink, Steps
<1>6. FailedIsFinal'
  BY DEF TypeOK, FailedIsFinal, PosterOwns, CallsApart, RowsOwned, HeldIsTrue, Links
<1>7. BoundToItsOwnLink'
  BY DEF TypeOK, BoundToItsOwnLink, HeldIsTrue, RowsOwned, NoLink
<1>8. ToldIsDurable'
  BY DEF TypeOK, ToldIsDurable, HeldIsTrue, RowsOwned, BoundToItsOwnLink, Links, NoLink, CallsApart
<1>9. QED
  BY <1>1, <1>2, <1>3, <1>4, <1>5, <1>6, <1>7, <1>8

LEMMA LookupFailsKeeps ==
  ASSUME NEW r \in Requests, IInv, LookupFails(r)
  PROVE  IInv'
<1> USE CheckoutConstants
    DEF CheckoutConstants, IInv, LookupFails, MustLookUp, Finish, Goto, NoRow, rowVars, requestVars, providerVars
<1>1. TypeOK'
  BY DEF TypeOK, Links, NoLink, Steps, Operations
<1>2. RowsOwned'
  BY DEF TypeOK, RowsOwned, NoLink, PosterOwns, HeldIsTrue
<1>3. PosterOwns'
  BY DEF TypeOK, PosterOwns, RowsOwned
<1>4. CallsApart'
  BY DEF TypeOK, CallsApart, PosterOwns, Links
<1>5. HeldIsTrue'
  BY DEF TypeOK, HeldIsTrue, PosterOwns, RowsOwned, BoundToItsOwnLink, CallsApart, Links, NoLink, Steps
<1>6. FailedIsFinal'
  BY DEF TypeOK, FailedIsFinal, PosterOwns, CallsApart, RowsOwned, HeldIsTrue, Links
<1>7. BoundToItsOwnLink'
  BY DEF TypeOK, BoundToItsOwnLink, HeldIsTrue, RowsOwned, NoLink
<1>8. ToldIsDurable'
  BY DEF TypeOK, ToldIsDurable, HeldIsTrue, RowsOwned, BoundToItsOwnLink, Links, NoLink, CallsApart
<1>9. QED
  BY <1>1, <1>2, <1>3, <1>4, <1>5, <1>6, <1>7, <1>8

LEMMA CrashKeeps ==
  ASSUME NEW r \in Requests, IInv, Crash(r)
  PROVE  IInv'
<1> USE CheckoutConstants
    DEF CheckoutConstants, IInv, Crash, Finish, Goto, NoRow, rowVars, requestVars, providerVars
<1>1. TypeOK'
  BY DEF TypeOK, Links, NoLink, Steps, Operations
<1>2. RowsOwned'
  BY DEF TypeOK, RowsOwned, NoLink, PosterOwns, HeldIsTrue
<1>3. PosterOwns'
  BY DEF TypeOK, PosterOwns, RowsOwned
<1>4. CallsApart'
  BY DEF TypeOK, CallsApart, PosterOwns, Links
<1>5. HeldIsTrue'
  BY DEF TypeOK, HeldIsTrue, PosterOwns, RowsOwned, BoundToItsOwnLink, CallsApart, Links, NoLink, Steps
<1>6. FailedIsFinal'
  BY DEF TypeOK, FailedIsFinal, PosterOwns, CallsApart, RowsOwned, HeldIsTrue, Links
<1>7. BoundToItsOwnLink'
  BY DEF TypeOK, BoundToItsOwnLink, HeldIsTrue, RowsOwned, NoLink
<1>8. ToldIsDurable'
  BY DEF TypeOK, ToldIsDurable, HeldIsTrue, RowsOwned, BoundToItsOwnLink, Links, NoLink, CallsApart
<1>9. QED
  BY <1>1, <1>2, <1>3, <1>4, <1>5, <1>6, <1>7, <1>8

LEMMA AcceptKeeps ==
  ASSUME NEW l \in wire, IInv, Accept(l)
  PROVE  IInv'
<1> USE DEF IInv, Accept, rowVars, requestVars
<1>1. TypeOK' /\ RowsOwned' /\ PosterOwns'
  BY DEF TypeOK, RowsOwned, PosterOwns
<1>2. CallsApart'
  BY DEF CallsApart
<1>3. HeldIsTrue' /\ FailedIsFinal' /\ BoundToItsOwnLink' /\ ToldIsDurable'
  BY DEF HeldIsTrue, FailedIsFinal, BoundToItsOwnLink, ToldIsDurable
<1>4. QED
  BY <1>1, <1>2, <1>3

LEMMA RefuseKeeps ==
  ASSUME NEW l \in wire, IInv, Refuse(l)
  PROVE  IInv'
<1> USE DEF IInv, Refuse, rowVars, requestVars
<1>1. TypeOK' /\ RowsOwned' /\ PosterOwns'
  BY DEF TypeOK, RowsOwned, PosterOwns
<1>2. CallsApart'
  BY DEF CallsApart
<1>3. HeldIsTrue' /\ FailedIsFinal' /\ BoundToItsOwnLink' /\ ToldIsDurable'
  BY DEF HeldIsTrue, FailedIsFinal, BoundToItsOwnLink, ToldIsDurable
<1>4. QED
  BY <1>1, <1>2, <1>3

LEMMA LoseKeeps ==
  ASSUME NEW l \in wire, IInv, Lose(l)
  PROVE  IInv'
<1> USE DEF IInv, Lose, rowVars, requestVars
<1>1. TypeOK' /\ RowsOwned' /\ PosterOwns'
  BY DEF TypeOK, RowsOwned, PosterOwns
<1>2. CallsApart'
  BY DEF CallsApart
<1>3. HeldIsTrue' /\ FailedIsFinal' /\ BoundToItsOwnLink' /\ ToldIsDurable'
  BY DEF HeldIsTrue, FailedIsFinal, BoundToItsOwnLink, ToldIsDurable
<1>4. QED
  BY <1>1, <1>2, <1>3

(* Every step of the system keeps the invariant.                           *)
LEMMA StepKeeps == IInv /\ [Next]_vars => IInv'
<1> SUFFICES ASSUME IInv, [Next]_vars
             PROVE  IInv'
  OBVIOUS
<1>1. CASE \E r \in Requests : Arrive(r) \/ Proceed(r) \/ Crash(r)
  BY <1>1, ArriveNewKeeps, ArriveKnownKeeps, ClaimKeeps, ClaimConflictKeeps, PostKeeps, NotConfiguredKeeps, PostRefusedKeeps, PostUnknownKeeps, PostAnsweredKeeps, BindKeeps, ReturnBoundKeeps, ReturnFailedKeeps, LookupFoundKeeps, LookupFailsKeeps, CrashKeeps
     DEF Arrive, Proceed
<1>2. CASE \E l \in wire : Provider(l)
  BY <1>2, AcceptKeeps, RefuseKeeps, LoseKeeps DEF Provider
<1>3. CASE UNCHANGED vars
  BY <1>3 DEF vars, rowVars, requestVars, providerVars, IInv, TypeOK, RowsOwned, PosterOwns,
              CallsApart, HeldIsTrue, FailedIsFinal, BoundToItsOwnLink, ToldIsDurable
<1>4. QED
  BY <1>1, <1>2, <1>3 DEF Next

(* The inductive invariant holds in every reachable state.                 *)
THEOREM Invariance == Spec => []IInv
BY InitEstablishes, StepKeeps, PTL DEF Spec

(* Every variable keeps its type.                                          *)
THEOREM TypeCorrect == Spec => []TypeOK
<1>1. IInv => TypeOK
  BY DEF IInv
<1>2. QED
  BY <1>1, Invariance, PTL

(* At most one POST per idempotency key, for any number of concurrent      *)
(* requests, retries and crashes.                                          *)
THEOREM OnePost == Spec => []OnePostPerKey
<1>1. IInv => OnePostPerKey
  BY DEF IInv, PosterOwns, OnePostPerKey
<1>2. QED
  BY <1>1, Invariance, PTL

(* A checkout recorded as failed has no link and can get none.             *)
THEOREM FailedFinal == Spec => []FailedIsFinal
<1>1. IInv => FailedIsFinal
  BY DEF IInv
<1>2. QED
  BY <1>1, Invariance, PTL

(* A row is bound only to the link created for it.                         *)
THEOREM BoundOwn == Spec => []BoundToItsOwnLink
<1>1. IInv => BoundToItsOwnLink
  BY DEF IInv
<1>2. QED
  BY <1>1, Invariance, PTL

(* A URL handed to a client is the one the row durably names.              *)
THEOREM ToldDurable == Spec => []ToldIsDurable
<1>1. IInv => ToldIsDurable
  BY DEF IInv
<1>2. QED
  BY <1>1, Invariance, PTL

--------------------------------------------------------------------------------
(* The three steps that write a row: insertion, a final refusal, and the   *)
(* binding of its link.  Each moves one key of the promise.                *)
LEMMA InsertStep ==
  ASSUME IInv, NEW r \in Requests, Claim(r)
  PROVE  AnchorStep /\ Promise!Claim(KeyOf[r])
<1> DEFINE k == KeyOf[r]
<1> USE CheckoutConstants DEF CheckoutConstants, Claim, Goto, IInv
<1>1. k \in Keys /\ rowId[k] = None /\ rowStatus[k] = "pending" /\ rowLink[k] = NoLink
  BY DEF RowsOwned
<1>2. AnchorStep
  BY <1>1 DEF AnchorStep, TypeOK
<1>3. phaseOf[k] = "none" /\ issuedOf' = issuedOf
  BY <1>1 DEF phaseAt, phaseOf, issuedOf, providerVars
<1>4. phaseOf' = [phaseOf EXCEPT ![k] = "claimed"]
  <2>1. rowId'[k] # None /\ phaseOf'[k] = "claimed"
    BY <1>1 DEF phaseAt, phaseOf, TypeOK
  <2>2. \A j \in Keys \ {k} : phaseOf'[j] = phaseOf[j]
    BY <1>1 DEF phaseAt, phaseOf, TypeOK
  <2>3. QED
    BY <2>1, <2>2 DEF phaseAt, phaseOf
<1>5. QED
  BY <1>1, <1>2, <1>3, <1>4 DEF Promise!Claim, Promise!Move

LEMMA FailStep ==
  ASSUME IInv, NEW r \in Requests, NotConfigured(r) \/ PostRefused(r)
  PROVE  AnchorStep /\ Promise!Fail(KeyOf[r])
<1> DEFINE k == KeyOf[r]
<1> USE CheckoutConstants DEF CheckoutConstants, IInv
<1>1. /\ k \in Keys /\ rowId[k] = r /\ rowStatus[k] = "pending"
      /\ rowLink' = rowLink /\ rowId' = rowId /\ links' = links
      /\ rowStatus' = [rowStatus EXCEPT ![k] = "failed"]
  BY DEF NotConfigured, PostRefused, RecordFailed, Finish, Goto, PosterOwns, providerVars
<1>2. \A l \in links : KeyOf[l[1]] # k
  <2>1. SUFFICES ASSUME NEW l \in links, KeyOf[l[1]] = k
                 PROVE  FALSE
    OBVIOUS
  <2>2. l[1] \in Requests /\ posts[l[1]] = 1 /\ l = <<l[1], 1>>
    BY CallShape DEF CallsApart
  <2>3. l[1] = r
    BY <1>1, <2>1, <2>2 DEF PosterOwns
  <2>4. CASE NotConfigured(r)
    BY <2>2, <2>3, <2>4 DEF NotConfigured, RecordFailed, Finish, Goto, PosterOwns
  <2>5. CASE PostRefused(r)
    <3>1. answer[r] = <<r, 1>> /\ answer[r] \in refused
      BY <2>5 DEF PostRefused, RecordFailed, Finish, Goto, PosterOwns
    <3>2. QED
      BY <3>1, <2>2, <2>3 DEF CallsApart
  <2>6. QED
    BY <2>4, <2>5
<1>3. rowLink[k] = NoLink
  BY <1>1, <1>2 DEF BoundToItsOwnLink
<1>4. AnchorStep
  BY <1>1 DEF AnchorStep, TypeOK
<1>5. phaseOf[k] = "claimed" /\ ~issuedOf[k] /\ issuedOf' = issuedOf
  BY <1>1, <1>2, <1>3 DEF phaseAt, phaseOf, issuedOf
<1>6. phaseOf' = [phaseOf EXCEPT ![k] = "failed"]
  <2>1. rowId'[k] # None /\ phaseOf'[k] = "failed"
    BY <1>1 DEF phaseAt, phaseOf, TypeOK
  <2>2. \A j \in Keys \ {k} : phaseOf'[j] = phaseOf[j]
    BY <1>1 DEF phaseAt, phaseOf, TypeOK
  <2>3. QED
    BY <2>1, <2>2 DEF phaseAt, phaseOf
<1>7. QED
  BY <1>1, <1>4, <1>5, <1>6 DEF Promise!Fail, Promise!Move

(* Binding a second time stores the same link: the key is already bound.   *)
LEMMA BindStep ==
  ASSUME IInv, NEW r \in Requests, Bind(r)
  PROVE  AnchorStep /\ (Promise!Bind(KeyOf[r]) \/ UNCHANGED Promise!promiseVars)
<1> DEFINE k == KeyOf[r]
<1> USE CheckoutConstants DEF CheckoutConstants, IInv
<1>1. /\ k \in Keys /\ rowId' = rowId /\ rowStatus' = rowStatus /\ links' = links
      /\ rowLink' = [rowLink EXCEPT ![k] = answer[r]]
      /\ answer[r] \in links /\ answer[r][1] = rowId[k]
  BY DEF Bind, Finish, Goto, HeldIsTrue, providerVars
<1>2. rowId[k] \in Requests /\ rowId[k] # None /\ answer[r] = <<rowId[k], 1>>
  BY <1>1, CallShape
<1>3. rowLink[k] # NoLink => rowLink[k] = answer[r]
  BY <1>1, <1>2, CallShape DEF BoundToItsOwnLink
<1>4. rowStatus[k] # "failed" /\ KeyOf[answer[r][1]] = k
  BY <1>1, <1>2 DEF FailedIsFinal, RowsOwned
<1>5. answer[r] # NoLink
  BY <1>2 DEF NoLink
<1>6. AnchorStep
  BY <1>1, <1>3 DEF AnchorStep, TypeOK
<1>7. issuedOf' = issuedOf /\ issuedOf[k]
  BY <1>1, <1>4 DEF issuedOf
<1>8. phaseOf' = [phaseOf EXCEPT ![k] = "bound"]
  <2>1. rowId'[k] # None /\ phaseOf'[k] = "bound"
    BY <1>1, <1>2, <1>4, <1>5 DEF phaseAt, phaseOf, TypeOK
  <2>2. \A j \in Keys \ {k} : phaseOf'[j] = phaseOf[j]
    BY <1>1, <1>2, <1>4, <1>5 DEF phaseAt, phaseOf, TypeOK
  <2>3. QED
    BY <2>1, <2>2 DEF phaseAt, phaseOf
<1>9. CASE rowLink[k] = NoLink
  <2>1. phaseOf[k] = "claimed"
    BY <1>1, <1>2, <1>4, <1>9 DEF phaseAt, phaseOf
  <2>2. QED
    BY <2>1, <1>6, <1>7, <1>8 DEF Promise!Bind, Promise!Move
<1>10. CASE rowLink[k] # NoLink
  <2>1. rowLink' = rowLink
    BY <1>1, <1>3, <1>10 DEF TypeOK
  <2>2. QED
    BY <2>1, <1>1, <1>6, <1>7 DEF phaseAt, phaseOf, Promise!promiseVars
<1>11. QED
  BY <1>9, <1>10

(* A link is created only while its key is claimed and has none.           *)
LEMMA AcceptStep ==
  ASSUME IInv, NEW l \in wire, Accept(l)
  PROVE  AnchorStep /\ Promise!Issue(KeyOf[l[1]])
<1> DEFINE r == l[1]  k == KeyOf[l[1]]
<1> USE CheckoutConstants DEF CheckoutConstants, IInv
<1>1. /\ r \in Requests /\ k \in Keys /\ l = <<r, 1>> /\ l \notin links
      /\ rowId[k] = r /\ rowId[k] # None
      /\ UNCHANGED rowVars /\ links' = links \cup {l}
  BY CallShape DEF CallsApart, PosterOwns, Accept
<1>2. \A m \in links : KeyOf[m[1]] # k
  <2>1. SUFFICES ASSUME NEW m \in links, KeyOf[m[1]] = k
                 PROVE  FALSE
    OBVIOUS
  <2>2. m[1] \in Requests /\ m = <<m[1], 1>> /\ posts[m[1]] = 1
    BY CallShape DEF CallsApart
  <2>3. m[1] = r
    BY <1>1, <2>1, <2>2 DEF PosterOwns
  <2>4. QED
    BY <1>1, <2>2, <2>3
<1>3. rowStatus[k] # "failed"
  BY <1>1 DEF FailedIsFinal
<1>4. rowLink[k] = NoLink
  BY <1>1, <1>2 DEF BoundToItsOwnLink
<1>5. AnchorStep
  BY <1>1 DEF AnchorStep, rowVars
<1>6. phaseOf[k] = "claimed" /\ ~issuedOf[k] /\ phaseOf' = phaseOf
  BY <1>1, <1>2, <1>3, <1>4 DEF phaseAt, phaseOf, issuedOf, rowVars
<1>7. issuedOf' = [issuedOf EXCEPT ![k] = TRUE]
  BY <1>1 DEF issuedOf
<1>8. QED
  BY <1>1, <1>5, <1>6, <1>7 DEF Promise!Issue

(* The other steps of a request, the other answers of the provider and the *)
(* crashes leave the row's identifier, status and link alone.              *)
LEMMA QuietStep ==
  ASSUME UNCHANGED <<rowId, rowStatus, rowLink, links>>
  PROVE  AnchorStep /\ UNCHANGED Promise!promiseVars
BY DEF AnchorStep, phaseAt, phaseOf, issuedOf, Promise!promiseVars

LEMMA NextStep ==
  ASSUME IInv, [Next]_vars
  PROVE  AnchorStep /\ [Promise!PromiseNext]_(Promise!promiseVars)
<1>1. ASSUME NEW r \in Requests, Arrive(r) \/ Crash(r)
      PROVE  UNCHANGED <<rowId, rowStatus, rowLink, links>>
  BY <1>1 DEF Arrive, ArriveNew, ArriveKnown, Load, Crash, rowVars, providerVars
<1>2. ASSUME NEW r \in Requests, Proceed(r)
      PROVE  \/ Claim(r) \/ NotConfigured(r) \/ PostRefused(r) \/ Bind(r)
             \/ UNCHANGED <<rowId, rowStatus, rowLink, links>>
  BY <1>2 DEF Proceed, ClaimConflict, Load, Post, PostUnknown, PostAnswered, ReturnBound,
              ReturnFailed, LookupFound, LookupFails, rowVars, providerVars
<1>3. ASSUME NEW l \in wire, Provider(l)
      PROVE  Accept(l) \/ UNCHANGED <<rowId, rowStatus, rowLink, links>>
  BY <1>3 DEF Provider, Refuse, Lose, rowVars
<1>4. ASSUME NEW r \in Requests
      PROVE  KeyOf[r] \in Keys
  BY CheckoutConstants DEF CheckoutConstants
<1>5. CASE \E r \in Requests : Arrive(r) \/ Proceed(r) \/ Crash(r)
  BY <1>1, <1>2, <1>4, <1>5, InsertStep, FailStep, BindStep, QuietStep DEF Promise!PromiseNext
<1>6. CASE \E l \in wire : Provider(l)
  <2>1. ASSUME NEW l \in wire
        PROVE  l[1] \in Requests
    BY CallShape DEF IInv
  <2>2. QED
    BY <1>3, <1>4, <1>6, <2>1, AcceptStep, QuietStep DEF Promise!PromiseNext
<1>7. CASE UNCHANGED vars
  BY <1>7, QuietStep DEF vars, rowVars, providerVars
<1>8. QED
  BY <1>5, <1>6, <1>7 DEF Next

(* No step erases or replaces a row's identifier or link.                  *)
THEOREM AnchorNeverLost == Spec => AnchorKept
<1>1. IInv /\ [Next]_vars => [AnchorStep]_vars
  BY NextStep
<1>2. QED
  BY <1>1, Invariance, PTL DEF Spec, AnchorKept

(* create_checkout implements CheckoutPromise.                             *)
THEOREM PromiseKept == Spec => KeepsPromise
<1>1. Init => Promise!PromiseInit
  BY DEF Init, Promise!PromiseInit, phaseAt, phaseOf, issuedOf
<1>2. IInv /\ [Next]_vars => [Promise!PromiseNext]_(Promise!promiseVars)
  BY NextStep
<1>3. QED
  BY <1>1, <1>2, Invariance, PTL DEF Spec, KeepsPromise, Promise!PromiseSpec
================================================================================
