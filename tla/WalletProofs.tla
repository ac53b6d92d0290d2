---------------------------- MODULE WalletProofs ----------------------------
(***************************************************************************)
(* Wallet's safety for any number of requests, calls and credits.          *)
(***************************************************************************)
EXTENDS Wallet, Sums, FiniteSetTheorems, TLAPS

Pcs == {"idle", "find", "create", "recreate", "clearNew", "add", "cancel",
        "subscribe", "packageRow", "creditsRow", "move", "load", "save",
        "mark", "store", "write", "clear", "commit", "done", "rejected"}

LEMMA BegunType ==
  ASSUME TypeOK, NEW r \in Requests, NEW call \in CallNames, NEW pc \in Pcs
  PROVE  Begun(r, call, pc) \in RequestStates
<1>1. request[r] \in RequestStates
  BY DEF TypeOK
<1> QED
  BY <1>1 DEF RequestStates, Begun, Pcs

LEMMA GotoType ==
  ASSUME TypeOK, NEW r \in Requests, NEW pc \in Pcs, Goto(r, pc)
  PROVE  request' \in [Requests -> RequestStates]
<1>0. request[r] \in RequestStates
  BY DEF TypeOK
<1>1. [request[r] EXCEPT !.pc = pc] \in RequestStates
  BY <1>0 DEF RequestStates, Pcs
<1> QED
  BY <1>1 DEF TypeOK, Goto

LEMMA InitType == Init => TypeOK
<1> SUFFICES ASSUME Init PROVE TypeOK
  OBVIOUS
<1>1. \A r \in Requests : request[r] \in RequestStates
  BY DEF Init, RequestStates, CallNames
<1>2. wallet \in WalletStates
  BY DEF Init, WalletStates, NoWallet
<1>3. overtaken \subseteq Requests /\ suspect \in BOOLEAN /\ parted \subseteq Requests
  BY DEF Init
<1>4. cache \in SUBSET Int /\ \A c, d \in cache : c = d
  BY DEF Init
<1>5. /\ generation \in Nat /\ faults \in Nat /\ over \subseteq Requests
      /\ creditsRow \in [Requests -> RowStates] /\ packageRow \in [Requests -> RowStates]
      /\ sub \in [Requests -> {"none", "active", "canceled", "expired"}]
      /\ granted \in [Requests -> Nat] /\ taken \in [Requests -> Int]
  BY DEF Init, RowStates
<1>6. request \in [Requests -> RequestStates]
  BY <1>1 DEF Init
<1> QED
  BY <1>2, <1>3, <1>4, <1>5, <1>6 DEF TypeOK

LEMMA NewWalletType == NoWallet \in WalletStates /\ NewWallet \in WalletStates
<1>1. NoWallet \in WalletStates
  BY DEF NoWallet, WalletStates
<1>2. [NoWallet EXCEPT !.state = "live"] \in WalletStates
  BY <1>1 DEF WalletStates
<1> QED
  BY <1>1, <1>2 DEF NewWallet

LEMMA CallType == ASSUME NEW call \in Calls PROVE call \in CallNames
BY CallsAssumption

(* The marks of what a write leaves behind. *)
LEMMA FlagsType ==
  ASSUME TypeOK, NEW r \in Requests,
         \/ Step(r)
         \/ \E call \in Calls : FirstStep(r, call)
  PROVE  overtaken' \subseteq Requests /\ suspect' \in BOOLEAN /\ parted' \subseteq Requests
<1>0. /\ overtaken \subseteq Requests /\ suspect \in BOOLEAN /\ parted \subseteq Requests
      /\ request[r] \in RequestStates /\ request[r].target \in Requests
  BY DEF TypeOK, RequestStates
<1> DEFINE Flags == /\ overtaken' \subseteq Requests /\ suspect' \in BOOLEAN
                    /\ parted' \subseteq Requests
<1>1. Overtake => overtaken' \subseteq Requests
  BY <1>0 DEF Overtake
<1>2. UNCHANGED <<overtaken, suspect, parted>> => Flags
  BY <1>0
<1>3. Overtake /\ UNCHANGED <<suspect, parted>> => Flags
  BY <1>0, <1>1
<1>4. ASSUME NEW call \in Calls, FirstStep(r, call) PROVE Flags
  <2>1. ASSUME NEW t \in Requests, FindRow(r, call, t) PROVE Flags
    BY <1>0, <2>1 DEF FindRow
  <2>2. ASSUME NEW t \in Requests, RestoreRow(r, call, t) PROVE Flags
    BY <1>0, <2>2 DEF RestoreRow
  <2>3. ASSUME NEW t \in Requests, RevokeCredits(r, call, t) PROVE Flags
    BY <1>2, <2>3 DEF RevokeCredits
  <2>4. CASE RestoreWallet(r, call)
    BY <1>3, <2>4 DEF RestoreWallet
  <2>5. CASE FindWallet(r, call) \/ FindForMovement(r, call)
             \/ FindForUpdate(r, call) \/ ReadCache(r, call)
             \/ TransactionUpdate(r, call)
    BY <1>2, <2>5 DEF FindWallet, FindForMovement, FindForUpdate, ReadCache,
       TransactionUpdate
  <2> QED
    BY <1>4, <2>1, <2>2, <2>3, <2>4, <2>5 DEF FirstStep
<1>5. CASE Step(r)
  <2>1. CASE FindWalletAgain(r) \/ CancelSubscriptions(r) \/ Subscribe(r)
             \/ InsertPackageRow(r) \/ MarkRow(r) \/ ReadDatabase(r)
    BY <1>2, <2>1 DEF FindWalletAgain, CancelSubscriptions, Subscribe,
       InsertPackageRow, MarkRow, ReadDatabase
  <2>2. CASE CreateWallet(r) \/ AddCredits(r) \/ MoveCredits(r) \/ WriteWallet(r)
    BY <1>3, <2>2 DEF CreateWallet, AddCredits, MoveCredits, WriteWallet
  <2>3. CASE InsertCreditsRow(r) \/ StoreCache(r) \/ ClearCache(r)
    <3>1. UNCHANGED <<overtaken, parted>>
      BY <2>3 DEF InsertCreditsRow, StoreCache, ClearCache
    <3>2. \/ suspect' = suspect \/ suspect' = TRUE \/ suspect' = FALSE
      BY <1>0, <2>3 DEF InsertCreditsRow, StoreCache, ClearCache
    <3> QED
      BY <1>0, <3>1, <3>2
  <2>4. CASE LoadWallet(r)
    BY <1>0, <2>4 DEF LoadWallet
  <2>5. CASE SaveWallet(r)
    <3>1. parted' \subseteq Requests
      BY <1>0, <2>5 DEF SaveWallet
    <3> QED
      BY <1>0, <1>1, <2>5, <3>1 DEF SaveWallet
  <2>6. CASE TransactionCommit(r)
    <3>1. suspect' \in BOOLEAN /\ Overtake /\ UNCHANGED parted
      BY <1>0, <2>6 DEF TransactionCommit
    <3> QED
      BY <1>0, <1>1, <3>1
  <2>7. CASE RefundCommit(r)
    <3>1. /\ suspect' \in BOOLEAN /\ Overtake
          /\ parted' \in {parted, parted \cup {request[r].target}}
      BY <1>0, <2>7 DEF RefundCommit
    <3> QED
      BY <1>0, <1>1, <3>1
  <2> QED
    BY <1>5, <2>1, <2>2, <2>3, <2>4, <2>5, <2>6, <2>7 DEF Step
<1> QED
  BY <1>4, <1>5

(* The first step of a call. *)
LEMMA FirstStepType ==
  ASSUME TypeOK, NEW r \in Requests, NEW call \in Calls, FirstStep(r, call)
  PROVE  TypeOK'
<1>0. call \in CallNames
  BY CallType
<1>a. overtaken' \subseteq Requests /\ suspect' \in BOOLEAN /\ parted' \subseteq Requests
  BY FlagsType
<1>1. CASE FindWallet(r, call)
  <2>1. \A pc \in {"create", "done", "find", "add"} :
          Begun(r, call, pc) \in RequestStates
    BY <1>0, BegunType DEF Pcs
  <2>2. request' \in [Requests -> RequestStates]
    BY <1>1, <2>1 DEF FindWallet, TypeOK
  <2> QED
    BY <1>a, <1>1, <2>2 DEF FindWallet, TypeOK
<1>2. CASE FindForMovement(r, call)
  <2>1. \A pc \in {"move", "rejected"} : Begun(r, call, pc) \in RequestStates
    BY <1>0, BegunType DEF Pcs
  <2>2. wallet.credits \in Int /\ generation \in Nat
    BY DEF TypeOK, WalletStates
  <2>3. \A pc \in {"move", "rejected"} :
          [Begun(r, call, pc) EXCEPT !.gen = generation, !.seen = wallet.credits]
            \in RequestStates
    BY <2>1, <2>2 DEF RequestStates
  <2>4. request' \in [Requests -> RequestStates]
    BY <1>2, <2>3 DEF FindForMovement, TypeOK
  <2> QED
    BY <1>a, <1>2, <2>4 DEF FindForMovement, TypeOK
<1>3. CASE FindForUpdate(r, call)
  <2>1. \A pc \in {"write", "rejected"} : Begun(r, call, pc) \in RequestStates
    BY <1>0, BegunType DEF Pcs
  <2>2. \A pc \in {"write", "rejected"} :
          [Begun(r, call, pc) EXCEPT !.gen = generation] \in RequestStates
    BY <2>1 DEF RequestStates, TypeOK
  <2>3. request' \in [Requests -> RequestStates]
    BY <1>3, <2>2 DEF FindForUpdate, TypeOK
  <2> QED
    BY <1>a, <1>3, <2>3 DEF FindForUpdate, TypeOK
<1>4. CASE RestoreWallet(r, call)
  <2>1. \A pc \in {"clear", "rejected"} : Begun(r, call, pc) \in RequestStates
    BY <1>0, BegunType DEF Pcs
  <2>2. request' \in [Requests -> RequestStates]
    BY <1>4, <2>1 DEF RestoreWallet, TypeOK
  <2>3. wallet' \in WalletStates
    BY <1>4 DEF RestoreWallet, TypeOK, WalletStates
  <2> QED
    BY <1>a, <1>4, <2>2, <2>3 DEF RestoreWallet, TypeOK
<1>5. CASE ReadCache(r, call)
  <2>1. \A pc \in {"done", "load"} : Begun(r, call, pc) \in RequestStates
    BY <1>0, BegunType DEF Pcs
  <2>2. request' \in [Requests -> RequestStates]
    BY <1>5, <2>1 DEF ReadCache, TypeOK
  <2> QED
    BY <1>a, <1>5, <2>2 DEF ReadCache, TypeOK
<1>6. CASE TransactionUpdate(r, call)
  <2>1. \A pc \in {"clear", "rejected"} : Begun(r, call, pc) \in RequestStates
    BY <1>0, BegunType DEF Pcs
  <2>2. \A pc \in {"clear", "rejected"} :
          [Begun(r, call, pc) EXCEPT !.subs = {q \in Requests : sub[q] = "active"}]
            \in RequestStates
    BY <2>1 DEF RequestStates
  <2>3. request' \in [Requests -> RequestStates]
    BY <1>6, <2>2 DEF TransactionUpdate, TypeOK
  <2> QED
    BY <1>a, <1>6, <2>3 DEF TransactionUpdate, TypeOK
<1>7. CASE \E t \in Requests : FindRow(r, call, t)
  <2> PICK t \in Requests : FindRow(r, call, t)
    BY <1>7
  <2>1. \A pc \in {"load", "rejected"} : Begun(r, call, pc) \in RequestStates
    BY <1>0, BegunType DEF Pcs
  <2>2. \A pc \in {"load", "rejected"} :
          [Begun(r, call, pc) EXCEPT !.target = t] \in RequestStates
    BY <2>1 DEF RequestStates
  <2>3. request' \in [Requests -> RequestStates]
    BY <2>2 DEF FindRow, TypeOK
  <2> QED
    BY <1>a, <2>3 DEF FindRow, TypeOK
<1>8. CASE \E t \in Requests : RestoreRow(r, call, t)
  <2> PICK t \in Requests : RestoreRow(r, call, t)
    BY <1>8
  <2>1. /\ Begun(r, call, "load") \in RequestStates
        /\ Begun(r, call, "rejected") \in RequestStates
    BY <1>0, BegunType DEF Pcs
  <2>2. [Begun(r, call, "load") EXCEPT !.target = t] \in RequestStates
    BY <2>1 DEF RequestStates
  <2>3. request' \in [Requests -> RequestStates]
    BY <2>1, <2>2 DEF RestoreRow, TypeOK
  <2>4. packageRow' \in [Requests -> RowStates]
    BY DEF RestoreRow, TypeOK, RowStates
  <2> QED
    BY <1>a, <2>3, <2>4 DEF RestoreRow, TypeOK
<1>9. CASE \E t \in Requests : RevokeCredits(r, call, t)
  <2> PICK t \in Requests : RevokeCredits(r, call, t)
    BY <1>9
  <2>1. \A pc \in {"commit", "rejected"} : Begun(r, call, pc) \in RequestStates
    BY <1>0, BegunType DEF Pcs
  <2>2. Live \in BOOLEAN
    BY DEF Live
  <2>3. \A pc \in {"commit", "rejected"} :
          [Begun(r, call, pc) EXCEPT !.target = t, !.updated = Live] \in RequestStates
    BY <2>1, <2>2 DEF RequestStates
  <2>4. request' \in [Requests -> RequestStates]
    BY <2>3 DEF RevokeCredits, TypeOK
  <2> QED
    BY <1>a, <2>4 DEF RevokeCredits, TypeOK
<1> QED
  BY <1>1, <1>2, <1>3, <1>4, <1>5, <1>6, <1>7, <1>8, <1>9 DEF FirstStep

(* A step of a grant or of a movement. *)
LEMMA GrantStepType ==
  ASSUME TypeOK, NEW r \in Requests,
         \/ FindWalletAgain(r) \/ CreateWallet(r) \/ AddCredits(r)
         \/ CancelSubscriptions(r) \/ Subscribe(r)
         \/ InsertPackageRow(r) \/ InsertCreditsRow(r) \/ MoveCredits(r)
  PROVE  TypeOK'
<1>0. request[r] \in RequestStates /\ request[r].call \in CallNames
  BY DEF TypeOK, RequestStates
<1>a. overtaken' \subseteq Requests /\ suspect' \in BOOLEAN /\ parted' \subseteq Requests
  BY FlagsType DEF Step
<1>1. CASE FindWalletAgain(r)
  <2>1. request' \in [Requests -> RequestStates]
    BY <1>1, GotoType DEF FindWalletAgain, Pcs
  <2> QED
    BY <1>a, <1>1, <2>1 DEF FindWalletAgain, TypeOK
<1>2. CASE CreateWallet(r)
  <2>1. [request[r] EXCEPT !.pc = "clearNew",
                           !.updated = request[r].pc = "recreate"] \in RequestStates
    BY <1>0 DEF RequestStates
  <2>2. request' \in [Requests -> RequestStates]
    <3>1. CASE Goto(r, "rejected")
      BY <3>1, GotoType DEF Pcs
    <3>2. CASE request' = [request EXCEPT ![r].pc = "clearNew",
                             ![r].updated = request[r].pc = "recreate"]
      BY <2>1, <3>2 DEF TypeOK
    <3> QED
      BY <1>2, <3>1, <3>2 DEF CreateWallet
  <2>3. wallet' \in WalletStates /\ generation' \in Nat
    BY <1>2, NewWalletType DEF CreateWallet, TypeOK
  <2> QED
    BY <1>a, <1>2, <2>2, <2>3 DEF CreateWallet, TypeOK
<1>3. CASE AddCredits(r)
  <2> DEFINE matched == /\ Live
                        /\ request[r].call = "giveInitialCredits" => InitialCreditsFilter
                        /\ request[r].call = "giveInitialPackage" => InitialPackageFilter
             pc == IF request[r].call \in Assigns THEN "cancel"
                   ELSE IF matched THEN "clear" ELSE "rejected"
  <2>1. [request[r] EXCEPT !.updated = matched, !.pc = pc] \in RequestStates
    <3>1. pc \in Pcs
      BY DEF Pcs
    <3>2. matched \in BOOLEAN
      BY DEF Live, InitialCreditsFilter, InitialPackageFilter, TypeOK, WalletStates
    <3> HIDE DEF pc, matched
    <3> QED
      BY <1>0, <3>1, <3>2 DEF RequestStates, Pcs
  <2>2. request' = [request EXCEPT ![r] = [request[r] EXCEPT !.updated = matched, !.pc = pc]]
    BY <1>0, <1>3 DEF AddCredits, TypeOK
  <2>3. request' \in [Requests -> RequestStates]
    BY <2>1, <2>2 DEF TypeOK
  <2>4. wallet' \in WalletStates
    <3>1. Credits[request[r].call] \in Nat
      BY <1>0, CallsAssumption
    <3>2. wallet \in WalletStates
      BY DEF TypeOK
    <3> DEFINE n == Incremented(wallet.credits, Credits[request[r].call])
               a == wallet.initial_credits_given \/ request[r].call = "giveInitialCredits"
               b == wallet.initial_package_given \/ request[r].call = "giveInitialPackage"
    <3>3. /\ n \in Int
          /\ a \in BOOLEAN
          /\ b \in BOOLEAN
      BY <3>1, <3>2 DEF WalletStates, Incremented
    <3>4. \/ wallet' = wallet
          \/ wallet' = [wallet EXCEPT !.credits = n, !.initial_credits_given = a,
                                      !.initial_package_given = b]
      BY <1>3, <3>2 DEF AddCredits, WalletStates
    <3> HIDE DEF n, a, b
    <3> QED
      BY <3>2, <3>3, <3>4 DEF WalletStates
  <2>5. granted' \in [Requests -> Nat]
    BY <1>3 DEF AddCredits, TypeOK
  <2> QED
    BY <1>a, <1>3, <2>3, <2>4, <2>5 DEF AddCredits, TypeOK
<1>4. CASE CancelSubscriptions(r)
  <2>1. request' \in [Requests -> RequestStates]
    BY <1>4, GotoType DEF CancelSubscriptions, Pcs
  <2> QED
    BY <1>a, <1>4, <2>1 DEF CancelSubscriptions, TypeOK, Superseded
<1>5. CASE Subscribe(r)
  <2>1. request' \in [Requests -> RequestStates]
    BY <1>5, GotoType DEF Subscribe, Pcs
  <2> QED
    BY <1>a, <1>5, <2>1 DEF Subscribe, TypeOK
<1>6. CASE InsertPackageRow(r)
  <2>1. request' \in [Requests -> RequestStates]
    BY <1>6, GotoType DEF InsertPackageRow, Pcs
  <2> QED
    BY <1>a, <1>6, <2>1 DEF InsertPackageRow, TypeOK, RowStates
<1>7. CASE InsertCreditsRow(r)
  <2>1. \E pc \in {"clear", "done", "rejected"} : Goto(r, pc)
    BY <1>7 DEF InsertCreditsRow
  <2>2. request' \in [Requests -> RequestStates]
    BY <2>1, GotoType DEF Pcs
  <2>3. creditsRow' \in [Requests -> RowStates] /\ faults' \in Nat
    BY <1>7 DEF InsertCreditsRow, TypeOK, RowStates
  <2> QED
    BY <1>a, <1>7, <2>2, <2>3 DEF InsertCreditsRow, TypeOK
<1>8. CASE MoveCredits(r)
  <2>1. request' \in [Requests -> RequestStates]
    BY <1>8, GotoType DEF MoveCredits, Pcs
  <2>2. Credits[request[r].call] \in Nat
    BY <1>0, CallsAssumption
  <2>3. wallet' \in WalletStates /\ granted' \in [Requests -> Nat]
    BY <1>8, <2>2 DEF MoveCredits, TypeOK, WalletStates, Incremented
  <2> QED
    BY <1>a, <1>8, <2>1, <2>3 DEF MoveCredits, TypeOK
<1> QED
  BY <1>1, <1>2, <1>3, <1>4, <1>5, <1>6, <1>7, <1>8

(* A step on a package row, on the wallet's document or on the cache. *)
LEMMA RowStepType ==
  ASSUME TypeOK, NEW r \in Requests,
         \/ LoadWallet(r) \/ SaveWallet(r) \/ MarkRow(r) \/ WriteWallet(r)
         \/ ReadDatabase(r) \/ StoreCache(r) \/ ClearCache(r)
  PROVE  TypeOK'
<1>0. /\ request[r] \in RequestStates /\ request[r].call \in CallNames
      /\ request[r].target \in Requests /\ request[r].seen \in Int
      /\ wallet \in WalletStates /\ wallet.credits \in Int /\ generation \in Nat
  BY DEF TypeOK, RequestStates, WalletStates
<1>a. overtaken' \subseteq Requests /\ suspect' \in BOOLEAN /\ parted' \subseteq Requests
  BY FlagsType DEF Step
<1>1. CASE LoadWallet(r)
  <2>1. \A pc \in {"save", "mark", "done"} :
          [request[r] EXCEPT !.seen = wallet.credits, !.gen = generation,
                             !.pc = pc] \in RequestStates
    BY <1>0 DEF RequestStates
  <2>2. request' \in [Requests -> RequestStates]
    BY <1>1, <2>1 DEF LoadWallet, TypeOK
  <2> QED
    BY <1>a, <1>1, <2>2 DEF LoadWallet, TypeOK
<1>2. CASE SaveWallet(r)
  <2>1. request' \in [Requests -> RequestStates]
    BY <1>2, GotoType DEF SaveWallet, Pcs
  <2>2. Credits[request[request[r].target].call] \in Nat
    BY <1>0, CallsAssumption DEF TypeOK, RequestStates
  <2>3. SavedCredits(r) \in Int
    BY <1>0, <2>2 DEF SavedCredits
  <2>4. \A n \in Int : [wallet EXCEPT !.credits = n] \in WalletStates
    BY <1>0 DEF WalletStates
  <2>5. wallet' \in WalletStates
    BY <1>0, <1>2, <2>3, <2>4 DEF SaveWallet
  <2>6. taken' \in [Requests -> Int]
    BY <1>2 DEF SaveWallet, TypeOK
  <2> QED
    BY <1>a, <1>2, <2>1, <2>5, <2>6 DEF SaveWallet, TypeOK
<1>3. CASE MarkRow(r)
  <2>1. request' \in [Requests -> RequestStates]
    BY <1>3, GotoType DEF MarkRow, Pcs
  <2>2. packageRow' \in [Requests -> RowStates]
    BY <1>3 DEF MarkRow, TypeOK, RowStates
  <2> QED
    BY <1>a, <1>3, <2>1, <2>2 DEF MarkRow, TypeOK
<1>4. CASE WriteWallet(r)
  <2>1. \E pc \in {"done", "clear"} : Goto(r, pc)
    BY <1>4 DEF WriteWallet
  <2>2. request' \in [Requests -> RequestStates]
    BY <2>1, GotoType DEF Pcs
  <2>3. Credits[request[r].call] \in Int
    BY <1>0, CallsAssumption
  <2>4. /\ \A n \in Int : [wallet EXCEPT !.credits = n] \in WalletStates
        /\ [wallet EXCEPT !.state = "deleted"] \in WalletStates
    BY <1>0 DEF WalletStates
  <2>5. wallet' \in WalletStates
    BY <1>0, <1>4, <2>3, <2>4, NewWalletType DEF WriteWallet
  <2> QED
    BY <1>a, <1>4, <2>2, <2>5 DEF WriteWallet, TypeOK
<1>5. CASE ReadDatabase(r)
  <2>1. \A pc \in {"store", "done"} :
          [request[r] EXCEPT !.seen = wallet.credits, !.pc = pc] \in RequestStates
    BY <1>0 DEF RequestStates
  <2>2. request' \in [Requests -> RequestStates]
    BY <1>5, <2>1 DEF ReadDatabase, TypeOK
  <2> QED
    BY <1>a, <1>5, <2>2 DEF ReadDatabase, TypeOK
<1>6. CASE StoreCache(r)
  <2>1. request' \in [Requests -> RequestStates]
    BY <1>6, GotoType DEF StoreCache, Pcs
  <2> QED
    BY <1>a, <1>0, <1>6, <2>1 DEF StoreCache, TypeOK, Stored
<1>7. CASE ClearCache(r)
  <2>1. AfterClear(request[r]) \in Pcs
    BY DEF AfterClear, Pcs
  <2>2. request' \in [Requests -> RequestStates]
    BY <1>7, <2>1, GotoType DEF ClearCache
  <2> QED
    BY <1>a, <1>7, <2>2 DEF ClearCache, TypeOK, Invalidated
<1> QED
  BY <1>1, <1>2, <1>3, <1>4, <1>5, <1>6, <1>7

(* A step of a transaction, of the clock or of the nightly job. *)
LEMMA OtherStepType ==
  ASSUME TypeOK,
         \/ \E r \in Requests :
              TransactionCommit(r) \/ RefundCommit(r) \/ PeriodEnds(r)
         \/ ExpireSubscriptions
  PROVE  TypeOK'
<1>1. ASSUME NEW r \in Requests, TransactionCommit(r) PROVE TypeOK'
  <2> DEFINE base == IF Live THEN wallet ELSE NewWallet
             n == IF request[r].call = "settle" THEN Credits[request[r].call]
                  ELSE -Credits[request[r].call]
  <2>1. request' \in [Requests -> RequestStates]
    BY <1>1, GotoType DEF TransactionCommit, Pcs
  <2>2. request[r].call \in CallNames
    BY DEF TypeOK, RequestStates
  <2>3. n \in Int
    BY <2>2, CallsAssumption
  <2>4. base \in WalletStates
    BY NewWalletType DEF TypeOK
  <2>5. wallet' = [base EXCEPT !.credits = base.credits + n]
    BY <1>1, <2>4 DEF TransactionCommit, Incremented, WalletStates
  <2>6. base.credits \in Int
    BY <2>4 DEF WalletStates
  <2>7. wallet' \in WalletStates
    <3> HIDE DEF n, base
    <3> QED
      BY <2>3, <2>4, <2>5, <2>6 DEF WalletStates
  <2>8. generation' \in Nat /\ granted' \in [Requests -> Nat]
    BY <1>1 DEF TransactionCommit, TypeOK
  <2>9. creditsRow' \in [Requests -> RowStates] /\ packageRow' \in [Requests -> RowStates]
    BY <1>1 DEF TransactionCommit, TypeOK, RowStates
  <2>10. sub' \in [Requests -> {"none", "active", "canceled", "expired"}]
    BY <1>1 DEF TransactionCommit, TypeOK
  <2> QED
    BY <1>1, <2>1, <2>7, <2>8, <2>9, <2>10, FlagsType DEF TransactionCommit, TypeOK, Step
<1>2. ASSUME NEW r \in Requests, RefundCommit(r) PROVE TypeOK'
  <2>0. /\ wallet \in WalletStates /\ wallet.credits \in Int /\ "settle" \in CallNames
        /\ request[r] \in RequestStates /\ request[r].target \in Requests
    BY DEF TypeOK, WalletStates, RequestStates, CallNames, Transactions
  <2>1. request' \in [Requests -> RequestStates]
    BY <1>2, GotoType DEF RefundCommit, Pcs
  <2>2. -Credits["settle"] \in Int
    BY <2>0, CallsAssumption
  <2>3. wallet' \in WalletStates
    BY <1>2, <2>0, <2>2 DEF RefundCommit, Incremented, WalletStates
  <2>4. granted' \in [Requests -> Nat] /\ taken' \in [Requests -> Int]
    BY <1>2 DEF RefundCommit, TypeOK
  <2> QED
    BY <1>2, <2>1, <2>3, <2>4, FlagsType DEF RefundCommit, TypeOK, Step
<1>3. ASSUME NEW r \in Requests, PeriodEnds(r) PROVE TypeOK'
  BY <1>3 DEF PeriodEnds, TypeOK
<1>4. ASSUME ExpireSubscriptions PROVE TypeOK'
  BY <1>4 DEF ExpireSubscriptions, TypeOK
<1> QED
  BY <1>1, <1>2, <1>3, <1>4

LEMMA StutterType == ASSUME TypeOK, UNCHANGED vars PROVE TypeOK'
BY DEF vars, TypeOK

LEMMA NextType == ASSUME TypeOK, [Next]_vars PROVE TypeOK'
<1>1. ASSUME NEW r \in Requests, Step(r) PROVE TypeOK'
  BY <1>1, GrantStepType, RowStepType, OtherStepType DEF Step
<1>2. ASSUME NEW r \in Requests, NEW call \in Calls, FirstStep(r, call) PROVE TypeOK'
  BY <1>2, FirstStepType
<1>3. ASSUME NEW r \in Requests, PeriodEnds(r) PROVE TypeOK'
  BY <1>3, OtherStepType
<1>4. CASE ExpireSubscriptions
  BY <1>4, OtherStepType
<1> QED
  BY <1>1, <1>2, <1>3, <1>4, StutterType DEF Next

(* The account and every request keep their types, whatever the number of  *)
(* requests: the inductive part every other result rests on.               *)
THEOREM TypeCorrect == Spec => []TypeOK
<1>1. Init => TypeOK
  BY InitType
<1>2. TypeOK /\ [Next]_vars => TypeOK'
  BY NextType
<1> QED
  BY <1>1, <1>2, PTL DEF Spec

-----------------------------------------------------------------------------
(* Initial credits and the initial package are given once. *)

(* The flag of a wallet is set once its credits were given, and stays set  *)
(* as long as that document exists; a document made later has a later      *)
(* generation than any grant.                                              *)
Flagged(call, flag) ==
  \A r \in Requests :
    /\ wallet.state # "none" /\ request[r].call = call
    /\ granted[r] = generation /\ granted[r] # 0
    => flag

StepCalls ==
  \A r \in Requests :
    /\ request[r].pc = "move" => request[r].call \in Movements
    /\ request[r].pc = "commit" => request[r].call \in Transactions
    /\ request[r].pc = "idle" => granted[r] = 0 /\ request[r].call = "getUserWallet"
    /\ granted[r] <= generation

GivenInv ==
  /\ StepCalls
  /\ Flagged("giveInitialCredits", wallet.initial_credits_given)
  /\ Flagged("giveInitialPackage", wallet.initial_package_given)
  /\ InitialCreditsOnce
  /\ InitialPackageOnce

(* What one request's step does to GivenInv when it grants nothing and     *)
(* makes no document.                                                      *)
LEMMA UngrantedStep ==
  ASSUME TypeOK, GivenInv, NEW r \in Requests,
         \A q \in Requests \ {r} : request'[q] = request[q],
         request[r].pc = "idle" \/ request'[r].call = request[r].call,
         request'[r].pc # "idle",
         request'[r].pc = "move" => request'[r].call \in Movements,
         request'[r].pc = "commit" => request'[r].call \in Transactions,
         generation' = generation, granted' = granted,
         wallet'.state # "none" =>
           /\ wallet.state # "none"
           /\ wallet'.initial_credits_given = wallet.initial_credits_given
           /\ wallet'.initial_package_given = wallet.initial_package_given
  PROVE  GivenInv'
<1>1. \A q \in Requests :
        granted[q] # 0 => request'[q].call = request[q].call
  BY DEF GivenInv, StepCalls
<1>2. StepCalls'
  BY DEF GivenInv, StepCalls
<1>3. /\ Flagged("giveInitialCredits", wallet.initial_credits_given)'
      /\ Flagged("giveInitialPackage", wallet.initial_package_given)'
  BY <1>1 DEF GivenInv, Flagged
<1>4. InitialCreditsOnce' /\ InitialPackageOnce'
  BY <1>1 DEF GivenInv, InitialCreditsOnce, InitialPackageOnce, GivenOnce, TypeOK
<1> QED
  BY <1>2, <1>3, <1>4 DEF GivenInv

(* A call begins with granted = 0, so taking a name gives nothing twice.   *)
LEMMA BegunStep ==
  ASSUME TypeOK, NEW r \in Requests, NEW call \in Calls, NEW pc \in Pcs
  PROVE  /\ Begun(r, call, pc).call = call
         /\ Begun(r, call, pc).pc = pc
         /\ \A n \in Nat, m \in Int :
              LET b == [Begun(r, call, pc) EXCEPT !.gen = n, !.seen = m]
              IN b.call = call /\ b.pc = pc
         /\ \A n \in Nat :
              LET b == [Begun(r, call, pc) EXCEPT !.gen = n]
              IN b.call = call /\ b.pc = pc
         /\ \A t \in Requests :
              LET b == [Begun(r, call, pc) EXCEPT !.target = t]
              IN b.call = call /\ b.pc = pc
         /\ \A S \in SUBSET Requests :
              LET b == [Begun(r, call, pc) EXCEPT !.subs = S]
              IN b.call = call /\ b.pc = pc
         /\ \A t \in Requests, u \in BOOLEAN :
              LET b == [Begun(r, call, pc) EXCEPT !.target = t, !.updated = u]
              IN b.call = call /\ b.pc = pc
<1>1. Begun(r, call, pc) \in RequestStates
  BY CallType, BegunType
<1>2. request[r] \in RequestStates
  BY DEF TypeOK
<1>3. Begun(r, call, pc).call = call /\ Begun(r, call, pc).pc = pc
  BY <1>2 DEF Begun, RequestStates
<1> QED
  BY <1>1, <1>3 DEF RequestStates

LEMMA GotoStep ==
  ASSUME TypeOK, NEW r \in Requests, NEW pc, Goto(r, pc)
  PROVE  /\ \A q \in Requests \ {r} : request'[q] = request[q]
         /\ request'[r].call = request[r].call
         /\ request'[r].pc = pc
<1>1. request[r] \in RequestStates
  BY DEF TypeOK
<1> QED
  BY <1>1 DEF Goto, TypeOK, RequestStates

LEMMA LiveType == Live \in BOOLEAN
BY DEF Live

(* Which calls a first step is of. *)
LEMMA FirstCases ==
  ASSUME NEW r \in Requests, NEW call \in Calls, FirstStep(r, call)
  PROVE  /\ Start(r, call)
         /\ UNCHANGED <<generation, cache, creditsRow, granted, taken, suspect,
                        faults>>
<1>1. CASE FindWallet(r, call) \/ FindForMovement(r, call) \/ FindForUpdate(r, call)
  BY <1>1 DEF FindWallet, FindForMovement, FindForUpdate
<1>2. CASE RestoreWallet(r, call) \/ ReadCache(r, call) \/ TransactionUpdate(r, call)
  BY <1>2 DEF RestoreWallet, ReadCache, TransactionUpdate
<1>3. ASSUME NEW t \in Requests,
             FindRow(r, call, t) \/ RestoreRow(r, call, t) \/ RevokeCredits(r, call, t)
      PROVE  /\ Start(r, call)
             /\ UNCHANGED <<generation, cache, creditsRow, granted, taken, suspect,
                            faults>>
  BY <1>3 DEF FindRow, RestoreRow, RevokeCredits
<1> QED
  BY <1>1, <1>2, <1>3 DEF FirstStep

LEMMA FirstStepGiven ==
  ASSUME TypeOK, GivenInv, NEW r \in Requests, NEW call \in Calls,
         FirstStep(r, call)
  PROVE  GivenInv'
<1>0. request[r].pc = "idle" /\ wallet.credits \in Int /\ generation \in Nat
  BY FirstCases DEF Start, TypeOK, WalletStates
<1>1. CASE FindWallet(r, call)
  <2>1. PICK pc \in {"create", "done", "find", "add"} :
          request' = [request EXCEPT ![r] = Begun(r, call, pc)]
    BY <1>1 DEF FindWallet
  <2>2. request'[r].pc = pc
    BY <2>1, BegunStep DEF Pcs, TypeOK
  <2> QED
    BY <1>0, <1>1, <2>1, <2>2, UngrantedStep DEF FindWallet, TypeOK
<1>2. CASE FindForMovement(r, call)
  <2>1. PICK pc \in {"move", "rejected"} :
          request' = [request EXCEPT ![r] = [Begun(r, call, pc)
            EXCEPT !.gen = generation, !.seen = wallet.credits]]
    BY <1>2 DEF FindForMovement
  <2>2. request'[r].pc = pc /\ request'[r].call = call
    BY <1>0, <2>1, BegunStep DEF Pcs, TypeOK
  <2>3. call \in Movements
    BY <1>2 DEF FindForMovement
  <2> QED
    BY <1>0, <1>2, <2>1, <2>2, <2>3, UngrantedStep DEF FindForMovement, TypeOK
<1>3. CASE FindForUpdate(r, call)
  <2>1. PICK pc \in {"write", "rejected"} :
          request' = [request EXCEPT ![r] = [Begun(r, call, pc)
            EXCEPT !.gen = generation]]
    BY <1>3 DEF FindForUpdate
  <2>2. request'[r].pc = pc
    BY <1>0, <2>1, BegunStep DEF Pcs, TypeOK
  <2> QED
    BY <1>0, <1>3, <2>1, <2>2, UngrantedStep DEF FindForUpdate, TypeOK
<1>4. CASE RestoreWallet(r, call)
  <2>1. PICK pc \in {"clear", "rejected"} :
          request' = [request EXCEPT ![r] = Begun(r, call, pc)]
    BY <1>4 DEF RestoreWallet
  <2>2. request'[r].pc = pc
    BY <2>1, BegunStep DEF Pcs, TypeOK
  <2>3. /\ wallet'.state # "none" => wallet.state # "none"
        /\ wallet'.initial_credits_given = wallet.initial_credits_given
        /\ wallet'.initial_package_given = wallet.initial_package_given
    BY <1>4 DEF RestoreWallet, TypeOK, WalletStates
  <2> QED
    BY <1>0, <1>4, <2>1, <2>2, <2>3, UngrantedStep DEF RestoreWallet, TypeOK
<1>5. CASE ReadCache(r, call)
  <2>1. PICK pc \in {"done", "load"} :
          request' = [request EXCEPT ![r] = Begun(r, call, pc)]
    BY <1>5 DEF ReadCache
  <2>2. request'[r].pc = pc
    BY <2>1, BegunStep DEF Pcs, TypeOK
  <2> QED
    BY <1>0, <1>5, <2>1, <2>2, UngrantedStep DEF ReadCache, TypeOK
<1>6. CASE TransactionUpdate(r, call)
  <2> DEFINE subs == {q \in Requests : sub[q] = "active"}
  <2>1. PICK pc \in {"clear", "rejected"} :
          request' = [request EXCEPT ![r] = [Begun(r, call, pc)
            EXCEPT !.subs = subs]]
    BY <1>6 DEF TransactionUpdate
  <2>2. request'[r].pc = pc
    <3>1. subs \in SUBSET Requests
      OBVIOUS
    <3> HIDE DEF subs
    <3> QED
      BY <2>1, <3>1, BegunStep DEF Pcs, TypeOK
  <2> QED
    BY <1>0, <1>6, <2>1, <2>2, UngrantedStep DEF TransactionUpdate, TypeOK
<1>7. ASSUME NEW t \in Requests, FindRow(r, call, t) PROVE GivenInv'
  <2>1. PICK pc \in {"load", "rejected"} :
          request' = [request EXCEPT ![r] = [Begun(r, call, pc)
            EXCEPT !.target = t]]
    BY <1>7 DEF FindRow
  <2>2. request'[r].pc = pc
    BY <2>1, BegunStep DEF Pcs, TypeOK
  <2> QED
    BY <1>0, <1>7, <2>1, <2>2, UngrantedStep DEF FindRow, TypeOK
<1>8. ASSUME NEW t \in Requests, RestoreRow(r, call, t) PROVE GivenInv'
  <2>1. \/ request' = [request EXCEPT ![r] =
             [Begun(r, call, "load") EXCEPT !.target = t]]
        \/ request' = [request EXCEPT ![r] = Begun(r, call, "rejected")]
    BY <1>8 DEF RestoreRow
  <2>2. request'[r].pc \in {"load", "rejected"}
    <3>1. CASE request' = [request EXCEPT ![r] =
                 [Begun(r, call, "load") EXCEPT !.target = t]]
      BY <3>1, BegunStep DEF Pcs, TypeOK
    <3>2. CASE request' = [request EXCEPT ![r] = Begun(r, call, "rejected")]
      BY <3>2, BegunStep DEF Pcs, TypeOK
    <3> QED
      BY <2>1, <3>1, <3>2
  <2> QED
    BY <1>0, <1>8, <2>1, <2>2, UngrantedStep DEF RestoreRow, TypeOK
<1>9. ASSUME NEW t \in Requests, RevokeCredits(r, call, t) PROVE GivenInv'
  <2>1. PICK pc \in {"commit", "rejected"} :
          request' = [request EXCEPT ![r] = [Begun(r, call, pc)
            EXCEPT !.target = t, !.updated = Live]]
    BY <1>9 DEF RevokeCredits
  <2>2. request'[r].pc = pc /\ request'[r].call = call
    <3> DEFINE b == [Begun(r, call, pc) EXCEPT !.target = t, !.updated = Live]
    <3>1. b.call = call /\ b.pc = pc
      BY LiveType, BegunStep DEF Pcs
    <3>2. request' = [request EXCEPT ![r] = b]
      BY <2>1
    <3> HIDE DEF b
    <3> QED
      BY <3>1, <3>2 DEF TypeOK
  <2>3. call \in Transactions
    BY <1>9 DEF RevokeCredits, Transactions
  <2> QED
    BY <1>0, <1>9, <2>1, <2>2, <2>3, UngrantedStep DEF RevokeCredits, TypeOK
<1> QED
  BY <1>1, <1>2, <1>3, <1>4, <1>5, <1>6, <1>7, <1>8, <1>9 DEF FirstStep

(* The steps that move no credits of a call. *)
LEMMA StepUngranted ==
  ASSUME TypeOK, GivenInv, NEW r \in Requests,
         \/ FindWalletAgain(r) \/ CancelSubscriptions(r) \/ Subscribe(r)
         \/ InsertPackageRow(r) \/ InsertCreditsRow(r)
         \/ LoadWallet(r) \/ SaveWallet(r) \/ MarkRow(r) \/ WriteWallet(r)
         \/ ReadDatabase(r) \/ StoreCache(r) \/ ClearCache(r)
  PROVE  GivenInv'
<1> USE DEF TypeOK
<1>0. request[r] \in RequestStates /\ wallet \in WalletStates
  OBVIOUS
<1>1. CASE FindWalletAgain(r)
  BY <1>1, GotoStep, UngrantedStep DEF FindWalletAgain
<1>2. CASE CancelSubscriptions(r)
  BY <1>2, GotoStep, UngrantedStep DEF CancelSubscriptions
<1>3. CASE Subscribe(r)
  BY <1>3, GotoStep, UngrantedStep DEF Subscribe
<1>4. CASE InsertPackageRow(r)
  BY <1>4, GotoStep, UngrantedStep DEF InsertPackageRow
<1>5. CASE InsertCreditsRow(r)
  <2>1. PICK pc \in {"clear", "done", "rejected"} : Goto(r, pc)
    BY <1>5 DEF InsertCreditsRow
  <2> QED
    BY <1>5, <2>1, GotoStep, UngrantedStep DEF InsertCreditsRow
<1>6. CASE LoadWallet(r)
  <2>1. PICK pc \in {"save", "mark", "done"} :
          request' = [request EXCEPT ![r].seen = wallet.credits,
                        ![r].gen = generation, ![r].pc = pc]
    BY <1>6 DEF LoadWallet
  <2>2. request'[r].pc = pc /\ request'[r].call = request[r].call
    BY <1>0, <2>1 DEF RequestStates
  <2> QED
    BY <1>6, <2>1, <2>2, UngrantedStep DEF LoadWallet
<1>7. CASE SaveWallet(r)
  <2>1. PICK pc \in {"clear", "rejected"} : Goto(r, pc)
    BY <1>7 DEF SaveWallet
  <2>2. /\ wallet'.state # "none" => wallet.state # "none"
        /\ wallet'.initial_credits_given = wallet.initial_credits_given
        /\ wallet'.initial_package_given = wallet.initial_package_given
    BY <1>0, <1>7 DEF SaveWallet, WalletStates
  <2> QED
    BY <1>7, <2>1, <2>2, GotoStep, UngrantedStep DEF SaveWallet
<1>8. CASE MarkRow(r)
  BY <1>8, GotoStep, UngrantedStep DEF MarkRow
<1>9. CASE WriteWallet(r)
  <2>1. PICK pc \in {"clear", "done"} : Goto(r, pc)
    BY <1>9 DEF WriteWallet
  <2>2. wallet'.state # "none" =>
          /\ wallet.state # "none"
          /\ wallet'.initial_credits_given = wallet.initial_credits_given
          /\ wallet'.initial_package_given = wallet.initial_package_given
    BY <1>0, <1>9 DEF WriteWallet, WalletStates, NoWallet, Live
  <2> QED
    BY <1>9, <2>1, <2>2, GotoStep, UngrantedStep DEF WriteWallet
<1>10. CASE ReadDatabase(r)
  <2>1. PICK pc \in {"store", "done"} :
          request' = [request EXCEPT ![r].seen = wallet.credits, ![r].pc = pc]
    BY <1>10 DEF ReadDatabase
  <2>2. request'[r].pc = pc /\ request'[r].call = request[r].call
    BY <1>0, <2>1 DEF RequestStates
  <2> QED
    BY <1>10, <2>1, <2>2, UngrantedStep DEF ReadDatabase
<1>11. CASE StoreCache(r)
  BY <1>11, GotoStep, UngrantedStep DEF StoreCache
<1>12. CASE ClearCache(r)
  <2>1. /\ AfterClear(request[r]) \notin {"idle", "move"}
        /\ AfterClear(request[r]) = "commit" => request[r].call \in Transactions
    BY DEF AfterClear
  <2> QED
    BY <1>12, <2>1, GotoStep, UngrantedStep DEF ClearCache
<1> QED
  BY <1>1, <1>2, <1>3, <1>4, <1>5, <1>6, <1>7, <1>8, <1>9, <1>10, <1>11, <1>12

(* A new document has a generation of its own: nothing was given to it.    *)
LEMMA CreateGiven ==
  ASSUME TypeOK, GivenInv, NEW r \in Requests, CreateWallet(r)
  PROVE  GivenInv'
<1>0. request[r] \in RequestStates
  BY DEF TypeOK
<1>1. CASE Goto(r, "rejected") /\ UNCHANGED <<wallet, generation>>
  BY <1>1, GotoStep, UngrantedStep DEF CreateWallet
<1>2. CASE /\ generation' = generation + 1
           /\ request' = [request EXCEPT ![r].pc = "clearNew",
                            ![r].updated = request[r].pc = "recreate"]
  <2>1. /\ \A q \in Requests \ {r} : request'[q] = request[q]
        /\ request'[r].call = request[r].call /\ request'[r].pc = "clearNew"
    BY <1>0, <1>2 DEF TypeOK, RequestStates
  <2>2. granted' = granted
    BY DEF CreateWallet
  <2>3. \A q \in Requests : granted[q] <= generation /\ granted[q] # generation'
    BY <1>2 DEF GivenInv, StepCalls, TypeOK
  <2>4. StepCalls'
    BY <1>2, <2>1, <2>2, <2>3 DEF GivenInv, StepCalls, TypeOK
  <2>5. /\ Flagged("giveInitialCredits", wallet.initial_credits_given)'
        /\ Flagged("giveInitialPackage", wallet.initial_package_given)'
    BY <2>2, <2>3 DEF Flagged
  <2>6. InitialCreditsOnce' /\ InitialPackageOnce'
    BY <2>1, <2>2 DEF GivenInv, InitialCreditsOnce, InitialPackageOnce, GivenOnce
  <2> QED
    BY <2>4, <2>5, <2>6 DEF GivenInv
<1> QED
  BY <1>1, <1>2 DEF CreateWallet

(* The update's filter: a wallet whose flag is set is not matched again. *)
LEMMA AddGiven ==
  ASSUME TypeOK, GivenInv, NEW r \in Requests, AddCredits(r)
  PROVE  GivenInv'
<1> DEFINE pc == IF request[r].call \in Assigns THEN "cancel"
                 ELSE IF /\ Live
                         /\ request[r].call = "giveInitialCredits"
                              => InitialCreditsFilter
                         /\ request[r].call = "giveInitialPackage"
                              => InitialPackageFilter
                 THEN "clear" ELSE "rejected"
<1>0. request[r] \in RequestStates /\ wallet \in WalletStates
  BY DEF TypeOK
<1>1. /\ \A q \in Requests \ {r} : request'[q] = request[q]
      /\ request'[r].call = request[r].call /\ request'[r].pc = pc
      /\ generation' = generation
  BY <1>0 DEF AddCredits, TypeOK, RequestStates
<1>2. pc \in {"cancel", "clear", "rejected"}
  OBVIOUS
<1> HIDE DEF pc
<1>3. CASE UNCHANGED <<wallet, granted>>
  BY <1>1, <1>2, <1>3, UngrantedStep
<1>4. CASE ~UNCHANGED <<wallet, granted>>
  <2>1. /\ Live
        /\ request[r].call = "giveInitialCredits" => ~wallet.initial_credits_given
        /\ request[r].call = "giveInitialPackage" => ~wallet.initial_package_given
        /\ granted' = [granted EXCEPT ![r] = generation]
    BY <1>4 DEF AddCredits, InitialCreditsFilter, InitialPackageFilter
  <2>2. /\ wallet'.state = "live"
        /\ wallet'.initial_credits_given = (wallet.initial_credits_given
             \/ request[r].call = "giveInitialCredits")
        /\ wallet'.initial_package_given = (wallet.initial_package_given
             \/ request[r].call = "giveInitialPackage")
    <3>1. wallet' = [wallet EXCEPT
               !.credits = Incremented(wallet.credits, Credits[request[r].call]),
               !.initial_credits_given = wallet.initial_credits_given
                 \/ request[r].call = "giveInitialCredits",
               !.initial_package_given = wallet.initial_package_given
                 \/ request[r].call = "giveInitialPackage"]
      BY <1>0, <1>4 DEF AddCredits, WalletStates
    <3> QED
      BY <1>0, <2>1, <3>1 DEF WalletStates, Live
  <2>3. \A q \in Requests \ {r} : granted'[q] = granted[q]
    BY <2>1 DEF TypeOK
  <2>4. granted'[r] = generation /\ \A q \in Requests : granted[q] <= generation
    BY <2>1 DEF TypeOK, GivenInv, StepCalls
  <2>5. generation \in Nat
    BY DEF TypeOK
  <2>6. StepCalls'
    BY <1>1, <1>2, <2>3, <2>4, <2>5 DEF GivenInv, StepCalls
  <2>7. Flagged("giveInitialCredits", wallet.initial_credits_given)'
    BY <1>1, <2>1, <2>2, <2>3 DEF GivenInv, Flagged, Live
  <2>8. Flagged("giveInitialPackage", wallet.initial_package_given)'
    BY <1>1, <2>1, <2>2, <2>3 DEF GivenInv, Flagged, Live
  <2>9. InitialCreditsOnce'
    <3>1. \A q \in Requests \ {r} :
            /\ request[r].call = "giveInitialCredits"
            /\ request[q].call = "giveInitialCredits"
            => granted[q] = 0 \/ granted[q] # generation
      BY <2>1 DEF GivenInv, Flagged, Live
    <3> QED
      BY <1>1, <2>3, <2>4, <3>1 DEF GivenInv, InitialCreditsOnce, GivenOnce
  <2>10. InitialPackageOnce'
    <3>1. \A q \in Requests \ {r} :
            /\ request[r].call = "giveInitialPackage"
            /\ request[q].call = "giveInitialPackage"
            => granted[q] = 0 \/ granted[q] # generation
      BY <2>1 DEF GivenInv, Flagged, Live
    <3> QED
      BY <1>1, <2>3, <2>4, <3>1 DEF GivenInv, InitialPackageOnce, GivenOnce
  <2> QED
    BY <2>6, <2>7, <2>8, <2>9, <2>10 DEF GivenInv
<1> QED
  BY <1>3, <1>4

(* Credits moved by another call than the two that give initial ones, on   *)
(* the same document or on a new one.                                      *)
LEMMA OtherGrant ==
  ASSUME TypeOK, GivenInv, NEW r \in Requests, NEW g \in {generation, generation + 1},
         \A q \in Requests \ {r} : request'[q] = request[q],
         request'[r].call = request[r].call,
         request'[r].pc \notin {"idle", "move", "commit"},
         request[r].call \in Movements \cup Transactions,
         generation' = g, granted' = [granted EXCEPT ![r] = g],
         g = generation =>
           /\ wallet'.state # "none" => wallet.state # "none"
           /\ wallet'.initial_credits_given = wallet.initial_credits_given
           /\ wallet'.initial_package_given = wallet.initial_package_given
  PROVE  GivenInv'
<1>1. request[r].call \notin {"giveInitialCredits", "giveInitialPackage"}
  BY DEF Movements, Transactions
<1>2. /\ \A q \in Requests \ {r} : granted'[q] = granted[q]
      /\ granted'[r] = g
  BY DEF TypeOK
<1>3. generation \in Nat /\ \A q \in Requests : granted[q] \in Nat /\ granted[q] <= generation
  BY DEF TypeOK, GivenInv, StepCalls
<1>4. StepCalls'
  BY <1>2, <1>3 DEF GivenInv, StepCalls
<1>5. g # generation => \A q \in Requests \ {r} : granted'[q] # generation'
  BY <1>2, <1>3
<1>6. Flagged("giveInitialCredits", wallet.initial_credits_given)'
  BY <1>1, <1>2, <1>5 DEF GivenInv, Flagged
<1>7. Flagged("giveInitialPackage", wallet.initial_package_given)'
  BY <1>1, <1>2, <1>5 DEF GivenInv, Flagged
<1>8. InitialCreditsOnce' /\ InitialPackageOnce'
  BY <1>1, <1>2 DEF GivenInv, InitialCreditsOnce, InitialPackageOnce, GivenOnce
<1> QED
  BY <1>4, <1>6, <1>7, <1>8 DEF GivenInv

LEMMA MoveGiven ==
  ASSUME TypeOK, GivenInv, NEW r \in Requests, MoveCredits(r)
  PROVE  GivenInv'
<1>0. wallet \in WalletStates /\ request[r].call \in Movements
  BY DEF TypeOK, MoveCredits, GivenInv, StepCalls
<1>1. CASE UNCHANGED <<wallet, granted>>
  BY <1>1, GotoStep, UngrantedStep DEF MoveCredits
<1>2. CASE ~UNCHANGED <<wallet, granted>>
  <2>1. /\ wallet'.state = wallet.state
        /\ wallet'.initial_credits_given = wallet.initial_credits_given
        /\ wallet'.initial_package_given = wallet.initial_package_given
    BY <1>0, <1>2 DEF MoveCredits, WalletStates
  <2>2. granted' = [granted EXCEPT ![r] = generation] /\ generation' = generation
    BY <1>2 DEF MoveCredits
  <2>3. Goto(r, "creditsRow")
    BY DEF MoveCredits
  <2>4. /\ \A q \in Requests \ {r} : request'[q] = request[q]
        /\ request'[r].call = request[r].call
        /\ request'[r].pc = "creditsRow"
    BY <2>3, GotoStep
  <2> DEFINE g == generation
  <2>5. g \in {generation, generation + 1}
    OBVIOUS
  <2>6. generation' = g /\ granted' = [granted EXCEPT ![r] = g]
    BY <2>2
  <2> HIDE DEF g
  <2> QED
    BY <1>0, <2>1, <2>4, <2>5, <2>6, OtherGrant
<1> QED
  BY <1>1, <1>2

LEMMA CommitGiven ==
  ASSUME TypeOK, GivenInv, NEW r \in Requests, TransactionCommit(r)
  PROVE  GivenInv'
<1> DEFINE g == IF Live THEN generation ELSE generation + 1
           base == IF Live THEN wallet ELSE NewWallet
           n == IF request[r].call = "settle" THEN Credits[request[r].call]
                ELSE -Credits[request[r].call]
<1>0. base \in WalletStates /\ request[r].call \in Transactions
  BY NewWalletType DEF TypeOK, TransactionCommit, GivenInv, StepCalls
<1>1. /\ generation' = g /\ granted' = [granted EXCEPT ![r] = g]
      /\ Goto(r, "done")
  BY DEF TransactionCommit
<1>2. wallet' = [base EXCEPT !.credits = Incremented(base.credits, n)]
  BY <1>0 DEF TransactionCommit, WalletStates
<1>3. /\ wallet'.initial_credits_given = base.initial_credits_given
      /\ wallet'.initial_package_given = base.initial_package_given
  <2> HIDE DEF base, n
  <2> QED
    BY <1>0, <1>2 DEF WalletStates
<1>4. g = generation => Live /\ base = wallet
  BY DEF TypeOK
<1>5. g \in {generation, generation + 1}
  OBVIOUS
<1>6. /\ \A q \in Requests \ {r} : request'[q] = request[q]
      /\ request'[r].call = request[r].call
      /\ request'[r].pc = "done"
  BY <1>1, GotoStep
<1>7. g = generation =>
        /\ wallet'.state # "none" => wallet.state # "none"
        /\ wallet'.initial_credits_given = wallet.initial_credits_given
        /\ wallet'.initial_package_given = wallet.initial_package_given
  BY <1>3, <1>4 DEF Live
<1> HIDE DEF base, g, n
<1> QED
  BY <1>0, <1>1, <1>5, <1>6, <1>7, OtherGrant

LEMMA RefundGiven ==
  ASSUME TypeOK, GivenInv, NEW r \in Requests, RefundCommit(r)
  PROVE  GivenInv'
<1>0. wallet \in WalletStates /\ request[r].call \in Transactions
  BY DEF TypeOK, RefundCommit, Transactions
<1>1. /\ \A q \in Requests \ {r} : request'[q] = request[q]
      /\ request'[r].call = request[r].call
      /\ request'[r].pc = "done"
      /\ generation' = generation
  BY GotoStep DEF RefundCommit
<1>2. CASE ~request[r].updated
  <2>1. UNCHANGED <<wallet, granted>>
    BY <1>2 DEF RefundCommit
  <2> QED
    BY <1>1, <2>1, UngrantedStep
<1>3. CASE request[r].updated
  <2> DEFINE g == generation
  <2>1. /\ wallet'.state = wallet.state
        /\ wallet'.initial_credits_given = wallet.initial_credits_given
        /\ wallet'.initial_package_given = wallet.initial_package_given
    BY <1>0, <1>3 DEF RefundCommit, WalletStates
  <2>2. generation' = g /\ granted' = [granted EXCEPT ![r] = g]
    BY <1>1, <1>3 DEF RefundCommit
  <2>3. g \in {generation, generation + 1}
    OBVIOUS
  <2> HIDE DEF g
  <2> QED
    BY <1>0, <1>1, <2>1, <2>2, <2>3, OtherGrant
<1> QED
  BY <1>2, <1>3

LEMMA NextGiven ==
  ASSUME TypeOK, GivenInv, [Next]_vars
  PROVE  GivenInv'
<1>1. ASSUME NEW r \in Requests, Step(r) PROVE GivenInv'
  BY <1>1, StepUngranted, CreateGiven, AddGiven, MoveGiven, CommitGiven,
     RefundGiven DEF Step
<1>2. ASSUME NEW r \in Requests, NEW call \in Calls, FirstStep(r, call)
      PROVE  GivenInv'
  BY <1>2, FirstStepGiven
<1>3. ASSUME UNCHANGED <<wallet, generation, granted, request>> PROVE GivenInv'
  BY <1>3 DEF GivenInv, StepCalls, Flagged, InitialCreditsOnce,
              InitialPackageOnce, GivenOnce
<1>4. ASSUME NEW r \in Requests, PeriodEnds(r) PROVE GivenInv'
  BY <1>3, <1>4 DEF PeriodEnds
<1>5. CASE ExpireSubscriptions
  BY <1>3, <1>5 DEF ExpireSubscriptions
<1>6. CASE UNCHANGED vars
  BY <1>3, <1>6 DEF vars
<1> QED
  BY <1>1, <1>2, <1>4, <1>5, <1>6 DEF Next

LEMMA GivenAlways == Spec => []GivenInv
<1>1. Init => GivenInv
  BY DEF Init, NoWallet, GivenInv, StepCalls, Flagged, InitialCreditsOnce,
         InitialPackageOnce, GivenOnce
<1>2. TypeOK /\ GivenInv /\ [Next]_vars => GivenInv'
  BY NextGiven
<1> QED
  BY <1>1, <1>2, TypeCorrect, PTL DEF Spec

(* A wallet is given initial credits, and the initial package, at most     *)
(* once, however many requests for them are under way and however its      *)
(* document is deleted and restored meanwhile (giveInitialCredits,         *)
(* assignPackage with is_initial).                                         *)
THEOREM GrantedOnce == Spec => []GrantsOnce
<1>1. GivenInv => GrantsOnce
  BY DEF GivenInv, GrantsOnce
<1> QED
  BY <1>1, GivenAlways, PTL

-----------------------------------------------------------------------------
(* What a step of a request leaves alone. *)

(* A step is one request's: it was under way, what it asked for does not   *)
(* change, and the others stay where they are.                             *)
LEMMA StepFacts ==
  ASSUME TypeOK, NEW r \in Requests, Step(r)
  PROVE  /\ r \in UnderWay
         /\ \A q \in Requests \ {r} :
              request'[q] = request[q] /\ granted'[q] = granted[q]
         /\ request'[r].call = request[r].call
         /\ request'[r].target = request[r].target
         /\ request'[r].pc # "idle"
<1> DEFINE Facts == /\ \A q \in Requests \ {r} :
                         request'[q] = request[q] /\ granted'[q] = granted[q]
                    /\ request'[r].call = request[r].call
                    /\ request'[r].target = request[r].target
                    /\ request'[r].pc # "idle"
<1>0. request[r] \in RequestStates
  BY DEF TypeOK
<1>1. r \in UnderWay
  BY DEF Step, FindWalletAgain, CreateWallet, AddCredits, CancelSubscriptions,
         Subscribe, InsertPackageRow, InsertCreditsRow, MoveCredits, LoadWallet,
         SaveWallet, MarkRow, WriteWallet, ReadDatabase, StoreCache, ClearCache,
         TransactionCommit, RefundCommit, UnderWay, Finished
<1>2. ASSUME NEW pc, pc # "idle", Goto(r, pc),
             \A q \in Requests \ {r} : granted'[q] = granted[q]
      PROVE  Facts
  BY <1>0, <1>2 DEF Goto, TypeOK, RequestStates
<1>3. CASE FindWalletAgain(r)
  <2>1. PICK pc \in {"add", "recreate"} : Goto(r, pc)
    BY <1>3 DEF FindWalletAgain
  <2> QED
    BY <1>1, <1>2, <1>3, <2>1 DEF FindWalletAgain
<1>4. CASE CreateWallet(r)
  <2>1. CASE Goto(r, "rejected")
    BY <1>1, <1>2, <1>4, <2>1 DEF CreateWallet
  <2>2. CASE request' = [request EXCEPT ![r].pc = "clearNew",
                           ![r].updated = request[r].pc = "recreate"]
    <3>1. granted' = granted
      BY <1>4 DEF CreateWallet
    <3> QED
      BY <1>0, <1>1, <2>2, <3>1 DEF TypeOK, RequestStates
  <2> QED
    BY <1>4, <2>1, <2>2 DEF CreateWallet
<1>5. CASE AddCredits(r)
  <2>1. \A q \in Requests \ {r} : granted'[q] = granted[q]
    BY <1>5 DEF AddCredits, TypeOK
  <2>2. PICK b \in {TRUE, FALSE}, pc \in {"cancel", "clear", "rejected"} :
          request' = [request EXCEPT ![r].updated = b, ![r].pc = pc]
    <3> DEFINE b == /\ Live
                    /\ request[r].call = "giveInitialCredits" => InitialCreditsFilter
                    /\ request[r].call = "giveInitialPackage" => InitialPackageFilter
               pc == IF request[r].call \in Assigns THEN "cancel"
                     ELSE IF b THEN "clear" ELSE "rejected"
    <3>1. request' = [request EXCEPT ![r].updated = b, ![r].pc = pc]
      BY <1>5 DEF AddCredits
    <3>2. pc \in {"cancel", "clear", "rejected"}
      OBVIOUS
    <3>3. b \in {TRUE, FALSE}
      BY DEF Live, InitialCreditsFilter, InitialPackageFilter, TypeOK, WalletStates
    <3> HIDE DEF b, pc
    <3> QED
      BY <3>1, <3>2, <3>3
  <2> QED
    BY <1>0, <1>1, <2>1, <2>2 DEF TypeOK, RequestStates
<1>6. CASE CancelSubscriptions(r)
  BY <1>1, <1>2, <1>6 DEF CancelSubscriptions
<1>7. CASE Subscribe(r)
  <2>1. PICK pc \in {"clear", "rejected"} : Goto(r, pc)
    BY <1>7 DEF Subscribe
  <2> QED
    BY <1>1, <1>2, <1>7, <2>1 DEF Subscribe
<1>8. CASE InsertPackageRow(r)
  BY <1>1, <1>2, <1>8 DEF InsertPackageRow
<1>9. CASE InsertCreditsRow(r)
  <2>1. PICK pc \in {"clear", "done", "rejected"} : Goto(r, pc)
    BY <1>9 DEF InsertCreditsRow
  <2> QED
    BY <1>1, <1>2, <1>9, <2>1 DEF InsertCreditsRow
<1>10. CASE MoveCredits(r)
  <2>1. \A q \in Requests \ {r} : granted'[q] = granted[q]
    BY <1>10 DEF MoveCredits, TypeOK
  <2> QED
    BY <1>1, <1>2, <1>10, <2>1 DEF MoveCredits
<1>11. CASE LoadWallet(r)
  <2>1. PICK pc \in {"save", "mark", "done"} :
          request' = [request EXCEPT ![r].seen = wallet.credits,
                        ![r].gen = generation, ![r].pc = pc]
    BY <1>11 DEF LoadWallet
  <2>2. granted' = granted
    BY <1>11 DEF LoadWallet
  <2> QED
    BY <1>0, <1>1, <2>1, <2>2 DEF TypeOK, RequestStates
<1>12. CASE SaveWallet(r)
  <2>1. PICK pc \in {"clear", "rejected"} : Goto(r, pc)
    BY <1>12 DEF SaveWallet
  <2> QED
    BY <1>1, <1>2, <1>12, <2>1 DEF SaveWallet
<1>13. CASE MarkRow(r)
  BY <1>1, <1>2, <1>13 DEF MarkRow
<1>14. CASE WriteWallet(r)
  <2>1. PICK pc \in {"clear", "done"} : Goto(r, pc)
    BY <1>14 DEF WriteWallet
  <2> QED
    BY <1>1, <1>2, <1>14, <2>1 DEF WriteWallet
<1>15. CASE ReadDatabase(r)
  <2>1. PICK pc \in {"store", "done"} :
          request' = [request EXCEPT ![r].seen = wallet.credits, ![r].pc = pc]
    BY <1>15 DEF ReadDatabase
  <2>2. granted' = granted
    BY <1>15 DEF ReadDatabase
  <2> QED
    BY <1>0, <1>1, <2>1, <2>2 DEF TypeOK, RequestStates
<1>16. CASE StoreCache(r)
  BY <1>1, <1>2, <1>16 DEF StoreCache
<1>17. CASE ClearCache(r)
  <2>1. AfterClear(request[r]) # "idle"
    BY DEF AfterClear
  <2> QED
    BY <1>1, <1>2, <1>17, <2>1 DEF ClearCache
<1>18. CASE TransactionCommit(r)
  <2>1. Goto(r, "done")
    BY <1>18 DEF TransactionCommit
  <2>2. \A q \in Requests \ {r} : granted'[q] = granted[q]
    <3>1. PICK g : granted' = [granted EXCEPT ![r] = g]
      BY <1>18 DEF TransactionCommit
    <3> QED
      BY <3>1 DEF TypeOK
  <2> QED
    BY <1>1, <1>2, <2>1, <2>2
<1>19. CASE RefundCommit(r)
  <2>1. Goto(r, "done")
    BY <1>19 DEF RefundCommit
  <2>2. \A q \in Requests \ {r} : granted'[q] = granted[q]
    BY <1>19 DEF RefundCommit, TypeOK
  <2> QED
    BY <1>1, <1>2, <2>1, <2>2
<1> QED
  BY <1>3, <1>4, <1>5, <1>6, <1>7, <1>8, <1>9, <1>10, <1>11, <1>12, <1>13, <1>14,
     <1>15, <1>16, <1>17, <1>18, <1>19 DEF Step

(* A first step is that of an idle request, and touches only the wallet's  *)
(* state (restoreUserWallet) or a row (a restore).                         *)
LEMMA FirstFacts ==
  ASSUME TypeOK, NEW r \in Requests, NEW call \in Calls, FirstStep(r, call)
  PROVE  /\ Start(r, call)
         /\ \A q \in Requests \ {r} : request'[q] = request[q]
         /\ request'[r].call = call
         /\ request'[r].pc \notin {"idle", "store"}
         /\ request'[r].pc = "commit" => call = "refund"
         /\ UNCHANGED <<generation, cache, creditsRow, granted, taken, suspect, faults>>
<1> DEFINE Facts == /\ \A q \in Requests \ {r} : request'[q] = request[q]
                    /\ request'[r].call = call
                    /\ request'[r].pc \notin {"idle", "store"}
                    /\ request'[r].pc = "commit" => call = "refund"
<1>0. request[r] \in RequestStates
  BY DEF TypeOK
<1>1. /\ Start(r, call)
      /\ UNCHANGED <<generation, cache, creditsRow, granted, taken, suspect, faults>>
  BY FirstCases
<1>2. ASSUME NEW b, b.call = call, b.pc \notin {"idle", "store"},
             b.pc = "commit" => call = "refund",
             request' = [request EXCEPT ![r] = b]
      PROVE  Facts
  BY <1>2 DEF TypeOK
<1>3. ASSUME NEW pc \in Pcs \ {"idle", "commit", "store"},
             request' = [request EXCEPT ![r] =
               Begun(r, call, pc)]
      PROVE  Facts
  <2> DEFINE b == Begun(r, call, pc)
  <2>1. b.call = call /\ b.pc = pc
    BY <1>3, BegunStep
  <2>2. request' = [request EXCEPT ![r] = b]
    BY <1>3
  <2> HIDE DEF b, Facts
  <2> QED
    BY <1>2, <1>3, <2>1, <2>2
<1>4. ASSUME NEW pc \in Pcs \ {"idle", "commit", "store"}, NEW n \in Nat,
             request' = [request EXCEPT ![r] =
               [Begun(r, call, pc) EXCEPT !.gen = n]]
      PROVE  Facts
  <2> DEFINE b == [Begun(r, call, pc) EXCEPT !.gen = n]
  <2>1. b.call = call /\ b.pc = pc
    BY <1>4, BegunStep
  <2>2. request' = [request EXCEPT ![r] = b]
    BY <1>4
  <2> HIDE DEF b, Facts
  <2> QED
    BY <1>2, <1>4, <2>1, <2>2
<1>6. ASSUME NEW pc \in Pcs \ {"idle", "commit", "store"}, NEW t \in Requests,
             request' = [request EXCEPT ![r] =
               [Begun(r, call, pc) EXCEPT !.target = t]]
      PROVE  Facts
  <2> DEFINE b == [Begun(r, call, pc) EXCEPT !.target = t]
  <2>1. b.call = call /\ b.pc = pc
    BY <1>6, BegunStep
  <2>2. request' = [request EXCEPT ![r] = b]
    BY <1>6
  <2> HIDE DEF b, Facts
  <2> QED
    BY <1>2, <1>6, <2>1, <2>2
<1>7. ASSUME NEW pc \in Pcs \ {"idle", "commit", "store"}, NEW S \in SUBSET Requests,
             request' = [request EXCEPT ![r] =
               [Begun(r, call, pc) EXCEPT !.subs = S]]
      PROVE  Facts
  <2> DEFINE b == [Begun(r, call, pc) EXCEPT !.subs = S]
  <2>1. b.call = call /\ b.pc = pc
    BY <1>7, BegunStep
  <2>2. request' = [request EXCEPT ![r] = b]
    BY <1>7
  <2> HIDE DEF b, Facts
  <2> QED
    BY <1>2, <1>7, <2>1, <2>2
<1>8. Facts
  <2> HIDE DEF Facts
  <2>1. CASE FindWallet(r, call)
    <3>1. PICK pc \in {"create", "done", "find", "add"} :
            request' = [request EXCEPT ![r] = Begun(r, call, pc)]
      BY <2>1 DEF FindWallet
    <3> QED
      BY <1>3, <3>1 DEF Pcs
  <2>2. CASE FindForMovement(r, call)
    <3>1. PICK pc \in {"move", "rejected"} : request' = [request EXCEPT ![r] =
            [Begun(r, call, pc) EXCEPT !.gen = generation, !.seen = wallet.credits]]
      BY <2>2 DEF FindForMovement
    <3> DEFINE b == [Begun(r, call, pc)
                      EXCEPT !.gen = generation, !.seen = wallet.credits]
    <3>2. generation \in Nat /\ wallet.credits \in Int
      BY DEF TypeOK, WalletStates
    <3>3. b.call = call /\ b.pc = pc
      BY <3>2, BegunStep DEF Pcs
    <3>4. request' = [request EXCEPT ![r] = b]
      BY <3>1
    <3> HIDE DEF b
    <3> QED
      BY <1>2, <3>3, <3>4
  <2>3. CASE FindForUpdate(r, call)
    <3>1. PICK pc \in {"write", "rejected"} : request' = [request EXCEPT ![r] =
            [Begun(r, call, pc) EXCEPT !.gen = generation]]
      BY <2>3 DEF FindForUpdate
    <3>2. generation \in Nat
      BY DEF TypeOK
    <3> QED
      BY <1>4, <3>1, <3>2 DEF Pcs
  <2>4. CASE RestoreWallet(r, call)
    <3>1. PICK pc \in {"clear", "rejected"} :
            request' = [request EXCEPT ![r] = Begun(r, call, pc)]
      BY <2>4 DEF RestoreWallet
    <3> QED
      BY <1>3, <3>1 DEF Pcs
  <2>5. CASE ReadCache(r, call)
    <3>1. PICK pc \in {"done", "load"} :
            request' = [request EXCEPT ![r] = Begun(r, call, pc)]
      BY <2>5 DEF ReadCache
    <3> QED
      BY <1>3, <3>1 DEF Pcs
  <2>6. CASE TransactionUpdate(r, call)
    <3>1. PICK pc \in {"clear", "rejected"} : request' = [request EXCEPT ![r] =
            [Begun(r, call, pc) EXCEPT !.subs = {q \in Requests : sub[q] = "active"}]]
      BY <2>6 DEF TransactionUpdate
    <3>2. {q \in Requests : sub[q] = "active"} \in SUBSET Requests
      OBVIOUS
    <3> QED
      BY <1>7, <3>1, <3>2 DEF Pcs
  <2>7. ASSUME NEW t \in Requests, FindRow(r, call, t) PROVE Facts
    <3>1. PICK pc \in {"load", "rejected"} : request' = [request EXCEPT ![r] =
            [Begun(r, call, pc) EXCEPT !.target = t]]
      BY <2>7 DEF FindRow
    <3> QED
      BY <1>6, <3>1 DEF Pcs
  <2>8. ASSUME NEW t \in Requests, RestoreRow(r, call, t) PROVE Facts
    <3>1. \/ request' = [request EXCEPT ![r] =
               [Begun(r, call, "load") EXCEPT !.target = t]]
          \/ request' = [request EXCEPT ![r] = Begun(r, call, "rejected")]
      BY <2>8 DEF RestoreRow
    <3> QED
      BY <1>3, <1>6, <3>1 DEF Pcs
  <2>9. ASSUME NEW t \in Requests, RevokeCredits(r, call, t) PROVE Facts
    <3>1. PICK pc \in {"commit", "rejected"} :
            request' = [request EXCEPT ![r] =
              [Begun(r, call, pc) EXCEPT !.target = t, !.updated = Live]]
      BY <2>9 DEF RevokeCredits
    <3> DEFINE b == [Begun(r, call, pc) EXCEPT !.target = t, !.updated = Live]
    <3>2. b.call = call /\ b.pc = pc
      BY LiveType, BegunStep DEF Pcs
    <3>3. request' = [request EXCEPT ![r] = b] /\ call = "refund"
      BY <2>9, <3>1 DEF RevokeCredits
    <3> HIDE DEF b
    <3> QED
      BY <1>2, <3>2, <3>3
  <2> QED
    BY <2>1, <2>2, <2>3, <2>4, <2>5, <2>6, <2>7, <2>8, <2>9 DEF FirstStep
<1> QED
  BY <1>1, <1>8

-----------------------------------------------------------------------------
(* The cached wallet. *)

Fresh == \A c \in cache : Live /\ wallet.credits = c

(* A fill that no write overtook has read the wallet as it is. *)
FillsCurrent ==
  \A r \in Requests :
    request[r].pc = "store" /\ r \notin overtaken =>
      Live /\ request[r].seen = wallet.credits

CacheInv ==
  /\ wallet.state # "none" => generation # 0
  /\ \A r \in overtaken : request[r].pc \in {"store", "done"}
  /\ FillsCurrent
  /\ suspect \/ Clearing # {} \/ Fresh

(* What is left to show of a step of request r that reads no wallet for    *)
(* the cache: the document it makes has a generation, and the cache is     *)
(* fresh, or about to be cleared, or suspect.                              *)
LEMMA CacheStep ==
  ASSUME TypeOK, CacheInv, NEW r \in Requests,
         \A q \in Requests \ {r} :
           request'[q] = request[q] /\ granted'[q] = granted[q],
         (wallet.state # "none" => generation # 0)',
         request'[r].pc # "store",
         request[r].pc \in {"store", "done"} => request'[r].pc = "done",
         Overtake \/ UNCHANGED <<wallet, overtaken>>,
         \/ suspect' \/ r \in Clearing' \/ Fresh'
         \/ UNCHANGED <<wallet, cache, suspect>> /\ r \notin Clearing
  PROVE  CacheInv'
<1>1. overtaken' \subseteq overtaken \cup {q \in Requests : request[q].pc = "store"}
  BY DEF Overtake
<1>2. \A q \in overtaken' : request'[q].pc \in {"store", "done"}
  <2> SUFFICES ASSUME NEW q \in overtaken' PROVE request'[q].pc \in {"store", "done"}
    OBVIOUS
  <2>1. q \in Requests /\ request[q].pc \in {"store", "done"}
    BY <1>1 DEF CacheInv, TypeOK
  <2> QED
    BY <2>1
<1>3. FillsCurrent'
  <2> SUFFICES ASSUME NEW q \in Requests, request'[q].pc = "store", q \notin overtaken'
               PROVE  (Live /\ request[q].seen = wallet.credits)'
    BY DEF FillsCurrent
  <2>1. q # r /\ request'[q] = request[q] /\ request[q].pc = "store"
    OBVIOUS
  <2>2. wallet' = wallet /\ q \notin overtaken
    BY <2>1 DEF Overtake
  <2> QED
    BY <2>1, <2>2 DEF CacheInv, FillsCurrent, Live
<1>4. suspect' \/ Clearing' # {} \/ Fresh'
  <2>1. CASE \/ suspect' \/ r \in Clearing' \/ Fresh'
    BY <2>1
  <2>2. CASE UNCHANGED <<wallet, cache, suspect>> /\ r \notin Clearing
    <3>1. ASSUME NEW q \in Clearing PROVE q \in Clearing'
      <4>1. q \in Requests \ {r}
        BY <2>2, <3>1 DEF Clearing
      <4> QED
        BY <3>1, <4>1 DEF Clearing
    <3>2. Fresh => Fresh'
      BY <2>2 DEF Fresh, Live
    <3> QED
      BY <2>2, <3>1, <3>2 DEF CacheInv
  <2> QED
    BY <2>1, <2>2
<1> QED
  BY <1>2, <1>3, <1>4 DEF CacheInv

(* The first step leaves the wallet alone, but for restoreUserWallet.      *)
LEMMA FirstFresh ==
  ASSUME TypeOK, CacheInv, NEW r \in Requests, NEW call \in Calls,
         FirstStep(r, call)
  PROVE  CacheInv'
<1>0. /\ request[r].pc = "idle"
      /\ \A q \in Requests \ {r} :
           request'[q] = request[q] /\ granted'[q] = granted[q]
      /\ request'[r].pc # "store"
      /\ UNCHANGED <<generation, cache, granted, suspect>>
  BY FirstFacts DEF Start
<1>1. r \notin Clearing
  BY <1>0 DEF Clearing
<1>2. CASE UNCHANGED <<wallet, overtaken>>
  BY <1>0, <1>1, <1>2, CacheStep DEF CacheInv
<1>3. CASE RestoreWallet(r, call)
  <2>1. Overtake
    BY <1>3 DEF RestoreWallet
  <2>2. CASE wallet.state # "deleted"
    <3>1. UNCHANGED wallet
      BY <1>3, <2>2 DEF RestoreWallet
    <3> QED
      BY <1>0, <1>1, <2>1, <3>1, CacheStep DEF CacheInv
  <2>3. CASE wallet.state = "deleted"
    <3>1. request' = [request EXCEPT ![r] = Begun(r, call, "clear")]
      BY <1>3, <2>3 DEF RestoreWallet
    <3>2. request'[r].pc = "clear"
      BY <3>1, BegunStep DEF Pcs, TypeOK
    <3>3. r \in Clearing' /\ generation # 0
      BY <2>3, <3>2 DEF Clearing, CacheInv
    <3> QED
      BY <1>0, <2>1, <3>3, CacheStep
  <2> QED
    BY <2>2, <2>3
<1>4. CASE FindWallet(r, call) \/ FindForMovement(r, call) \/ FindForUpdate(r, call)
           \/ ReadCache(r, call) \/ TransactionUpdate(r, call)
  BY <1>2, <1>4 DEF FindWallet, FindForMovement, FindForUpdate, ReadCache,
     TransactionUpdate
<1>5. ASSUME NEW t \in Requests,
             FindRow(r, call, t) \/ RestoreRow(r, call, t) \/ RevokeCredits(r, call, t)
      PROVE  UNCHANGED <<wallet, overtaken>>
  BY <1>5 DEF FindRow, RestoreRow, RevokeCredits
<1> QED
  BY <1>2, <1>3, <1>4, <1>5 DEF FirstStep

(* The steps that leave the wallet and the cache alone. *)
LEMMA QuietFresh ==
  ASSUME TypeOK, CacheInv, NEW r \in Requests,
         \/ FindWalletAgain(r) \/ CancelSubscriptions(r) \/ Subscribe(r)
         \/ InsertPackageRow(r) \/ InsertCreditsRow(r)
         \/ LoadWallet(r) \/ MarkRow(r)
  PROVE  CacheInv'
<1>0. request[r] \in RequestStates
  BY DEF TypeOK
<1>1. UNCHANGED <<wallet, generation, cache, granted, overtaken>>
  BY DEF FindWalletAgain, CancelSubscriptions, Subscribe, InsertPackageRow,
         InsertCreditsRow, LoadWallet, MarkRow
<1>2. /\ \A q \in Requests \ {r} :
           request'[q] = request[q] /\ granted'[q] = granted[q]
      /\ request'[r].call = request[r].call
  BY <1>1, StepFacts DEF Step
<1>3. (wallet.state # "none" => generation # 0)'
  BY <1>1 DEF CacheInv
<1>4. ASSUME request[r].pc \notin {"store", "done"}, request'[r].pc # "store",
             \/ suspect' \/ r \in Clearing' \/ Fresh'
             \/ UNCHANGED suspect /\ r \notin Clearing
      PROVE  CacheInv'
  BY <1>1, <1>2, <1>3, <1>4, CacheStep
<1>5. CASE FindWalletAgain(r)
  <2>1. request[r].pc = "find" /\ request'[r].pc \in {"add", "recreate"} /\ UNCHANGED suspect
    BY <1>5, GotoStep DEF FindWalletAgain
  <2> QED
    BY <1>4, <2>1 DEF Clearing
<1>6. CASE CancelSubscriptions(r)
  <2>1. /\ request[r].pc = "cancel" /\ request'[r].pc = "subscribe"
        /\ request'[r].updated = request[r].updated /\ UNCHANGED suspect
    BY <1>0, <1>6 DEF CancelSubscriptions, Goto, TypeOK, RequestStates
  <2> QED
    BY <1>4, <2>1 DEF Clearing
<1>7. CASE Subscribe(r)
  <2>1. /\ request[r].pc = "subscribe" /\ UNCHANGED suspect
        /\ request'[r].pc = IF request[r].updated THEN "clear" ELSE "rejected"
    BY <1>7, GotoStep DEF Subscribe
  <2> QED
    BY <1>4, <2>1 DEF Clearing
<1>8. CASE InsertPackageRow(r)
  <2>1. /\ request[r].pc = "packageRow" /\ request'[r].pc = "creditsRow"
        /\ UNCHANGED suspect
    BY <1>8, GotoStep DEF InsertPackageRow
  <2> QED
    BY <1>4, <2>1 DEF Clearing
<1>9. CASE InsertCreditsRow(r)
  <2>0. request[r].pc = "creditsRow"
    BY <1>9 DEF InsertCreditsRow
  <2>1. CASE UNCHANGED suspect /\ request[r].call \in Movements /\ Goto(r, "clear")
    <3>1. request'[r].pc = "clear"
      BY <2>1, GotoStep
    <3> QED
      BY <1>4, <2>0, <3>1 DEF Clearing
  <2>2. CASE UNCHANGED suspect /\ request[r].call \notin Movements /\ Goto(r, "done")
    <3>1. request'[r].pc = "done" /\ r \notin Clearing
      BY <2>0, <2>2, GotoStep DEF Clearing
    <3> QED
      BY <1>4, <2>0, <2>2, <3>1
  <2>3. CASE /\ suspect' = (suspect \/ (request[r].call \in Movements /\ granted[r] # 0))
             /\ Goto(r, IF request[r].call \in Movements THEN "rejected" ELSE "done")
    <3>1. request'[r].pc \in {"rejected", "done"}
      BY <2>3, GotoStep
    <3>2. CASE request[r].call \in Movements /\ granted[r] # 0
      <4>1. suspect'
        BY <2>3, <3>2
      <4> QED
        BY <1>4, <2>0, <3>1, <4>1
    <3>3. CASE ~(request[r].call \in Movements /\ granted[r] # 0)
      <4>1. r \notin Clearing
        BY <2>0, <3>3 DEF Clearing
      <4>2. suspect' = suspect
        BY <2>3, <3>3 DEF TypeOK
      <4> QED
        BY <1>4, <2>0, <3>1, <4>1, <4>2
    <3> QED
      BY <3>2, <3>3
  <2> QED
    BY <1>9, <2>1, <2>2, <2>3 DEF InsertCreditsRow
<1>10. CASE LoadWallet(r)
  <2>1. PICK pc \in {"save", "mark", "done"} :
          request' = [request EXCEPT ![r].seen = wallet.credits,
                        ![r].gen = generation, ![r].pc = pc]
    BY <1>10 DEF LoadWallet
  <2>2. request'[r].pc = pc /\ request[r].pc = "load" /\ UNCHANGED suspect
    BY <1>0, <1>10, <2>1 DEF TypeOK, RequestStates, LoadWallet
  <2> QED
    BY <1>4, <2>2 DEF Clearing
<1>11. CASE MarkRow(r)
  <2>1. request[r].pc = "mark" /\ request'[r].pc = "done" /\ UNCHANGED suspect
    BY <1>11, GotoStep DEF MarkRow
  <2> QED
    BY <1>4, <2>1 DEF Clearing
<1> QED
  BY <1>5, <1>6, <1>7, <1>8, <1>9, <1>10, <1>11

(* A fill reads the wallet as it is. *)
LEMMA ReadFresh ==
  ASSUME TypeOK, CacheInv, NEW r \in Requests, ReadDatabase(r)
  PROVE  CacheInv'
<1>0. request[r] \in RequestStates /\ request[r].pc = "load"
  BY DEF TypeOK, ReadDatabase
<1>1. UNCHANGED <<wallet, generation, cache, granted, overtaken, suspect>>
  BY DEF ReadDatabase
<1>2. /\ \A q \in Requests \ {r} : request'[q] = request[q]
      /\ request'[r].call = request[r].call
  BY StepFacts DEF Step
<1>3. /\ request'[r].pc = IF Live THEN "store" ELSE "done"
      /\ request'[r].seen = wallet.credits
  BY <1>0 DEF ReadDatabase, TypeOK, RequestStates
<1>4. \A q \in overtaken' : request'[q].pc \in {"store", "done"}
  BY <1>1, <1>2, <1>3 DEF CacheInv, TypeOK
<1>5. FillsCurrent'
  BY <1>1, <1>2, <1>3 DEF CacheInv, FillsCurrent, Live
<1>6. Clearing \subseteq Clearing'
  <2>1. r \notin Clearing
    BY <1>0 DEF Clearing
  <2>2. \A q \in Requests \ {r} : q \in Clearing => q \in Clearing'
    BY <1>1, <1>2 DEF Clearing
  <2> QED
    BY <2>1, <2>2 DEF Clearing
<1>7. Fresh => Fresh'
  BY <1>1 DEF Fresh, Live
<1> QED
  BY <1>1, <1>4, <1>5, <1>6, <1>7 DEF CacheInv

(* The steps that write the wallet, and those on the cache. *)
LEMMA WritingFresh ==
  ASSUME TypeOK, GivenInv, CacheInv, NEW r \in Requests,
         \/ CreateWallet(r) \/ AddCredits(r) \/ MoveCredits(r) \/ SaveWallet(r)
         \/ WriteWallet(r) \/ StoreCache(r) \/ ClearCache(r)
         \/ TransactionCommit(r) \/ RefundCommit(r)
  PROVE  CacheInv'
<1>0. request[r] \in RequestStates /\ wallet \in WalletStates /\ generation \in Nat
  BY DEF TypeOK
<1>1. /\ \A q \in Requests \ {r} :
           request'[q] = request[q] /\ granted'[q] = granted[q]
      /\ request'[r].call = request[r].call
  BY StepFacts DEF Step
<1>2. ASSUME request'[r].pc # "store", request[r].pc \notin {"store", "done"},
             (wallet.state # "none" => generation # 0)', Overtake,
             \/ r \in Clearing'
             \/ r \notin Clearing /\ UNCHANGED <<wallet, cache, suspect>>
      PROVE  CacheInv'
  BY <1>1, <1>2, CacheStep
<1>3. CASE CreateWallet(r)
  <2>0. /\ request[r].pc \in {"create", "recreate"} /\ UNCHANGED <<cache, suspect>>
        /\ Overtake
    BY <1>3 DEF CreateWallet
  <2>1. CASE Goto(r, "rejected") /\ UNCHANGED <<wallet, generation>>
    <3>1. request'[r].pc = "rejected" /\ r \notin Clearing
      BY <2>0, <2>1, GotoStep DEF Clearing
    <3> QED
      BY <1>2, <2>0, <2>1, <3>1 DEF CacheInv
  <2>2. CASE /\ generation' = generation + 1
             /\ request' = [request EXCEPT ![r].pc = "clearNew",
                              ![r].updated = request[r].pc = "recreate"]
    <3>1. request'[r].pc = "clearNew" /\ generation' # 0
      BY <1>0, <2>2 DEF TypeOK, RequestStates
    <3> QED
      BY <1>2, <2>0, <3>1 DEF Clearing
  <2> QED
    BY <1>3, <2>1, <2>2 DEF CreateWallet
<1>4. CASE AddCredits(r)
  <2> DEFINE matched == /\ Live
                        /\ request[r].call = "giveInitialCredits" => InitialCreditsFilter
                        /\ request[r].call = "giveInitialPackage" => InitialPackageFilter
             pc == IF request[r].call \in Assigns THEN "cancel"
                   ELSE IF matched THEN "clear" ELSE "rejected"
  <2>1. request' = [request EXCEPT ![r].updated = matched, ![r].pc = pc]
    BY <1>4 DEF AddCredits
  <2>2. /\ UNCHANGED <<generation, cache, suspect>> /\ request[r].pc = "add" /\ Overtake
        /\ ~matched => wallet' = wallet
        /\ matched => generation # 0
    BY <1>4 DEF AddCredits, CacheInv, Live
  <2>3. request'[r].updated = matched /\ request'[r].pc = pc
    <3> HIDE DEF matched, pc
    <3> QED
      BY <1>0, <2>1 DEF TypeOK, RequestStates
  <2>4. /\ pc \in {"cancel", "clear", "rejected"}
        /\ matched => pc \in {"cancel", "clear"}
    OBVIOUS
  <2>5. (wallet.state # "none" => generation # 0)'
    BY <2>2 DEF CacheInv
  <2> HIDE DEF matched, pc
  <2>6. CASE matched
    <3>1. r \in Clearing'
      BY <2>3, <2>4, <2>6 DEF Clearing
    <3> QED
      BY <1>2, <2>2, <2>3, <2>4, <2>5, <3>1
  <2>7. CASE ~matched
    <3>1. r \notin Clearing
      BY <2>2 DEF Clearing
    <3> QED
      BY <1>2, <2>2, <2>3, <2>4, <2>5, <2>7, <3>1
  <2> QED
    BY <2>6, <2>7
<1>5. CASE MoveCredits(r)
  <2>1. /\ request[r].pc = "move" /\ request'[r].pc = "creditsRow"
        /\ UNCHANGED <<generation, cache, suspect>> /\ Overtake
    BY <1>5, GotoStep DEF MoveCredits
  <2>2. CASE UNCHANGED <<wallet, granted>>
    <3>1. r \notin Clearing
      BY <2>1 DEF Clearing
    <3> QED
      BY <1>2, <2>1, <2>2, <3>1 DEF CacheInv
  <2>3. CASE ~UNCHANGED <<wallet, granted>>
    <3>1. Live /\ granted' = [granted EXCEPT ![r] = generation]
      BY <1>5, <2>3 DEF MoveCredits
    <3>2. generation # 0 /\ granted'[r] = generation
      BY <3>1 DEF Live, CacheInv, TypeOK
    <3>3. request[r].call \in Movements
      BY <2>1 DEF GivenInv, StepCalls
    <3>4. r \in Clearing'
      BY <1>1, <2>1, <3>2, <3>3 DEF Clearing
    <3> QED
      BY <1>2, <2>1, <3>2, <3>4
  <2> QED
    BY <2>2, <2>3
<1>6. CASE SaveWallet(r)
  <2>1. UNCHANGED <<generation, cache, suspect>> /\ request[r].pc = "save" /\ Overtake
    BY <1>6 DEF SaveWallet
  <2>2. CASE Goto(r, "clear") /\ wallet.state # "none"
    <3>1. request'[r].pc = "clear"
      BY <2>2, GotoStep
    <3> QED
      BY <1>2, <2>1, <2>2, <3>1 DEF Clearing, CacheInv
  <2>3. CASE Goto(r, "rejected") /\ UNCHANGED wallet
    <3>1. request'[r].pc = "rejected" /\ r \notin Clearing
      BY <2>1, <2>3, GotoStep DEF Clearing
    <3> QED
      BY <1>2, <2>1, <2>3, <3>1 DEF CacheInv
  <2> QED
    BY <1>6, <2>2, <2>3 DEF SaveWallet
<1>7. CASE WriteWallet(r)
  <2> DEFINE matched == Live /\ generation = request[r].gen
  <2>1. /\ UNCHANGED <<generation, cache, suspect>> /\ request[r].pc = "write"
        /\ Goto(r, IF request[r].call = "updateUserWallet" /\ ~matched
                   THEN "done" ELSE "clear")
        /\ ~matched => UNCHANGED wallet
        /\ Overtake
    BY <1>7 DEF WriteWallet
  <2>2. CASE matched
    <3>1. request'[r].pc = "clear" /\ generation # 0
      BY <2>1, <2>2, GotoStep DEF CacheInv, Live
    <3> QED
      BY <1>2, <2>1, <3>1 DEF Clearing
  <2>3. CASE ~matched
    <3>1. request'[r].pc \in {"done", "clear"} /\ r \notin Clearing /\ UNCHANGED wallet
      BY <2>1, <2>3, GotoStep DEF Clearing
    <3> QED
      BY <1>2, <2>1, <3>1 DEF CacheInv
  <2> QED
    BY <2>2, <2>3
<1>8. CASE StoreCache(r)
  <2>1. /\ request[r].pc = "store" /\ cache' = {request[r].seen}
        /\ UNCHANGED <<wallet, generation, overtaken>> /\ request'[r].pc = "done"
        /\ suspect' = (r \in overtaken)
    BY <1>8, GotoStep DEF StoreCache, Stored
  <2>2. (wallet.state # "none" => generation # 0)'
    BY <2>1 DEF CacheInv
  <2>3. suspect' \/ Fresh'
    <3>1. CASE r \in overtaken
      BY <2>1, <3>1
    <3>2. CASE r \notin overtaken
      <4>1. Live /\ request[r].seen = wallet.credits
        BY <2>1, <3>2 DEF CacheInv, FillsCurrent
      <4> QED
        BY <2>1, <4>1 DEF Fresh, Live
    <3> QED
      BY <3>1, <3>2
  <2> QED
    BY <1>1, <2>1, <2>2, <2>3, CacheStep
<1>9. CASE ClearCache(r)
  <2>1. /\ cache' = {} /\ UNCHANGED <<wallet, generation, overtaken>>
        /\ request'[r].pc = AfterClear(request[r])
        /\ request[r].pc \in {"clear", "clearNew"}
    BY <1>9, GotoStep DEF ClearCache, Invalidated
  <2>2. AfterClear(request[r]) # "store"
    BY DEF AfterClear
  <2>3. Fresh' /\ (wallet.state # "none" => generation # 0)'
    BY <2>1 DEF Fresh, CacheInv
  <2> QED
    BY <1>1, <2>1, <2>2, <2>3, CacheStep
<1>10. CASE TransactionCommit(r)
  <2>1. /\ request[r].pc = "commit" /\ cache' = cache /\ request'[r].pc = "done"
        /\ generation' = IF Live THEN generation ELSE generation + 1
        /\ suspect' = (suspect \/ cache # {}) /\ Overtake
    BY <1>10, GotoStep DEF TransactionCommit
  <2>2. generation' # 0
    BY <1>0, <2>1 DEF CacheInv, Live
  <2>3. suspect' \/ Fresh'
    BY <2>1 DEF Fresh
  <2> QED
    BY <1>1, <2>1, <2>2, <2>3, CacheStep
<1>11. CASE RefundCommit(r)
  <2>1. /\ request[r].pc = "commit" /\ UNCHANGED <<generation, cache>>
        /\ request'[r].pc = "done" /\ Overtake
    BY <1>11, GotoStep DEF RefundCommit
  <2>2. wallet'.state = wallet.state
    BY <1>0, <1>11 DEF RefundCommit, WalletStates
  <2>3. suspect' = TRUE \/ UNCHANGED <<wallet, cache, suspect>>
    BY <1>11 DEF RefundCommit
  <2>4. r \notin Clearing
    BY <2>1 DEF Clearing
  <2> QED
    BY <1>1, <2>1, <2>2, <2>3, <2>4, CacheStep DEF CacheInv
<1> QED
  BY <1>3, <1>4, <1>5, <1>6, <1>7, <1>8, <1>9, <1>10, <1>11

LEMMA NextFresh ==
  ASSUME TypeOK, GivenInv, CacheInv, [Next]_vars
  PROVE  CacheInv'
<1>1. ASSUME NEW r \in Requests, Step(r) PROVE CacheInv'
  BY <1>1, QuietFresh, ReadFresh, WritingFresh DEF Step
<1>2. ASSUME NEW r \in Requests, NEW call \in Calls, FirstStep(r, call)
      PROVE  CacheInv'
  BY <1>2, FirstFresh
<1>3. ASSUME UNCHANGED <<wallet, generation, cache, request, granted, overtaken, suspect>>
      PROVE  CacheInv'
  BY <1>3 DEF CacheInv, FillsCurrent, Clearing, Fresh, Live
<1>4. ASSUME NEW r \in Requests, PeriodEnds(r) PROVE CacheInv'
  BY <1>3, <1>4 DEF PeriodEnds
<1>5. CASE ExpireSubscriptions
  BY <1>3, <1>5 DEF ExpireSubscriptions
<1>6. CASE UNCHANGED vars
  BY <1>3, <1>6 DEF vars
<1> QED
  BY <1>1, <1>2, <1>4, <1>5, <1>6 DEF Next

(* Whatever requests are under way together, what the cache holds when     *)
(* none of them is about to clear it is what the database holds, unless    *)
(* a refund, a movement that could not insert its row or a fill that a     *)
(* write overtook left it to the next one (clearUserWalletCache, withCache,*)
(* revokePackageCredits).                                                  *)
THEOREM CacheStaysFresh == Spec => []CacheFresh
<1>1. Init => CacheInv
  BY DEF Init, CacheInv, FillsCurrent, NoWallet, Fresh
<1>2. TypeOK /\ GivenInv /\ CacheInv /\ [Next]_vars => CacheInv'
  BY NextFresh
<1>3. CacheInv => CacheFresh
  BY DEF CacheInv, CacheFresh, Fresh
<1> QED
  BY <1>1, <1>2, <1>3, TypeCorrect, GivenAlways, PTL DEF Spec

-----------------------------------------------------------------------------
(* The credits of a row are taken back once. *)

(* A request that has not inserted a package row, and will not have before *)
(* this step.                                                              *)
Unrowed(t) ==
  \/ request[t].pc \notin {"creditsRow", "done", "rejected"}
  \/ request[t].call \in Movements

(* Where the calls on a package row can be, and a request that has a row.  *)
RowCalls ==
  \A r \in Requests :
    LET q == request[r] IN
    /\ q.call \in OnRows =>
         q.pc \in {"load", "save", "clear", "mark", "done", "rejected"}
    /\ q.pc = "save" => q.call \in OnRows
    /\ q.pc = "mark" => q.call \in Removals
    /\ q.pc = "load" => q.call \in OnRows \cup {"getUserWallet"}
    /\ q.pc = "packageRow" => q.call \in Assigns
    /\ packageRow[r] # "none" => ~Unrowed(r)

LEMMA FirstRowCalls ==
  ASSUME TypeOK, RowCalls, NEW r \in Requests, NEW call \in Calls,
         FirstStep(r, call)
  PROVE  RowCalls'
<1>0. /\ request[r].pc = "idle"
      /\ \A q \in Requests \ {r} : request'[q] = request[q]
      /\ request'[r].call = call
      /\ request'[r].pc # "idle"
  BY FirstFacts DEF Start
<1>1. packageRow[r] = "none"
  BY <1>0 DEF RowCalls, Unrowed
<1>2. ASSUME packageRow' = packageRow,
             request'[r].pc \in {"create", "done", "find", "add", "move",
                                 "rejected", "write", "clear", "commit"},
             call \notin OnRows
      PROVE  RowCalls'
  BY <1>0, <1>1, <1>2 DEF RowCalls, Unrowed
<1>3. CASE FindWallet(r, call)
  <2>1. PICK pc \in {"create", "done", "find", "add"} :
          request' = [request EXCEPT ![r] = Begun(r, call, pc)]
    BY <1>3 DEF FindWallet
  <2>2. request'[r].pc = pc
    BY <2>1, BegunStep DEF Pcs, TypeOK
  <2>3. call \notin OnRows /\ packageRow' = packageRow
    BY <1>3 DEF FindWallet, OnRows, Grants, Assigns, Removals, Restores
  <2> QED
    BY <1>2, <2>2, <2>3
<1>4. CASE FindForMovement(r, call)
  <2>1. PICK pc \in {"move", "rejected"} : request' = [request EXCEPT ![r] =
          [Begun(r, call, pc) EXCEPT !.gen = generation, !.seen = wallet.credits]]
    BY <1>4 DEF FindForMovement
  <2>2. request'[r].pc = pc
    <3>1. generation \in Nat /\ wallet.credits \in Int
      BY DEF TypeOK, WalletStates
    <3> QED
      BY <2>1, <3>1, BegunStep DEF Pcs, TypeOK
  <2>3. call \notin OnRows /\ packageRow' = packageRow
    BY <1>4 DEF FindForMovement, OnRows, Movements, Removals, Restores
  <2> QED
    BY <1>2, <2>2, <2>3
<1>5. CASE FindForUpdate(r, call)
  <2>1. PICK pc \in {"write", "rejected"} : request' = [request EXCEPT ![r] =
          [Begun(r, call, pc) EXCEPT !.gen = generation]]
    BY <1>5 DEF FindForUpdate
  <2>2. request'[r].pc = pc
    BY <2>1, BegunStep DEF Pcs, TypeOK
  <2>3. call \notin OnRows /\ packageRow' = packageRow
    BY <1>5 DEF FindForUpdate, OnRows, Updates, Removals, Restores
  <2> QED
    BY <1>2, <2>2, <2>3
<1>6. CASE RestoreWallet(r, call)
  <2>1. PICK pc \in {"clear", "rejected"} :
          request' = [request EXCEPT ![r] = Begun(r, call, pc)]
    BY <1>6 DEF RestoreWallet
  <2>2. request'[r].pc = pc
    BY <2>1, BegunStep DEF Pcs, TypeOK
  <2>3. call \notin OnRows /\ packageRow' = packageRow
    BY <1>6 DEF RestoreWallet, OnRows, Removals, Restores
  <2> QED
    BY <1>2, <2>2, <2>3
<1>7. CASE ReadCache(r, call)
  <2>1. PICK pc \in {"done", "load"} :
          request' = [request EXCEPT ![r] = Begun(r, call, pc)]
    BY <1>7 DEF ReadCache
  <2>2. request'[r].pc = pc
    BY <2>1, BegunStep DEF Pcs, TypeOK
  <2>3. call = "getUserWallet" /\ packageRow' = packageRow
    BY <1>7 DEF ReadCache
  <2>4. call \notin OnRows
    BY <2>3 DEF OnRows, Removals, Restores
  <2> QED
    BY <1>0, <1>1, <2>2, <2>3, <2>4 DEF RowCalls, Unrowed
<1>8. CASE TransactionUpdate(r, call)
  <2>1. PICK pc \in {"clear", "rejected"} : request' = [request EXCEPT ![r] =
          [Begun(r, call, pc) EXCEPT !.subs = {q \in Requests : sub[q] = "active"}]]
    BY <1>8 DEF TransactionUpdate
  <2>2. request'[r].pc = pc
    <3>1. {q \in Requests : sub[q] = "active"} \in SUBSET Requests
      OBVIOUS
    <3> QED
      BY <2>1, <3>1, BegunStep DEF Pcs, TypeOK
  <2>3. call \notin OnRows /\ packageRow' = packageRow
    BY <1>8 DEF TransactionUpdate, OnRows, Transactions, Removals, Restores
  <2> QED
    BY <1>2, <2>2, <2>3
<1>9. ASSUME NEW t \in Requests, FindRow(r, call, t) PROVE RowCalls'
  <2>1. PICK pc \in {"load", "rejected"} : request' = [request EXCEPT ![r] =
          [Begun(r, call, pc) EXCEPT !.target = t]]
    BY <1>9 DEF FindRow
  <2>2. request'[r].pc = pc
    BY <2>1, BegunStep DEF Pcs, TypeOK
  <2>3. call \in OnRows /\ packageRow' = packageRow
    BY <1>9 DEF FindRow, OnRows
  <2> QED
    BY <1>0, <1>1, <2>2, <2>3 DEF RowCalls, Unrowed
<1>10. ASSUME NEW t \in Requests, RestoreRow(r, call, t) PROVE RowCalls'
  <2>1. request'[r].pc \in {"load", "rejected"}
    <3>1. CASE request' = [request EXCEPT ![r] =
                 [Begun(r, call, "load") EXCEPT !.target = t]]
      BY <3>1, BegunStep DEF Pcs, TypeOK
    <3>2. CASE request' = [request EXCEPT ![r] = Begun(r, call, "rejected")]
      BY <3>2, BegunStep DEF Pcs, TypeOK
    <3> QED
      BY <1>10, <3>1, <3>2 DEF RestoreRow
  <2>2. call \in OnRows /\ \A q \in Requests : packageRow'[q] # "none" =>
          packageRow[q] # "none"
    BY <1>10 DEF RestoreRow, OnRows, TypeOK
  <2> QED
    BY <1>0, <1>1, <2>1, <2>2 DEF RowCalls, Unrowed
<1>11. ASSUME NEW t \in Requests, RevokeCredits(r, call, t) PROVE RowCalls'
  <2>1. PICK pc \in {"commit", "rejected"} : request' = [request EXCEPT ![r] =
          [Begun(r, call, pc) EXCEPT !.target = t, !.updated = Live]]
    BY <1>11 DEF RevokeCredits
  <2>2. request'[r].pc = pc
    BY <2>1, LiveType, BegunStep DEF Pcs, TypeOK
  <2>3. call \notin OnRows /\ packageRow' = packageRow
    BY <1>11 DEF RevokeCredits, OnRows, Removals, Restores
  <2> QED
    BY <1>2, <2>2, <2>3
<1> QED
  BY <1>3, <1>4, <1>5, <1>6, <1>7, <1>8, <1>9, <1>10, <1>11 DEF FirstStep

LEMMA StepRowCalls ==
  ASSUME TypeOK, GivenInv, RowCalls, NEW r \in Requests, Step(r)
  PROVE  RowCalls'
<1>0. request[r] \in RequestStates
  BY DEF TypeOK
<1>1. /\ \A q \in Requests \ {r} : request'[q] = request[q]
      /\ request'[r].call = request[r].call
      /\ request'[r].pc # "idle"
  BY StepFacts
<1>2. ASSUME \A q \in Requests : packageRow'[q] # "none" => packageRow[q] # "none",
             request[r].pc \notin {"creditsRow", "done", "rejected"},
             request[r].call \notin OnRows,
             request'[r].pc \notin {"load", "save", "mark"},
             request'[r].pc = "packageRow" => request[r].call \in Assigns
      PROVE  RowCalls'
  BY <1>1, <1>2 DEF RowCalls, Unrowed
<1>3. CASE FindWalletAgain(r)
  BY <1>2, <1>3, GotoStep DEF FindWalletAgain, RowCalls, Unrowed
<1>4. CASE CreateWallet(r)
  <2>1. request'[r].pc \in {"clearNew", "rejected"}
    <3>1. CASE Goto(r, "rejected")
      BY <3>1, GotoStep
    <3>2. CASE request' = [request EXCEPT ![r].pc = "clearNew",
                             ![r].updated = request[r].pc = "recreate"]
      BY <1>0, <3>2 DEF TypeOK, RequestStates
    <3> QED
      BY <1>4, <3>1, <3>2 DEF CreateWallet
  <2> QED
    BY <1>2, <1>4, <2>1 DEF CreateWallet, RowCalls, Unrowed
<1>5. CASE AddCredits(r)
  <2>1. request'[r].pc \in {"cancel", "clear", "rejected"}
    <3>1. PICK b, pc : /\ pc \in {"cancel", "clear", "rejected"}
                       /\ request' = [request EXCEPT ![r].updated = b, ![r].pc = pc]
      BY <1>5 DEF AddCredits
    <3> QED
      BY <1>0, <3>1 DEF TypeOK, RequestStates
  <2> QED
    BY <1>2, <1>5, <2>1 DEF AddCredits, RowCalls, Unrowed
<1>6. CASE CancelSubscriptions(r)
  BY <1>2, <1>6, GotoStep DEF CancelSubscriptions, RowCalls, Unrowed
<1>7. CASE Subscribe(r)
  BY <1>2, <1>7, GotoStep DEF Subscribe, RowCalls, Unrowed
<1>8. CASE InsertPackageRow(r)
  <2>1. request[r].pc = "packageRow" /\ request'[r].pc = "creditsRow"
    BY <1>8, GotoStep DEF InsertPackageRow
  <2>2. \A q \in Requests \ {r} : packageRow'[q] = packageRow[q]
    BY <1>8 DEF InsertPackageRow, TypeOK
  <2>3. request[r].call \notin Movements \cup OnRows
    BY <2>1 DEF RowCalls, Assigns, Movements, OnRows, Removals, Restores
  <2> QED
    BY <1>1, <2>1, <2>2, <2>3 DEF RowCalls, Unrowed
<1>9. CASE InsertCreditsRow(r)
  <2>1. /\ request[r].pc = "creditsRow" /\ packageRow' = packageRow
        /\ request'[r].pc \in {"clear", "done", "rejected"}
        /\ request[r].call \notin Movements =>
             request'[r].pc \in {"done", "rejected"}
    BY <1>9, GotoStep DEF InsertCreditsRow
  <2>2. request[r].call \in Movements => packageRow[r] = "none"
    BY DEF RowCalls, Unrowed
  <2> QED
    BY <1>1, <2>1, <2>2 DEF RowCalls, Unrowed
<1>10. CASE MoveCredits(r)
  BY <1>2, <1>10, GotoStep DEF MoveCredits, RowCalls, Unrowed
<1>11. CASE LoadWallet(r)
  <2>1. PICK pc \in {"save", "mark", "done"} :
          request' = [request EXCEPT ![r].seen = wallet.credits,
                        ![r].gen = generation, ![r].pc = pc]
    BY <1>11 DEF LoadWallet
  <2>2. request'[r].pc = pc /\ packageRow' = packageRow /\ request[r].pc = "load"
    BY <1>0, <1>11, <2>1 DEF TypeOK, RequestStates, LoadWallet
  <2>3. request[r].call \in OnRows
    BY <1>11 DEF LoadWallet, RowCalls, Unrowed
  <2>4. pc = "mark" => request[r].call \in Removals
    BY <1>0, <1>11, <2>2 DEF LoadWallet, TypeOK, RequestStates
  <2> QED
    BY <1>1, <2>2, <2>3, <2>4 DEF RowCalls, Unrowed
<1>12. CASE SaveWallet(r)
  <2>1. /\ request[r].pc = "save" /\ packageRow' = packageRow
        /\ request'[r].pc \in {"clear", "rejected"}
    BY <1>12, GotoStep DEF SaveWallet
  <2> QED
    BY <1>1, <2>1 DEF RowCalls, Unrowed
<1>13. CASE MarkRow(r)
  <2>1. /\ request[r].pc = "mark" /\ request'[r].pc = "done"
        /\ \A q \in Requests : packageRow'[q] # "none" => packageRow[q] # "none"
    BY <1>13, GotoStep DEF MarkRow, TypeOK
  <2> QED
    BY <1>1, <2>1 DEF RowCalls, Unrowed
<1>14. CASE WriteWallet(r)
  BY <1>2, <1>14, GotoStep DEF WriteWallet, RowCalls, Unrowed
<1>15. CASE ReadDatabase(r)
  <2>1. PICK pc \in {"store", "done"} :
          request' = [request EXCEPT ![r].seen = wallet.credits, ![r].pc = pc]
    BY <1>15 DEF ReadDatabase
  <2>2. /\ request'[r].pc = pc /\ packageRow' = packageRow /\ request[r].pc = "load"
        /\ request[r].call = "getUserWallet"
    BY <1>0, <1>15, <2>1 DEF TypeOK, RequestStates, ReadDatabase
  <2>3. request[r].call \notin OnRows
    BY <2>2 DEF OnRows, Removals, Restores
  <2> QED
    BY <1>2, <2>2, <2>3
<1>16. CASE StoreCache(r)
  BY <1>2, <1>16, GotoStep DEF StoreCache, RowCalls, Unrowed
<1>17. CASE ClearCache(r)
  <2>1. /\ request[r].pc \in {"clear", "clearNew"} /\ packageRow' = packageRow
        /\ request'[r].pc = AfterClear(request[r])
    BY <1>17, GotoStep DEF ClearCache
  <2>2. CASE request[r].call \in OnRows
    <3>1. /\ AfterClear(request[r]) \in {"mark", "done"}
          /\ AfterClear(request[r]) = "mark" => request[r].call \in Removals
      BY <2>2 DEF AfterClear, OnRows, Removals, Restores, Transactions, Grants, Assigns
    <3> QED
      BY <1>1, <2>1, <2>2, <3>1 DEF RowCalls, Unrowed
  <2>3. CASE request[r].call \notin OnRows
    <3>1. /\ AfterClear(request[r]) \notin {"load", "save", "mark"}
          /\ AfterClear(request[r]) = "packageRow" => request[r].call \in Assigns
      BY <2>3 DEF AfterClear, OnRows
    <3> QED
      BY <1>2, <2>1, <2>3, <3>1
  <2> QED
    BY <2>2, <2>3
<1>18. CASE TransactionCommit(r)
  <2>1. request[r].pc = "commit" /\ request'[r].pc = "done"
    BY <1>18, GotoStep DEF TransactionCommit
  <2>2. \A q \in Requests \ {r} : packageRow'[q] = packageRow[q]
    BY <1>18 DEF TransactionCommit, TypeOK
  <2>3. request[r].call \notin Movements \cup OnRows
    BY <2>1 DEF GivenInv, StepCalls, Transactions, Movements, OnRows, Removals,
                Restores
  <2> QED
    BY <1>1, <2>1, <2>2, <2>3 DEF RowCalls, Unrowed
<1>19. CASE RefundCommit(r)
  <2>1. request[r].call \notin OnRows /\ packageRow' = packageRow
    BY <1>19 DEF RefundCommit, OnRows, Removals, Restores
  <2>2. request[r].pc = "commit" /\ request'[r].pc = "done"
    BY <1>19, GotoStep DEF RefundCommit
  <2> QED
    BY <1>2, <2>1, <2>2
<1> QED
  BY <1>3, <1>4, <1>5, <1>6, <1>7, <1>8, <1>9, <1>10, <1>11, <1>12, <1>13, <1>14,
     <1>15, <1>16, <1>17, <1>18, <1>19 DEF Step

(* Request r is about the row of request t. *)
OnRow(r, t) ==
  /\ request[r].target = t
  /\ request[r].call \in OnRows
  /\ request[r].pc \in {"load", "save", "clear", "mark"}

(* The credits of the row are out of the wallet at this point of the call. *)
TakenAt(r) ==
  \/ request[r].call \in Removals /\ request[r].pc \in {"clear", "mark"}
  \/ request[r].call \in Restores /\ request[r].pc \in {"load", "save"}

RowSettled(t) ==
  /\ taken[t] \in {0, 1}
  /\ Unrowed(t) => taken[t] = 0
  /\ \A r \in Requests : OnRow(r, t) =>
       /\ \A q \in Requests : OnRow(q, t) => q = r
       /\ packageRow[t] = "live"
       /\ taken[t] = IF TakenAt(r) THEN 1 ELSE 0
  /\ (\A r \in Requests : ~OnRow(r, t)) =>
       /\ packageRow[t] = "live" => taken[t] = 0
       /\ packageRow[t] = "deleted" => taken[t] = 1

TakenInv == \A t \in Requests \ parted : RowSettled(t)

LEMMA OnRowUnderWay ==
  ASSUME RowCalls, NEW r \in Requests, NEW t \in Requests
  PROVE  OnRow(r, t) <=> /\ r \in UnderWay /\ request[r].call \in OnRows
                         /\ request[r].target = t
BY DEF OnRow, UnderWay, Finished, RowCalls, OnRows, Removals, Restores

(* A row that was parted from its credits stays so. *)
LEMMA PartedGrows ==
  ASSUME NEW r \in Requests,
         Step(r) \/ \E call \in Calls : FirstStep(r, call)
  PROVE  parted \subseteq parted'
<1>1. CASE FindWalletAgain(r) \/ CreateWallet(r) \/ AddCredits(r)
           \/ CancelSubscriptions(r) \/ Subscribe(r) \/ InsertPackageRow(r)
           \/ InsertCreditsRow(r) \/ MoveCredits(r)
  BY <1>1 DEF FindWalletAgain, CreateWallet, AddCredits, CancelSubscriptions,
     Subscribe, InsertPackageRow, InsertCreditsRow, MoveCredits
<1>2. CASE MarkRow(r) \/ WriteWallet(r) \/ ReadDatabase(r) \/ StoreCache(r)
           \/ ClearCache(r) \/ TransactionCommit(r)
  BY <1>2 DEF MarkRow, WriteWallet, ReadDatabase, StoreCache, ClearCache,
     TransactionCommit
<1>3. CASE LoadWallet(r)
  BY <1>3 DEF LoadWallet
<1>4. CASE SaveWallet(r)
  BY <1>4 DEF SaveWallet
<1>5. CASE RefundCommit(r)
  BY <1>5 DEF RefundCommit
<1>6. ASSUME NEW call \in Calls, FirstStep(r, call) PROVE parted \subseteq parted'
  <2>1. CASE FindWallet(r, call) \/ FindForMovement(r, call)
             \/ FindForUpdate(r, call) \/ RestoreWallet(r, call)
             \/ ReadCache(r, call) \/ TransactionUpdate(r, call)
    BY <2>1 DEF FindWallet, FindForMovement, FindForUpdate, RestoreWallet,
       ReadCache, TransactionUpdate
  <2>2. ASSUME NEW t \in Requests, FindRow(r, call, t) PROVE parted \subseteq parted'
    BY <2>2 DEF FindRow
  <2>3. ASSUME NEW t \in Requests, RestoreRow(r, call, t) PROVE parted \subseteq parted'
    BY <2>3 DEF RestoreRow
  <2>4. ASSUME NEW t \in Requests, RevokeCredits(r, call, t) PROVE parted \subseteq parted'
    BY <2>4 DEF RevokeCredits
  <2> QED
    BY <1>6, <2>1, <2>2, <2>3, <2>4 DEF FirstStep
<1> QED
  BY <1>1, <1>2, <1>3, <1>4, <1>5, <1>6 DEF Step

(* A step that is not about row t, and may insert it. *)
LEMMA UntouchedRow ==
  ASSUME NEW t \in Requests, RowSettled(t),
         \A q \in Requests : (OnRow(q, t)' <=> OnRow(q, t))
                             /\ (OnRow(q, t) => (TakenAt(q)' <=> TakenAt(q))),
         taken'[t] = taken[t],
         Unrowed(t)' => Unrowed(t),
         \/ packageRow'[t] = packageRow[t]
         \/ packageRow[t] = "none" /\ Unrowed(t) /\ packageRow'[t] = "live"
  PROVE  RowSettled(t)'
BY DEF RowSettled

(* A step of a call that is not on row t. *)
LEMMA StepElsewhere ==
  ASSUME TypeOK, GivenInv, RowCalls, NEW r \in Requests, Step(r),
         NEW t \in Requests, t \notin parted', RowSettled(t), ~OnRow(r, t)
  PROVE  RowSettled(t)'
<1>0. /\ r \in UnderWay
      /\ \A q \in Requests \ {r} : request'[q] = request[q]
      /\ request'[r].call = request[r].call
      /\ request'[r].target = request[r].target
  BY StepFacts
<1>1. ~(request[r].target = t /\ request[r].call \in OnRows)
  BY <1>0, OnRowUnderWay
<1>2. \A q \in Requests : (OnRow(q, t)' <=> OnRow(q, t))
                          /\ (OnRow(q, t) => (TakenAt(q)' <=> TakenAt(q)))
  BY <1>0, <1>1 DEF OnRow, TakenAt
<1>3. taken'[t] = taken[t]
  <2>1. CASE SaveWallet(r)
    <3>1. request[r].target # t
      BY <1>1, <2>1 DEF SaveWallet, RowCalls
    <3> QED
      BY <2>1, <3>1 DEF SaveWallet, TypeOK
  <2>2. CASE RefundCommit(r)
    <3>1. request[r].updated => request[r].target # t
      BY <2>2 DEF RefundCommit
    <3> QED
      BY <2>2, <3>1 DEF RefundCommit, TypeOK
  <2>3. CASE UNCHANGED taken
    BY <2>3
  <2> QED
    BY <2>1, <2>2, <2>3 DEF Step, FindWalletAgain, CreateWallet, AddCredits,
       CancelSubscriptions, Subscribe, InsertPackageRow, InsertCreditsRow,
       MoveCredits, LoadWallet, MarkRow, WriteWallet, ReadDatabase, StoreCache,
       ClearCache, TransactionCommit
<1>4. \/ packageRow'[t] = packageRow[t]
      \/ packageRow[t] = "none" /\ Unrowed(t) /\ packageRow'[t] = "live"
  <2>1. CASE InsertPackageRow(r)
    <3>1. packageRow[r] = "none" /\ Unrowed(r)
      BY <2>1 DEF InsertPackageRow, RowCalls, Unrowed
    <3> QED
      BY <2>1, <3>1 DEF InsertPackageRow, TypeOK
  <2>2. CASE TransactionCommit(r)
    <3>1. packageRow[r] = "none" /\ Unrowed(r)
      BY <2>2 DEF TransactionCommit, RowCalls, Unrowed
    <3> QED
      BY <2>2, <3>1 DEF TransactionCommit, TypeOK
  <2>3. CASE MarkRow(r)
    <3>1. request[r].target # t
      BY <1>1, <2>3 DEF MarkRow, RowCalls, OnRows
    <3> QED
      BY <2>3, <3>1 DEF MarkRow, TypeOK
  <2>4. CASE UNCHANGED packageRow
    BY <2>4
  <2> QED
    BY <2>1, <2>2, <2>3, <2>4 DEF Step, FindWalletAgain, CreateWallet, AddCredits,
       CancelSubscriptions, Subscribe, InsertCreditsRow, MoveCredits, LoadWallet,
       SaveWallet, WriteWallet, ReadDatabase, StoreCache, ClearCache, RefundCommit
<1>5. Unrowed(t)' => Unrowed(t)
  <2>1. CASE t # r
    BY <1>0, <2>1 DEF Unrowed
  <2>2. CASE t = r /\ InsertCreditsRow(r)
    <3>1. request[r].call \notin Movements => request'[r].pc = "done"
      BY <2>2, GotoStep DEF InsertCreditsRow
    <3> QED
      BY <1>0, <2>2, <3>1 DEF Unrowed
  <2>3. CASE t = r /\ ~InsertCreditsRow(r)
    <3>1. request[r].pc \notin {"creditsRow", "done", "rejected"}
      BY <1>0, <2>3 DEF UnderWay, Finished, Step, FindWalletAgain, CreateWallet,
         AddCredits, CancelSubscriptions, Subscribe, InsertPackageRow,
         MoveCredits, LoadWallet, SaveWallet, MarkRow, WriteWallet, ReadDatabase,
         StoreCache, ClearCache, TransactionCommit, RefundCommit
    <3> QED
      BY <2>3, <3>1 DEF Unrowed
  <2> QED
    BY <2>1, <2>2, <2>3
<1> QED
  BY <1>2, <1>3, <1>4, <1>5, UntouchedRow

(* A step of the call on row t. *)
LEMMA StepOnRow ==
  ASSUME TypeOK, GivenInv, RowCalls, NEW r \in Requests, Step(r),
         NEW t \in Requests, t \notin parted', RowSettled(t), OnRow(r, t)
  PROVE  RowSettled(t)'
<1>0. /\ \A q \in Requests \ {r} : request'[q] = request[q]
      /\ request'[r].call = request[r].call
      /\ request'[r].target = request[r].target
  BY StepFacts
<1>1. /\ request[r] \in RequestStates /\ request[r].target = t
      /\ request[r].call \in OnRows
      /\ request[r].call \in Restores <=> request[r].call \notin Removals
      /\ request[r].pc \in {"load", "save", "clear", "mark"}
  BY DEF TypeOK, OnRow, OnRows, Removals, Restores
<1>2. \A q \in Requests \ {r} : ~OnRow(q, t) /\ ~OnRow(q, t)'
  BY <1>0 DEF OnRow, RowSettled
<1>3. /\ packageRow[t] = "live" /\ ~Unrowed(t)
      /\ taken[t] = IF TakenAt(r) THEN 1 ELSE 0
  BY DEF RowSettled, RowCalls
<1>4. ~Unrowed(t)'
  <2>1. CASE t # r
    BY <1>0, <1>3, <2>1 DEF Unrowed
  <2>2. CASE t = r
    BY <1>1, <1>3, <2>2 DEF Unrowed
  <2> QED
    BY <2>1, <2>2
<1>5. ASSUME packageRow'[t] = "live", OnRow(r, t)',
             taken'[t] = IF TakenAt(r)' THEN 1 ELSE 0
      PROVE  RowSettled(t)'
  BY <1>2, <1>4, <1>5 DEF RowSettled
<1>6. ASSUME ~OnRow(r, t)', taken'[t] \in {0, 1},
             packageRow'[t] = "live" => taken'[t] = 0,
             packageRow'[t] = "deleted" => taken'[t] = 1
      PROVE  RowSettled(t)'
  BY <1>2, <1>4, <1>6 DEF RowSettled
<1>7. CASE LoadWallet(r)
  <2>1. /\ Live /\ generation = granted[t]
        /\ request[r].pc = "load" /\ UNCHANGED <<packageRow, taken>>
    BY <1>1, <1>7 DEF LoadWallet
  <2>2. request' = [request EXCEPT ![r].seen = wallet.credits,
                       ![r].gen = generation, ![r].pc = "save"]
    BY <1>1, <1>7, <2>1 DEF LoadWallet
  <2>3. request'[r].pc = "save"
    BY <1>1, <2>2 DEF TypeOK, RequestStates
  <2>4. OnRow(r, t)' /\ (TakenAt(r)' <=> TakenAt(r))
    BY <1>0, <1>1, <2>1, <2>3 DEF OnRow, TakenAt
  <2> QED
    BY <1>3, <1>5, <2>1, <2>4
<1>8. CASE SaveWallet(r)
  <2>1. request[r].pc = "save" /\ UNCHANGED packageRow
    BY <1>8 DEF SaveWallet
  <2>2. CASE /\ taken' = [taken EXCEPT ![t] =
                  IF request[r].call \in Restores THEN @ - 1 ELSE @ + 1]
             /\ Goto(r, "clear")
    <3>1. request'[r].pc = "clear"
      BY <2>2, GotoStep
    <3>2. OnRow(r, t)' /\ (TakenAt(r)' <=> request[r].call \in Removals)
          /\ (TakenAt(r) <=> request[r].call \in Restores)
      BY <1>0, <1>1, <2>1, <3>1 DEF OnRow, TakenAt
    <3>3. taken'[t] = IF request[r].call \in Restores THEN taken[t] - 1
                      ELSE taken[t] + 1
      BY <2>2 DEF TypeOK
    <3> QED
      BY <1>1, <1>3, <1>5, <2>1, <3>2, <3>3
  <2>3. CASE /\ Goto(r, "rejected") /\ UNCHANGED taken
             /\ request[r].call \notin Restores
    <3>1. request'[r].pc = "rejected"
      BY <2>3, GotoStep
    <3>2. ~OnRow(r, t)' /\ ~TakenAt(r)
      BY <2>1, <2>3, <3>1 DEF OnRow, TakenAt
    <3> QED
      BY <1>3, <1>6, <2>1, <2>3, <3>2
  <2> QED
    BY <1>1, <1>8, <2>2, <2>3 DEF SaveWallet
<1>9. CASE ClearCache(r)
  <2>1. /\ UNCHANGED <<packageRow, taken>>
        /\ request'[r].pc = AfterClear(request[r])
        /\ request[r].pc = "clear"
    BY <1>1, <1>9, GotoStep DEF ClearCache
  <2>2. CASE request[r].call \in Removals
    <3>1. request'[r].pc = "mark"
      BY <2>1, <2>2 DEF AfterClear, Transactions, Grants, Assigns, Removals
    <3>2. OnRow(r, t)' /\ TakenAt(r) /\ TakenAt(r)'
      BY <1>0, <1>1, <2>1, <2>2, <3>1 DEF OnRow, TakenAt
    <3> QED
      BY <1>3, <1>5, <2>1, <3>2
  <2>3. CASE request[r].call \in Restores
    <3>1. request'[r].pc = "done"
      BY <2>1, <2>3 DEF AfterClear, Transactions, Grants, Assigns, Removals, Restores
    <3>2. ~OnRow(r, t)' /\ ~TakenAt(r)
      BY <1>1, <2>1, <2>3, <3>1 DEF OnRow, TakenAt
    <3> QED
      BY <1>3, <1>6, <2>1, <3>2
  <2> QED
    BY <1>1, <2>2, <2>3
<1>10. CASE MarkRow(r)
  <2>1. /\ UNCHANGED taken
        /\ request[r].pc = "mark" /\ request'[r].pc = "done"
    BY <1>10, GotoStep DEF MarkRow
  <2>2. request[r].call \in Removals
    BY <2>1 DEF RowCalls
  <2>3. packageRow'[t] \in {"deleted", "none"}
    BY <1>1, <1>3, <1>10 DEF MarkRow, TypeOK
  <2>4. ~OnRow(r, t)' /\ TakenAt(r)
    BY <2>1, <2>2 DEF OnRow, TakenAt
  <2> QED
    BY <1>3, <1>6, <2>1, <2>3, <2>4
<1>11. request[r].call # "getUserWallet" /\ request[r].call # "refund"
  BY <1>1 DEF OnRows, Removals, Restores
<1> QED
  BY <1>1, <1>7, <1>8, <1>9, <1>10, <1>11 DEF Step, FindWalletAgain, CreateWallet,
     AddCredits, CancelSubscriptions, Subscribe, InsertPackageRow,
     InsertCreditsRow, MoveCredits, WriteWallet, ReadDatabase, StoreCache,
     TransactionCommit, RefundCommit

(* A call on a row begins: a deletion finds the row there, its credits in  *)
(* the wallet; a restore finds it deleted, its credits taken back; and no  *)
(* other call is about it.                                                 *)
LEMMA FirstSettled ==
  ASSUME TypeOK, RowCalls, NEW r \in Requests, NEW call \in Calls,
         FirstStep(r, call), NEW t \in Requests, t \notin parted', RowSettled(t)
  PROVE  RowSettled(t)'
<1>0. /\ request[r].pc = "idle"
      /\ \A q \in Requests \ {r} : request'[q] = request[q]
      /\ request'[r].call = call
      /\ request'[r].pc # "idle"
      /\ UNCHANGED taken
  BY FirstFacts DEF Start
<1>1. ~OnRow(r, t)
  BY <1>0 DEF OnRow
<1>2. \A q \in Requests \ {r} : (OnRow(q, t)' <=> OnRow(q, t))
                                /\ (TakenAt(q)' <=> TakenAt(q))
  BY <1>0 DEF OnRow, TakenAt
<1>3. Unrowed(t)' => Unrowed(t)
  BY <1>0 DEF Unrowed
<1>4. ASSUME ~OnRow(r, t)', packageRow'[t] = packageRow[t] PROVE RowSettled(t)'
  BY <1>0, <1>1, <1>2, <1>3, <1>4, UntouchedRow
<1>5. ASSUME OnRow(r, t)', packageRow'[t] = "live", request'[r].pc = "load",
             packageRow[t] # "none", \A q \in Requests : ~OnRow(q, t),
             call \in OnRows, packageRow[t] = IF call \in Restores THEN "deleted" ELSE "live"
      PROVE  RowSettled(t)'
  <2>1. TakenAt(r)' <=> call \in Restores
    BY <1>0, <1>5 DEF TakenAt
  <2>2. taken[t] = IF call \in Restores THEN 1 ELSE 0
    BY <1>5 DEF RowSettled
  <2>3. ~Unrowed(t)'
    BY <1>3, <1>5 DEF RowCalls
  <2>4. \A q \in Requests \ {r} : ~OnRow(q, t)'
    BY <1>2, <1>5
  <2> QED
    BY <1>0, <1>5, <2>1, <2>2, <2>3, <2>4 DEF RowSettled
<1>6. ASSUME ~PartsRow(t, call) PROVE \A q \in Requests : ~OnRow(q, t)
  BY <1>6, OnRowUnderWay DEF PartsRow
<1>7. ASSUME NEW u \in Requests, FindRow(r, call, u) PROVE RowSettled(t)'
  <2>1. PICK pc \in {"load", "rejected"} :
          /\ request' = [request EXCEPT ![r] = [Begun(r, call, pc) EXCEPT !.target = u]]
          /\ pc = "load" => Found(u, call)
    BY <1>7 DEF FindRow
  <2>2. request'[r].pc = pc /\ request'[r].target = u
    <3>1. Begun(r, call, pc) \in RequestStates
      BY CallType, BegunType DEF Pcs
    <3>2. request'[r] = [Begun(r, call, pc) EXCEPT !.target = u]
      BY <2>1 DEF TypeOK
    <3>3. [Begun(r, call, pc) EXCEPT !.target = u].pc = pc
      BY BegunStep DEF Pcs
    <3> QED
      BY <3>1, <3>2, <3>3 DEF RequestStates
  <2>3. packageRow' = packageRow /\ call \in Removals /\ packageRow[u] # "none"
    BY <1>7 DEF FindRow
  <2>4. CASE u = t /\ pc = "load"
    <3>1. ~PartsRow(t, call) /\ Found(t, call)
      BY <1>7, <2>1, <2>4 DEF FindRow
    <3>2. packageRow[t] = "live"
      BY <2>3, <2>4, <3>1 DEF Found, PartsRow, TypeOK, RowStates
    <3>3. OnRow(r, t)' /\ call \notin Restores /\ call \in OnRows
      BY <1>0, <2>2, <2>3, <2>4 DEF OnRow, OnRows, Removals, Restores
    <3> QED
      BY <1>5, <1>6, <2>2, <2>3, <2>4, <3>1, <3>2, <3>3
  <2>5. CASE ~(u = t /\ pc = "load")
    <3>1. ~OnRow(r, t)'
      BY <2>2, <2>5 DEF OnRow
    <3> QED
      BY <1>4, <2>3, <3>1
  <2> QED
    BY <2>4, <2>5
<1>8. ASSUME NEW u \in Requests, RestoreRow(r, call, u) PROVE RowSettled(t)'
  <2>1. CASE /\ packageRow' = [packageRow EXCEPT ![u] = "live"]
             /\ request' = [request EXCEPT ![r] =
                  [Begun(r, call, "load") EXCEPT !.target = u]]
             /\ packageRow[u] = "deleted" \/ call = "restorePackageTransactions"
             /\ parted' = IF PartsRow(u, call) THEN parted \cup {u} ELSE parted
    <3>1. request'[r].pc = "load" /\ request'[r].target = u
      <4>1. Begun(r, call, "load") \in RequestStates
        BY CallType, BegunType DEF Pcs
      <4>2. request'[r] = [Begun(r, call, "load") EXCEPT !.target = u]
        BY <2>1 DEF TypeOK
      <4>3. [Begun(r, call, "load") EXCEPT !.target = u].pc = "load"
        BY BegunStep DEF Pcs
      <4> QED
        BY <4>1, <4>2, <4>3 DEF RequestStates
    <3>2. CASE u = t
      <4>1. ~PartsRow(t, call) /\ call \in Restores /\ packageRow[t] # "none"
        BY <1>8, <2>1, <3>2 DEF RestoreRow
      <4>2. packageRow[t] = "deleted" /\ packageRow'[t] = "live"
        BY <2>1, <3>2, <4>1 DEF TypeOK, RowStates, PartsRow
      <4>3. OnRow(r, t)' /\ call \in OnRows
        BY <1>0, <3>1, <3>2, <4>1 DEF OnRow, OnRows
      <4> QED
        BY <1>5, <1>6, <3>1, <4>1, <4>2, <4>3
    <3>3. CASE u # t
      <4>1. ~OnRow(r, t)' /\ packageRow'[t] = packageRow[t]
        BY <2>1, <3>1, <3>3 DEF OnRow, TypeOK
      <4> QED
        BY <1>4, <4>1
    <3> QED
      BY <3>2, <3>3
  <2>2. CASE /\ request' = [request EXCEPT ![r] = Begun(r, call, "rejected")]
             /\ UNCHANGED packageRow
    <3>1. request'[r].pc = "rejected"
      BY <2>2, BegunStep DEF Pcs, TypeOK
    <3>2. ~OnRow(r, t)'
      BY <3>1 DEF OnRow
    <3> QED
      BY <1>4, <2>2, <3>2
  <2> QED
    BY <1>8, <2>1, <2>2 DEF RestoreRow
<1>9. CASE call \notin OnRows /\ UNCHANGED packageRow
  <2>1. ~OnRow(r, t)'
    BY <1>0, <1>9 DEF OnRow
  <2> QED
    BY <1>4, <1>9, <2>1
<1>10. CASE FindWallet(r, call) \/ FindForMovement(r, call)
            \/ FindForUpdate(r, call) \/ RestoreWallet(r, call)
            \/ ReadCache(r, call) \/ TransactionUpdate(r, call)
  BY <1>9, <1>10 DEF FindWallet, FindForMovement, FindForUpdate, RestoreWallet,
     ReadCache, TransactionUpdate, OnRows, Removals, Restores, Grants, Assigns,
     Movements, Updates
<1>11. ASSUME NEW u \in Requests, RevokeCredits(r, call, u) PROVE RowSettled(t)'
  BY <1>9, <1>11 DEF RevokeCredits, OnRows, Removals, Restores
<1> QED
  BY <1>7, <1>8, <1>10, <1>11 DEF FirstStep

LEMMA NextTaken ==
  ASSUME TypeOK, GivenInv, RowCalls, TakenInv, [Next]_vars
  PROVE  RowCalls' /\ TakenInv'
<1>1. ASSUME UNCHANGED <<packageRow, request, taken, parted>>
      PROVE  RowCalls' /\ TakenInv'
  <2>1. \A t, q \in Requests :
          /\ OnRow(q, t)' <=> OnRow(q, t)
          /\ TakenAt(q)' <=> TakenAt(q)
          /\ Unrowed(t)' <=> Unrowed(t)
    BY <1>1 DEF OnRow, TakenAt, Unrowed
  <2>2. TakenInv'
    BY <1>1, <2>1 DEF TakenInv, RowSettled
  <2>3. RowCalls'
    BY <1>1, <2>1 DEF RowCalls
  <2> QED
    BY <2>2, <2>3
<1>2. ASSUME NEW r \in Requests, Step(r) PROVE TakenInv'
  BY <1>2, PartedGrows, StepElsewhere, StepOnRow DEF TakenInv
<1>3. ASSUME NEW r \in Requests, NEW call \in Calls, FirstStep(r, call)
      PROVE  TakenInv'
  BY <1>3, PartedGrows, FirstSettled DEF TakenInv
<1>4. ASSUME NEW r \in Requests, PeriodEnds(r) PROVE RowCalls' /\ TakenInv'
  BY <1>1, <1>4 DEF PeriodEnds
<1>5. CASE ExpireSubscriptions
  BY <1>1, <1>5 DEF ExpireSubscriptions
<1>6. CASE UNCHANGED vars
  BY <1>1, <1>6 DEF vars
<1> QED
  BY <1>2, <1>3, <1>4, <1>5, <1>6, FirstRowCalls, StepRowCalls DEF Next

(* The credits of a package row are taken back at most once and given back *)
(* only after that, however often the row is deleted and restored and      *)
(* whatever else is under way, unless one of the calls that part a row     *)
(* from its credits was about it (deletePackageTransaction,                *)
(* restorePackageTransaction).                                             *)
THEOREM RowsTakenBackOnce == Spec => []TakenBackOnce
<1>1. Init => RowCalls /\ TakenInv
  <2>1. Init => RowCalls
    BY DEF Init, RowCalls, OnRows, Removals, Restores
  <2>2. ASSUME Init, NEW t \in Requests PROVE RowSettled(t)
    <3>1. \A q \in Requests : ~OnRow(q, t)
      BY <2>2 DEF Init, OnRow
    <3> QED
      BY <2>2, <3>1 DEF Init, RowSettled
  <2> QED
    BY <2>1, <2>2 DEF TakenInv
<1>2. TypeOK /\ GivenInv /\ RowCalls /\ TakenInv /\ [Next]_vars
        => RowCalls' /\ TakenInv'
  BY NextTaken
<1>3. RowCalls /\ TakenInv => TakenBackOnce
  <2> SUFFICES ASSUME RowCalls, TakenInv, NEW t \in Requests \ parted
               PROVE  /\ taken[t] \in {0, 1}
                      /\ (\A q \in UnderWay : request[q].call \in OnRows
                            => request[q].target # t) =>
                           /\ packageRow[t] = "live" => taken[t] = 0
                           /\ packageRow[t] = "deleted" => taken[t] = 1
    BY DEF TakenBackOnce
  <2>1. \A q \in Requests : OnRow(q, t) <=>
          /\ q \in UnderWay /\ request[q].call \in OnRows /\ request[q].target = t
    BY OnRowUnderWay
  <2> QED
    BY <2>1 DEF TakenInv, RowSettled
<1> QED
  BY <1>1, <1>2, <1>3, TypeCorrect, GivenAlways, PTL DEF Spec

-----------------------------------------------------------------------------
(* The wallet and its rows. *)

(* No call was made that moves credits without a row.                      *)
AllRowed == \A r \in Requests : request[r].call \notin Rowless

Moved == {r \in Requests : granted[r] # 0}

(* Where a request is, its credits have been moved or not, and its row has *)
(* been inserted or not.                                                   *)
Booked(r) ==
  LET q == request[r] IN
  /\ q.call \notin Rowless
  /\ q.pc \notin {"save", "mark", "write"}
  /\ q.pc \in {"load", "store"} => q.call = "getUserWallet"
  /\ creditsRow[r] = "live" => granted[r] # 0
  /\ granted[r] # 0 => q.call \in Grants \cup Movements \cup Transactions
  /\ q.pc \in {"idle", "find", "create", "recreate", "clearNew", "add", "move",
               "commit"} => granted[r] = 0
  /\ q.pc \in {"find", "recreate", "add"} => q.call \in Grants
  /\ q.pc \in {"cancel", "subscribe"} =>
       q.call \in Assigns /\ (q.updated <=> granted[r] # 0)
  /\ q.pc \in {"packageRow", "creditsRow"} => granted[r] # 0
  /\ q.pc = "clear" /\ q.call \in Grants => granted[r] # 0
  /\ q.pc = "clear" /\ q.call \in Transactions => granted[r] = 0
  /\ q.pc = "clear" /\ q.call \in Movements => creditsRow[r] = "live"
  /\ q.pc \in Finished /\ granted[r] # 0 =>
       creditsRow[r] = "live" \/ q.call = "refund" \/ faults > 0
  /\ q.pc = "move" => Live /\ generation = q.gen
  /\ q.pc = "commit" /\ q.call = "refund" /\ q.updated => Live
  /\ q.pc \in {"create", "clear", "clearNew"} => q.call # "refund"

(* No such call deletes the document. *)
WalletLasts ==
  /\ wallet.state # "deleted"
  /\ wallet.state = "none" => wallet.credits = 0
  /\ Live => generation > 0

Balanced == IsFiniteSet(Moved) /\ wallet.credits = SumFunctionOnSet(Signed, Moved)

LedgerInv == WalletLasts /\ (\A r \in Requests : Booked(r)) /\ Balanced

LEMMA SignedType ==
  ASSUME TypeOK
  PROVE  \A r \in Requests : Signed[r] \in Int /\ Signed[r] = Moves(request[r].call)
<1>1. ASSUME NEW r \in Requests PROVE Moves(request[r].call) \in Int
  <2>1. request[r].call \in CallNames
    BY DEF TypeOK, RequestStates
  <2>2. Credits[request[r].call] \in Int /\ Credits["settle"] \in Int
    BY <2>1, CallsAssumption DEF CallNames, Transactions
  <2> QED
    BY <2>2 DEF Moves
<1> QED
  BY <1>1 DEF Signed

LEMMA BookedElsewhere ==
  ASSUME NEW q \in Requests, Booked(q),
         request'[q] = request[q], granted'[q] = granted[q],
         creditsRow'[q] = creditsRow[q],
         faults > 0 => faults' > 0,
         Live => Live' /\ generation' = generation
  PROVE  Booked(q)'
BY DEF Booked

(* A step that moves no credits. *)
LEMMA SameBalance ==
  ASSUME TypeOK, TypeOK', Balanced, granted' = granted,
         wallet'.credits = wallet.credits,
         \A q \in Moved : request'[q].call = request[q].call
  PROVE  Balanced'
<1>1. Moved' = Moved
  BY DEF Moved
<1>2. \A q \in Requests : Signed'[q] = Moves(request'[q].call)
  BY DEF Signed
<1>3. \A q \in Moved : Signed[q] \in Int /\ Signed'[q] = Signed[q]
  BY <1>2, SignedType DEF Moved
<1>4. SumFunctionOnSet(Signed', Moved) = SumFunctionOnSet(Signed, Moved)
  BY <1>3, SumSame DEF Balanced
<1> QED
  BY <1>1, <1>4 DEF Balanced

(* A step that moves the credits of one call. *)
LEMMA MovedBalance ==
  ASSUME TypeOK, TypeOK', Balanced, NEW r \in Requests, granted[r] = 0,
         NEW g, g # 0, granted' = [granted EXCEPT ![r] = g],
         wallet'.credits = wallet.credits + Moves(request[r].call),
         \A q \in Requests : request'[q].call = request[q].call
  PROVE  Balanced'
<1>1. Moved' = Moved \cup {r} /\ r \notin Moved
  BY DEF Moved, TypeOK
<1>2. Signed' = Signed
  BY DEF Signed
<1>3. \A q \in Moved \cup {r} : Signed[q] \in Int
  BY SignedType DEF Moved
<1>4. IsFiniteSet(Moved) /\ wallet.credits = SumFunctionOnSet(Signed, Moved)
  BY DEF Balanced
<1>5. SumFunctionOnSet(Signed, Moved \cup {r})
        = Signed[r] + SumFunctionOnSet(Signed, Moved)
  BY <1>1, <1>3, <1>4, SumOneMore
<1>6. IsFiniteSet(Moved \cup {r})
  BY <1>4, FS_AddElement
<1>7. Signed[r] = Moves(request[r].call) /\ Signed[r] \in Int
      /\ SumFunctionOnSet(Signed, Moved) \in Int
  BY <1>3, <1>4, SignedType, SumType
<1>8. wallet'.credits = SumFunctionOnSet(Signed, Moved \cup {r})
  BY <1>4, <1>5, <1>7
<1> QED
  BY <1>1, <1>2, <1>6, <1>8 DEF Balanced

(* What every request's step leaves alone: the document, once there, and   *)
(* the rows of the others.                                                 *)
Lasting(r) ==
  /\ WalletLasts'
  /\ Live => Live' /\ generation' = generation
  /\ \A q \in Requests \ {r} : creditsRow'[q] = creditsRow[q]
  /\ faults > 0 => faults' > 0

LEMMA StepLasts ==
  ASSUME TypeOK, LedgerInv, NEW r \in Requests, Step(r)
  PROVE  Lasting(r)
<1>0. /\ wallet \in WalletStates /\ request[r] \in RequestStates /\ Booked(r)
      /\ WalletLasts /\ generation \in Nat /\ faults \in Nat
      /\ creditsRow \in [Requests -> RowStates]
  BY DEF TypeOK, LedgerInv
<1>1. ASSUME UNCHANGED <<wallet, generation, creditsRow, faults>>
      PROVE  Lasting(r)
  BY <1>0, <1>1 DEF Lasting, WalletLasts, Live
<1>2. ASSUME UNCHANGED <<generation, creditsRow, faults>>,
             wallet.state = "live", wallet'.state = "live"
      PROVE  Lasting(r)
  BY <1>0, <1>2 DEF Lasting, WalletLasts, Live
<1>3. CASE FindWalletAgain(r) \/ CancelSubscriptions(r) \/ Subscribe(r)
           \/ LoadWallet(r) \/ MarkRow(r) \/ ReadDatabase(r) \/ StoreCache(r)
           \/ ClearCache(r)
  BY <1>1, <1>3 DEF FindWalletAgain, CancelSubscriptions, Subscribe, LoadWallet,
     MarkRow, ReadDatabase, StoreCache, ClearCache
<1>4. CASE CreateWallet(r)
  <2>1. CASE UNCHANGED <<wallet, generation>>
    BY <1>1, <1>4, <2>1 DEF CreateWallet
  <2>2. CASE /\ wallet.state = "none" /\ wallet' = NewWallet
             /\ generation' = generation + 1
    <3>1. wallet'.state = "live"
      BY <2>2 DEF NewWallet, NoWallet
    <3> QED
      BY <1>0, <1>4, <2>2, <3>1 DEF CreateWallet, Lasting, WalletLasts, Live
  <2> QED
    BY <1>4, <2>1, <2>2 DEF CreateWallet
<1>5. CASE AddCredits(r)
  <2>1. CASE UNCHANGED wallet
    BY <1>1, <1>5, <2>1 DEF AddCredits
  <2>2. CASE ~UNCHANGED wallet
    <3>1. wallet.state = "live" /\ wallet'.state = "live"
      BY <1>0, <1>5, <2>2 DEF AddCredits, Live, WalletStates
    <3> QED
      BY <1>2, <1>5, <3>1 DEF AddCredits
  <2> QED
    BY <2>1, <2>2
<1>6. CASE InsertPackageRow(r)
  BY <1>0, <1>6 DEF InsertPackageRow, Lasting, WalletLasts, Live
<1>7. CASE InsertCreditsRow(r)
  BY <1>0, <1>7 DEF InsertCreditsRow, Lasting, WalletLasts, Live
<1>8. CASE MoveCredits(r)
  <2>1. CASE UNCHANGED wallet
    BY <1>1, <1>8, <2>1 DEF MoveCredits
  <2>2. CASE ~UNCHANGED wallet
    <3>1. wallet.state = "live" /\ wallet'.state = "live"
      BY <1>0, <1>8, <2>2 DEF MoveCredits, Live, WalletStates
    <3> QED
      BY <1>2, <1>8, <3>1 DEF MoveCredits
  <2> QED
    BY <2>1, <2>2
<1>9. CASE SaveWallet(r) \/ WriteWallet(r)
  BY <1>0, <1>9 DEF SaveWallet, WriteWallet, Booked
<1>10. CASE TransactionCommit(r)
  <2> DEFINE base == IF Live THEN wallet ELSE NewWallet
             n == IF request[r].call = "settle" THEN Credits[request[r].call]
                  ELSE -Credits[request[r].call]
  <2>1. base \in WalletStates /\ base.state = "live"
    <3>1. NewWallet.state = "live"
      BY DEF NewWallet, NoWallet
    <3> QED
      BY <1>0, <3>1, NewWalletType DEF Live
  <2>2. wallet' = [base EXCEPT !.credits = Incremented(base.credits, n)]
    BY <1>10, <2>1 DEF TransactionCommit, WalletStates
  <2>3. wallet'.state = "live"
    <3> HIDE DEF base, n
    <3> QED
      BY <2>1, <2>2 DEF WalletStates
  <2>4. /\ generation' = IF Live THEN generation ELSE generation + 1
        /\ \A q \in Requests \ {r} : creditsRow'[q] = creditsRow[q]
        /\ faults' = faults
    BY <1>0, <1>10 DEF TransactionCommit
  <2> HIDE DEF base, n
  <2> QED
    BY <1>0, <2>3, <2>4 DEF Lasting, WalletLasts, Live
<1>11. CASE RefundCommit(r)
  <2>1. UNCHANGED <<generation, creditsRow, faults>> /\ request[r].pc = "commit"
    BY <1>11 DEF RefundCommit
  <2>2. CASE UNCHANGED wallet
    BY <1>1, <2>1, <2>2
  <2>3. CASE ~UNCHANGED wallet
    <3>1. Live
      BY <1>0, <1>11, <2>3 DEF RefundCommit, Booked
    <3>2. wallet.state = "live" /\ wallet'.state = "live"
      BY <1>0, <1>11, <3>1 DEF RefundCommit, Live, WalletStates
    <3> QED
      BY <1>2, <2>1, <3>2
  <2> QED
    BY <2>2, <2>3
<1> QED
  BY <1>3, <1>4, <1>5, <1>6, <1>7, <1>8, <1>9, <1>10, <1>11 DEF Step

LEMMA StepBooked ==
  ASSUME TypeOK, GivenInv, LedgerInv, NEW r \in Requests, Step(r)
  PROVE  Booked(r)'
<1>0. /\ request[r] \in RequestStates /\ Booked(r) /\ Lasting(r)
      /\ request \in [Requests -> RequestStates]
      /\ generation \in Nat /\ faults \in Nat
      /\ granted \in [Requests -> Nat] /\ creditsRow \in [Requests -> RowStates]
      /\ Live => generation > 0
      /\ request[r].pc = "commit" => request[r].call \in Transactions
      /\ request[r].pc = "move" => request[r].call \in Movements
  BY StepLasts DEF TypeOK, LedgerInv, WalletLasts, GivenInv, StepCalls
<1>1. CASE FindWalletAgain(r)
  <2>1. PICK pc \in {"add", "recreate"} : Goto(r, pc)
    BY <1>1 DEF FindWalletAgain
  <2> QED
    BY <1>0, <1>1, <2>1, GotoStep DEF FindWalletAgain, Booked, Finished
<1>2. CASE CreateWallet(r)
  <2>1. CASE Goto(r, "rejected")
    BY <1>0, <1>2, <2>1, GotoStep DEF CreateWallet, Booked, Finished
  <2>2. CASE request' = [request EXCEPT ![r].pc = "clearNew",
                           ![r].updated = request[r].pc = "recreate"]
    <3>1. request'[r].pc = "clearNew" /\ request'[r].call = request[r].call
      BY <1>0, <2>2 DEF RequestStates
    <3>2. request[r].call # "refund"
      BY <1>0, <1>2 DEF CreateWallet, Booked, Grants, Assigns
    <3> QED
      BY <1>0, <1>2, <3>1, <3>2 DEF CreateWallet, Booked, Finished
  <2> QED
    BY <1>2, <2>1, <2>2 DEF CreateWallet
<1>3. CASE AddCredits(r)
  <2> DEFINE b == /\ Live
                  /\ request[r].call = "giveInitialCredits" => InitialCreditsFilter
                  /\ request[r].call = "giveInitialPackage" => InitialPackageFilter
             pc == IF request[r].call \in Assigns THEN "cancel"
                   ELSE IF b THEN "clear" ELSE "rejected"
  <2>1. request' = [request EXCEPT ![r].updated = b, ![r].pc = pc]
    BY <1>3 DEF AddCredits
  <2>2. IF b THEN granted' = [granted EXCEPT ![r] = generation]
        ELSE granted' = granted
    BY <1>3 DEF AddCredits
  <2>3. b => generation > 0
    BY <1>0
  <2>4. /\ request[r].pc = "add" /\ creditsRow' = creditsRow
    BY <1>3 DEF AddCredits
  <2>5. pc = IF request[r].call \in Assigns THEN "cancel"
             ELSE IF b THEN "clear" ELSE "rejected"
    OBVIOUS
  <2> HIDE DEF b, pc
  <2>6. /\ request'[r].pc = pc /\ request'[r].updated = b
        /\ request'[r].call = request[r].call
    BY <1>0, <2>1 DEF RequestStates
  <2>7. granted'[r] # 0 <=> b
    BY <1>0, <2>2, <2>3, <2>4 DEF Booked
  <2>8. request[r].call \in Grants /\ creditsRow'[r] # "live"
    BY <1>0, <2>4 DEF Booked
  <2>9. /\ request[r].call \notin Movements \cup Transactions \cup Rowless
        /\ request[r].call # "refund"
    BY <1>0, <2>8 DEF Booked, Grants, Assigns, Movements, Transactions
  <2>10. pc \in {"cancel", "clear", "rejected"}
    BY <2>5
  <2> QED
    BY <2>5, <2>6, <2>7, <2>8, <2>9, <2>10 DEF Booked, Finished
<1>4. CASE CancelSubscriptions(r)
  <2>1. /\ request'[r].pc = "subscribe" /\ request'[r].call = request[r].call
        /\ request'[r].updated = request[r].updated
    BY <1>0, <1>4 DEF CancelSubscriptions, Goto, RequestStates
  <2> QED
    BY <1>0, <1>4, <2>1 DEF CancelSubscriptions, Booked, Finished
<1>5. CASE Subscribe(r)
  <2>1. PICK pc \in {"clear", "rejected"} :
          Goto(r, pc) /\ (request[r].updated <=> pc = "clear")
    BY <1>0, <1>5 DEF Subscribe, RequestStates
  <2>2. request[r].call \in Assigns
    BY <1>0, <1>5 DEF Subscribe, Booked
  <2>3. request[r].call \notin Movements \cup Transactions \cup {"refund"}
    BY <2>2 DEF Assigns, Movements, Transactions
  <2> QED
    BY <1>0, <1>5, <2>1, <2>3, GotoStep DEF Subscribe, Booked, Finished
<1>6. CASE InsertPackageRow(r)
  BY <1>0, <1>6, GotoStep DEF InsertPackageRow, Booked, Finished
<1>7. CASE InsertCreditsRow(r)
  <2>1. request[r].call # "assignPaidPackage" /\ granted[r] # 0
    BY <1>0, <1>7 DEF InsertCreditsRow, Booked, Rowless
  <2>2. /\ granted' = granted
        /\ \/ /\ creditsRow'[r] = "live"
              /\ Goto(r, IF request[r].call \in Movements THEN "clear" ELSE "done")
           \/ /\ creditsRow' = creditsRow /\ faults' > 0
              /\ Goto(r, IF request[r].call \in Movements THEN "rejected" ELSE "done")
    BY <1>0, <1>7, <2>1 DEF InsertCreditsRow
  <2>3. request[r].call \in Movements
          => request[r].call \notin Grants \cup Transactions \cup {"refund"}
    BY DEF Grants, Assigns, Movements, Transactions
  <2> QED
    BY <1>0, <2>1, <2>2, <2>3, GotoStep DEF Booked, Finished
<1>8. CASE MoveCredits(r)
  <2>1. /\ Goto(r, "creditsRow") /\ granted' = [granted EXCEPT ![r] = generation]
        /\ generation > 0 /\ request[r].call \in Movements
        /\ creditsRow' = creditsRow
    BY <1>0, <1>8 DEF MoveCredits, Booked
  <2> QED
    BY <1>0, <2>1, GotoStep DEF Booked, Finished
<1>9. CASE LoadWallet(r) \/ SaveWallet(r) \/ MarkRow(r) \/ WriteWallet(r)
  BY <1>0, <1>9 DEF LoadWallet, SaveWallet, MarkRow, WriteWallet, Booked
<1>10. CASE ReadDatabase(r)
  <2>1. PICK pc \in {"store", "done"} :
          request' = [request EXCEPT ![r].seen = wallet.credits, ![r].pc = pc]
    BY <1>10 DEF ReadDatabase
  <2>2. request'[r].pc = pc /\ request'[r].call = request[r].call
    BY <1>0, <2>1 DEF RequestStates
  <2>3. granted[r] = 0
    BY <1>0, <1>10 DEF ReadDatabase, Booked, Grants, Assigns, Movements, Transactions
  <2> QED
    BY <1>0, <1>10, <2>2, <2>3 DEF ReadDatabase, Booked, Finished
<1>11. CASE StoreCache(r)
  <2>1. request[r].pc = "store" /\ Goto(r, "done")
        /\ UNCHANGED <<granted, creditsRow>>
    BY <1>11 DEF StoreCache
  <2>2. granted[r] = 0
    BY <1>0, <2>1 DEF Booked, Grants, Assigns, Movements, Transactions
  <2> QED
    BY <1>0, <2>1, <2>2, GotoStep DEF Booked, Finished
<1>12. CASE ClearCache(r)
  <2> DEFINE pc == AfterClear(request[r])
  <2>1. /\ Goto(r, pc) /\ UNCHANGED <<granted, creditsRow, faults>>
        /\ request[r].pc \in {"clear", "clearNew"}
    BY <1>12 DEF ClearCache
  <2>2. request[r].call \notin Removals
    BY <1>0 DEF Booked, Rowless, OnRows
  <2>3. /\ pc \in {"commit", "find", "add", "packageRow", "creditsRow", "done"}
        /\ pc = "commit" => request[r].call \in Transactions
        /\ pc \in {"find", "add"} =>
             request[r].pc = "clearNew" /\ request[r].call \in Grants
        /\ pc \in {"packageRow", "creditsRow"} =>
             request[r].pc = "clear" /\ request[r].call \in Grants
        /\ pc = "done" /\ request[r].pc = "clear" =>
             request[r].call \notin Grants \cup Transactions
    BY <2>1, <2>2 DEF AfterClear, Grants, Assigns, Transactions
  <2> HIDE DEF pc
  <2>4. request'[r].pc = pc /\ request'[r].call = request[r].call
    BY <2>1, GotoStep
  <2> QED
    BY <1>0, <2>1, <2>3, <2>4 DEF Booked, Finished
<1>13. CASE TransactionCommit(r)
  <2>1. /\ Goto(r, "done") /\ creditsRow'[r] = "live"
        /\ granted'[r] = IF Live THEN generation ELSE generation + 1
        /\ request[r].call \in Transactions
    BY <1>0, <1>13 DEF TransactionCommit
  <2>2. granted'[r] # 0
    BY <1>0, <2>1
  <2> QED
    BY <1>0, <2>1, <2>2, GotoStep DEF Booked, Finished
<1>14. CASE RefundCommit(r)
  <2>1. /\ request'[r].pc = "done" /\ request'[r].call = "refund"
        /\ creditsRow' = creditsRow /\ granted'[r] \in {granted[r], generation}
    BY <1>0, <1>14, GotoStep DEF RefundCommit
  <2>2. granted[r] = 0 /\ creditsRow[r] # "live"
    BY <1>0, <1>14 DEF RefundCommit, Booked
  <2>3. "refund" \in Transactions /\ "refund" \notin Movements \cup Grants \cup Rowless
    BY DEF Transactions, Movements, Grants, Assigns, Rowless, OnRows, Removals,
       Restores, Updates
  <2> QED
    BY <2>1, <2>2, <2>3 DEF Booked, Finished
<1> QED
  BY <1>1, <1>2, <1>3, <1>4, <1>5, <1>6, <1>7, <1>8, <1>9, <1>10, <1>11, <1>12,
     <1>13, <1>14 DEF Step

(* Credits move with the mark that they did. *)
LEMMA StepBalanced ==
  ASSUME TypeOK, TypeOK', GivenInv, LedgerInv, NEW r \in Requests, Step(r)
  PROVE  Balanced'
<1>0. /\ wallet \in WalletStates /\ request[r] \in RequestStates /\ Booked(r)
      /\ Balanced /\ generation \in Nat /\ granted \in [Requests -> Nat]
      /\ Live => generation > 0
      /\ wallet.state # "live" => wallet.credits = 0
      /\ request[r].pc = "commit" => request[r].call \in Transactions
      /\ request[r].pc = "move" => request[r].call \in Movements
  BY DEF TypeOK, LedgerInv, WalletLasts, GivenInv, StepCalls, WalletStates
<1>1. \A q \in Requests : request'[q].call = request[q].call
  BY StepFacts
<1>2. request[r].call \in CallNames /\ Credits[request[r].call] \in Int
      /\ wallet.credits \in Int
  BY <1>0, CallsAssumption DEF RequestStates, WalletStates
<1>3. ASSUME UNCHANGED granted, wallet'.credits = wallet.credits PROVE Balanced'
  BY <1>0, <1>1, <1>3, SameBalance DEF Moved
<1>4. CASE FindWalletAgain(r) \/ CancelSubscriptions(r) \/ Subscribe(r)
           \/ LoadWallet(r) \/ MarkRow(r) \/ ReadDatabase(r) \/ StoreCache(r)
           \/ ClearCache(r) \/ InsertPackageRow(r) \/ InsertCreditsRow(r)
  BY <1>3, <1>4 DEF FindWalletAgain, CancelSubscriptions, Subscribe, LoadWallet,
     MarkRow, ReadDatabase, StoreCache, ClearCache, InsertPackageRow,
     InsertCreditsRow
<1>5. CASE CreateWallet(r)
  <2>1. NewWallet.credits = 0
    BY DEF NewWallet, NoWallet
  <2>2. wallet'.credits = wallet.credits
    BY <1>0, <1>5, <2>1 DEF CreateWallet
  <2> QED
    BY <1>3, <1>5, <2>2 DEF CreateWallet
<1>6. CASE AddCredits(r)
  <2>1. request[r].call \in Grants /\ granted[r] = 0
    BY <1>0, <1>6 DEF AddCredits, Booked
  <2>2. Moves(request[r].call) = Credits[request[r].call]
    BY <2>1 DEF Moves, Grants, Assigns
  <2>3. CASE UNCHANGED <<wallet, granted>>
    BY <1>3, <2>3
  <2>4. CASE ~UNCHANGED <<wallet, granted>>
    <3>1. /\ Live /\ granted' = [granted EXCEPT ![r] = generation]
          /\ wallet' = [wallet EXCEPT
               !.credits = Incremented(wallet.credits, Credits[request[r].call]),
               !.initial_credits_given = wallet.initial_credits_given
                 \/ request[r].call = "giveInitialCredits",
               !.initial_package_given = wallet.initial_package_given
                 \/ request[r].call = "giveInitialPackage"]
      BY <1>0, <1>6, <2>4 DEF AddCredits, WalletStates
    <3>2. wallet'.credits = wallet.credits + Moves(request[r].call)
      BY <1>0, <2>2, <3>1 DEF WalletStates, Incremented
    <3>3. generation # 0
      BY <1>0, <3>1
    <3> QED
      BY <1>0, <1>1, <2>1, <3>1, <3>2, <3>3, MovedBalance
  <2> QED
    BY <2>3, <2>4
<1>7. CASE MoveCredits(r)
  <2>1. /\ request[r].call \in Movements /\ granted[r] = 0
        /\ Live /\ generation = request[r].gen
    BY <1>0, <1>7 DEF MoveCredits, Booked
  <2>2. Moves(request[r].call) =
          IF request[r].call = "increase" THEN Credits[request[r].call]
          ELSE -Credits[request[r].call]
    BY <2>1 DEF Moves, Movements
  <2>3. granted' = [granted EXCEPT ![r] = generation] /\ generation # 0
    BY <1>0, <1>7, <2>1 DEF MoveCredits
  <2>4. wallet'.credits = wallet.credits + Moves(request[r].call)
    BY <1>0, <1>7, <2>1, <2>2 DEF MoveCredits, Incremented, WalletStates
  <2> QED
    BY <1>0, <1>1, <2>1, <2>3, <2>4, MovedBalance
<1>8. CASE SaveWallet(r) \/ WriteWallet(r)
  BY <1>0, <1>8 DEF SaveWallet, WriteWallet, Booked
<1>9. CASE TransactionCommit(r)
  <2> DEFINE base == IF Live THEN wallet ELSE NewWallet
             n == IF request[r].call = "settle" THEN Credits[request[r].call]
                  ELSE -Credits[request[r].call]
             g == IF Live THEN generation ELSE generation + 1
  <2>1. /\ request[r].call \in Transactions \ {"refund"}
        /\ granted[r] = 0
    BY <1>0, <1>9 DEF TransactionCommit, Booked
  <2>2. base \in WalletStates /\ base.credits = wallet.credits
    <3>1. NewWallet.credits = 0
      BY DEF NewWallet, NoWallet
    <3> QED
      BY <1>0, <3>1, NewWalletType DEF Live
  <2>3. wallet' = [base EXCEPT !.credits = Incremented(base.credits, n)]
    BY <1>9, <2>2 DEF TransactionCommit, WalletStates
  <2>4. n = Moves(request[r].call)
    BY <2>1 DEF Moves, Transactions
  <2>5. g # 0 /\ granted' = [granted EXCEPT ![r] = g]
    BY <1>0, <1>9 DEF TransactionCommit
  <2>6. wallet'.credits = wallet.credits + Moves(request[r].call)
    <3> HIDE DEF base, n
    <3> QED
      BY <2>2, <2>3, <2>4 DEF WalletStates, Incremented
  <2> HIDE DEF base, n, g
  <2> QED
    BY <1>0, <1>1, <2>1, <2>5, <2>6, MovedBalance
<1>10. CASE RefundCommit(r)
  <2>1. request[r].pc = "commit" /\ request[r].call = "refund" /\ granted[r] = 0
    BY <1>0, <1>10 DEF RefundCommit, Booked
  <2>2. CASE ~request[r].updated
    BY <1>3, <1>10, <2>2 DEF RefundCommit
  <2>3. CASE request[r].updated
    <3>1. generation # 0 /\ granted' = [granted EXCEPT ![r] = generation]
      BY <1>0, <1>10, <2>1, <2>3 DEF RefundCommit, Booked
    <3>2. Credits["settle"] \in Int
      BY CallsAssumption DEF CallNames, Transactions
    <3>3. wallet'.credits = wallet.credits - Credits["settle"]
      BY <1>0, <1>2, <1>10, <2>3, <3>2 DEF RefundCommit, Incremented, WalletStates
    <3>4. wallet'.credits = wallet.credits + Moves(request[r].call)
      BY <1>2, <2>1, <3>2, <3>3 DEF Moves
    <3> QED
      BY <1>0, <1>1, <2>1, <3>1, <3>4, MovedBalance
  <2> QED
    BY <2>2, <2>3
<1> QED
  BY <1>4, <1>5, <1>6, <1>7, <1>8, <1>9, <1>10 DEF Step

LEMMA StepLedger ==
  ASSUME TypeOK, TypeOK', GivenInv, LedgerInv, NEW r \in Requests, Step(r)
  PROVE  LedgerInv'
<1>1. Lasting(r) /\ Booked(r)' /\ Balanced'
  BY StepLasts, StepBooked, StepBalanced
<1>2. ASSUME NEW q \in Requests \ {r} PROVE Booked(q)'
  <2>1. request'[q] = request[q] /\ granted'[q] = granted[q]
    BY StepFacts
  <2> QED
    BY <1>1, <2>1, BookedElsewhere DEF Lasting, LedgerInv
<1> QED
  BY <1>1, <1>2 DEF LedgerInv, Lasting

(* A call begins: it has moved nothing, and its row is not there. *)
LEMMA FirstLedger ==
  ASSUME AllRowed', TypeOK, TypeOK', GivenInv, LedgerInv,
         NEW r \in Requests, NEW call \in Calls, FirstStep(r, call)
  PROVE  LedgerInv'
<1>0. /\ request[r].pc = "idle" /\ granted[r] = 0 /\ Booked(r)
      /\ \A q \in Requests \ {r} : request'[q] = request[q]
      /\ request'[r].call = call /\ call \notin Rowless
      /\ UNCHANGED <<generation, granted, creditsRow, faults>>
      /\ wallet \in WalletStates /\ request[r] \in RequestStates
      /\ generation \in Nat
  BY FirstFacts DEF Start, LedgerInv, GivenInv, StepCalls, TypeOK, AllRowed
<1>1. UNCHANGED wallet
  <2>1. CASE RestoreWallet(r, call)
    BY <2>1 DEF RestoreWallet, LedgerInv, WalletLasts
  <2>2. CASE FindWallet(r, call) \/ FindForMovement(r, call)
             \/ FindForUpdate(r, call) \/ ReadCache(r, call)
             \/ TransactionUpdate(r, call)
    BY <2>2 DEF FindWallet, FindForMovement, FindForUpdate, ReadCache,
       TransactionUpdate
  <2>3. ASSUME NEW t \in Requests,
               FindRow(r, call, t) \/ RestoreRow(r, call, t) \/ RevokeCredits(r, call, t)
        PROVE  UNCHANGED wallet
    BY <2>3 DEF FindRow, RestoreRow, RevokeCredits
  <2> QED
    BY <2>1, <2>2, <2>3 DEF FirstStep
<1>2. \A q \in Requests \ {r} : Booked(q)'
  BY <1>0, <1>1, BookedElsewhere DEF LedgerInv, Live
<1>3. Balanced'
  <2>1. \A q \in Moved : request'[q].call = request[q].call
    BY <1>0 DEF Moved
  <2> QED
    BY <1>0, <1>1, <2>1, SameBalance DEF LedgerInv
<1>4. WalletLasts'
  BY <1>0, <1>1 DEF LedgerInv, WalletLasts, Live
<1>5. /\ request'[r].pc \in {"create", "done", "find", "add", "move", "rejected",
                             "clear", "load", "commit"}
      /\ request'[r].pc \in {"find", "add"} => call \in Grants
      /\ request'[r].pc = "load" => call = "getUserWallet"
      /\ request'[r].pc = "clear" => call \in Transactions \ {"refund"}
      /\ request'[r].pc = "create" => call # "refund"
      /\ request'[r].pc = "move" => Live /\ request'[r].gen = generation
      /\ request'[r].pc = "commit" => call = "refund" /\ (request'[r].updated => Live)
  <2>1. CASE FindWallet(r, call)
    <3>1. PICK pc \in {"create", "done", "find", "add"} :
            /\ request' = [request EXCEPT ![r] = Begun(r, call, pc)]
            /\ pc \in {"find", "add"} => call \in Grants
      BY <2>1 DEF FindWallet
    <3>2. request'[r].pc = pc /\ call # "refund"
      BY <2>1, <3>1, BegunStep DEF Pcs, TypeOK, FindWallet, Grants, Assigns
    <3> QED
      BY <3>1, <3>2
  <2>2. CASE FindForMovement(r, call)
    <3>1. PICK pc \in {"move", "rejected"} :
            /\ request' = [request EXCEPT ![r] = [Begun(r, call, pc)
                 EXCEPT !.gen = generation, !.seen = wallet.credits]]
            /\ pc = "move" => Live
      BY <2>2 DEF FindForMovement
    <3>2. Begun(r, call, pc) \in RequestStates
      BY CallType, BegunType DEF Pcs
    <3>3. wallet.credits \in Int
      BY <1>0 DEF WalletStates
    <3>4. request'[r].pc = pc /\ request'[r].gen = generation
      <4>1. Begun(r, call, pc).pc = pc
        BY BegunStep DEF Pcs
      <4> QED
        BY <3>1, <3>2, <4>1 DEF RequestStates, TypeOK
    <3> QED
      BY <3>1, <3>4
  <2>3. CASE ReadCache(r, call)
    <3>1. PICK pc \in {"done", "load"} :
            request' = [request EXCEPT ![r] = Begun(r, call, pc)]
      BY <2>3 DEF ReadCache
    <3>2. request'[r].pc = pc
      BY <3>1, BegunStep DEF Pcs, TypeOK
    <3> QED
      BY <2>3, <3>2 DEF ReadCache
  <2>4. CASE RestoreWallet(r, call)
    <3>1. request' = [request EXCEPT ![r] = Begun(r, call, "rejected")]
      BY <2>4 DEF RestoreWallet, LedgerInv, WalletLasts
    <3>2. request'[r].pc = "rejected"
      BY <3>1, BegunStep DEF Pcs, TypeOK
    <3> QED
      BY <3>2
  <2>5. CASE TransactionUpdate(r, call)
    <3> DEFINE subs == {q \in Requests : sub[q] = "active"}
    <3>1. PICK pc \in {"clear", "rejected"} :
            request' = [request EXCEPT ![r] = [Begun(r, call, pc)
              EXCEPT !.subs = subs]]
      BY <2>5 DEF TransactionUpdate
    <3>2. request'[r].pc = pc
      <4>1. subs \in SUBSET Requests
        OBVIOUS
      <4> HIDE DEF subs
      <4> QED
        BY <3>1, <4>1, BegunStep DEF Pcs, TypeOK
    <3> QED
      BY <2>5, <3>2 DEF TransactionUpdate, Transactions
  <2>6. ASSUME NEW t \in Requests, RevokeCredits(r, call, t)
        PROVE  /\ request'[r].pc \in {"commit", "rejected"} /\ call = "refund"
               /\ request'[r].updated => Live
    <3>1. PICK pc \in {"commit", "rejected"} : request' = [request EXCEPT ![r] =
            [Begun(r, call, pc) EXCEPT !.target = t, !.updated = Live]]
      BY <2>6 DEF RevokeCredits
    <3>2. Begun(r, call, pc) \in RequestStates
      BY CallType, BegunType DEF Pcs
    <3>3. request'[r].updated = Live
      BY <1>0, <3>1, <3>2 DEF RequestStates, TypeOK
    <3>4. request'[r].pc = pc
      BY <3>1, LiveType, BegunStep DEF Pcs, TypeOK
    <3> QED
      BY <2>6, <3>3, <3>4 DEF RevokeCredits
  <2>7. ~FindForUpdate(r, call) /\ \A t \in Requests :
          ~FindRow(r, call, t) /\ ~RestoreRow(r, call, t)
    BY <1>0 DEF FindForUpdate, FindRow, RestoreRow, Rowless, OnRows
  <2> QED
    BY <2>1, <2>2, <2>3, <2>4, <2>5, <2>6, <2>7 DEF FirstStep
<1>6. Booked(r)'
  <2>1. Transactions \cap (Grants \cup Movements) = {}
    BY DEF Transactions, Grants, Assigns, Movements
  <2> QED
    BY <1>0, <1>1, <1>5, <2>1 DEF Booked, Finished, Live
<1> QED
  BY <1>2, <1>3, <1>4, <1>6 DEF LedgerInv

LEMMA NextLedger ==
  ASSUME AllRowed', TypeOK, TypeOK', GivenInv, LedgerInv, [Next]_vars
  PROVE  LedgerInv'
<1>1. ASSUME UNCHANGED <<wallet, generation, creditsRow, request, granted, faults>>
      PROVE  LedgerInv'
  <2>1. WalletLasts' /\ \A r \in Requests : Booked(r)'
    BY <1>1 DEF LedgerInv, WalletLasts, Booked, Live
  <2>2. Balanced'
    BY <1>1, SameBalance DEF LedgerInv
  <2> QED
    BY <2>1, <2>2 DEF LedgerInv
<1>2. ASSUME NEW r \in Requests, PeriodEnds(r) PROVE LedgerInv'
  BY <1>1, <1>2 DEF PeriodEnds
<1>3. CASE ExpireSubscriptions
  BY <1>1, <1>3 DEF ExpireSubscriptions
<1>4. CASE UNCHANGED vars
  BY <1>1, <1>4 DEF vars
<1> QED
  BY <1>2, <1>3, <1>4, StepLedger, FirstLedger DEF Next

(* A call that was not made after a step was not made before it.           *)
LEMMA RowedBefore ==
  ASSUME TypeOK, GivenInv, [Next]_vars, AllRowed'
  PROVE  AllRowed
<1>1. ASSUME NEW r \in Requests, Step(r) PROVE AllRowed
  BY <1>1, StepFacts DEF AllRowed
<1>2. ASSUME NEW r \in Requests, NEW call \in Calls, FirstStep(r, call)
      PROVE  AllRowed
  <2>1. request[r].call = "getUserWallet"
    BY <1>2, FirstFacts DEF Start, GivenInv, StepCalls
  <2>2. \A q \in Requests \ {r} : request'[q] = request[q]
    BY <1>2, FirstFacts
  <2> QED
    BY <2>1, <2>2 DEF AllRowed, Rowless, OnRows, Removals, Restores, Updates
<1>3. ASSUME request' = request PROVE AllRowed
  BY <1>3 DEF AllRowed
<1>4. ASSUME NEW r \in Requests, PeriodEnds(r) PROVE AllRowed
  BY <1>3, <1>4 DEF PeriodEnds
<1>5. CASE ExpireSubscriptions
  BY <1>3, <1>5 DEF ExpireSubscriptions
<1>6. CASE UNCHANGED vars
  BY <1>3, <1>6 DEF vars
<1> QED
  BY <1>1, <1>2, <1>4, <1>5, <1>6 DEF Next

LEMMA InitLedger == ASSUME Init PROVE LedgerInv
<1>1. WalletLasts
  BY DEF Init, WalletLasts, NoWallet, Live
<1>2. \A r \in Requests : Booked(r)
  BY DEF Init, Booked, Rowless, OnRows, Removals, Restores, Updates, Finished
<1>3. Moved = {}
  BY DEF Init, Moved
<1>4. Balanced
  BY <1>3, SumEmpty, FS_EmptySet DEF Init, Balanced, NoWallet
<1> QED
  BY <1>1, <1>2, <1>4 DEF LedgerInv

(* With any number of grants, movements, charges, settlements, refunds and *)
(* reads of one account under way together, each interrupted by the others *)
(* wherever it waits, the wallet at rest holds what its CreditsTransaction *)
(* rows add up to less what refunds took back, as long as every row could  *)
(* be inserted and no call without a row was made: $inc loses nothing      *)
(* (assignPackage, giveInitialCredits, giveBonusCredits,                   *)
(* executeCreditsTransaction, decrementWalletCredits,                      *)
(* revokePackageCredits).                                                  *)
THEOREM LedgerIsSum == Spec => []LedgerMatches
<1>1. Init => (AllRowed => LedgerInv)
  BY InitLedger
<1>2. /\ TypeOK /\ TypeOK' /\ GivenInv /\ [Next]_vars
      /\ AllRowed => LedgerInv
      => (AllRowed => LedgerInv)'
  BY RowedBefore, NextLedger
<1>3. (AllRowed => LedgerInv) => LedgerMatches
  <2>1. SUFFICES ASSUME LedgerInv, Idle, faults = 0
                 PROVE  wallet.credits
                          = SumFunctionOnSet(Signed, Recorded \cup Refunded)
    BY DEF LedgerMatches, AllRowed
  <2>2. \A r \in Requests : request[r].pc \in Finished \cup {"idle"}
    BY <2>1 DEF Idle, UnderWay
  <2>3. \A r \in Requests :
          granted[r] # 0 <=> \/ creditsRow[r] = "live"
                             \/ request[r].call = "refund" /\ granted[r] # 0
    BY <2>1, <2>2 DEF LedgerInv, Booked
  <2>4. Moved = Recorded \cup Refunded
    BY <2>3 DEF Moved, Recorded, Refunded
  <2> QED
    BY <2>1, <2>4 DEF LedgerInv, Balanced
<1> QED
  BY <1>1, <1>2, <1>3, TypeCorrect, GivenAlways, PTL DEF Spec
=============================================================================
