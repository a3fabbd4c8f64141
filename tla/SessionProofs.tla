--------------------------- MODULE SessionProofs ---------------------------
(***************************************************************************)
(* Theorems about what a session rests on, live and replayed.              *)
(*                                                                         *)
(* About MarketSession, for all answers of the broker, all account         *)
(* settings and any number of failures: the types, that only a practice    *)
(* account trades, that a start ends on a quote, and that the flag of the  *)
(* stream tells the truth.                                                 *)
(*                                                                         *)
(* About ReplayExecution, for all recordings, sizes and distances of the   *)
(* exits: every move of the engine's position is priced by enough fills    *)
(* of its side, and every pending exit is on record.                       *)
(***************************************************************************)
EXTENDS MarketSession, ReplayExecution,
        FiniteSetTheorems, SequenceTheorems, WellFoundedInduction, TLAPS

-----------------------------------------------------------------------------
(* With the broker *)

\* A place that is chosen from some is one of them: there is a first.
LEMMA FirstOfIsOne ==
  ASSUME NEW accounts, NEW places \in SUBSET Nat
  PROVE  \/ places = {} /\ FirstOf(accounts, places) = NoAccount
         \/ \E i \in places : FirstOf(accounts, places) = accounts[i]
<1>1. CASE places = {}
  BY <1>1 DEF FirstOf
<1>2. CASE places # {}
  <2>1. PICK i \in places : \A j \in places : <<j, i>> \notin OpToRel(<, Nat)
    BY <1>2, NatLessThanWellFounded, WFMin
  <2>2. \A j \in places : i <= j
    <3> SUFFICES ASSUME NEW j \in places PROVE i <= j
      OBVIOUS
    <3>1. <<j, i>> \in Nat \X Nat /\ <<j, i>>[1] = j /\ <<j, i>>[2] = i
      OBVIOUS
    <3>2. ~(<<j, i>>[1] < <<j, i>>[2])
      BY <2>1, <3>1, Zenon DEF OpToRel
    <3>3. QED
      BY <3>1, <3>2
  <2>3. (CHOOSE k \in places : \A j \in places : k <= j) \in places
    BY <2>2
  <2>4. QED
    BY <1>2, <2>3 DEF FirstOf
<1>3. QED
  BY <1>1, <1>2

\* _select_account answers with nothing, or with an account of the list that
\* can trade and, where that is required, is one for practice.
Allowed(acc) == acc.can_trade /\ (RequirePractice => acc.practice)

\* So it does, wherever the account is.
LEMMA SelectedIsAllowed ==
  ASSUME NEW accounts \in AccountLists,
         _select_account(accounts) # NoAccount
  PROVE  /\ _select_account(accounts) \in Listed
         /\ Allowed(_select_account(accounts))
<1> DEFINE tradable  == {i \in DOMAIN accounts : accounts[i].can_trade}
           pref(i)   == accounts[i].id = PreferredId
           preferred == FirstOf(accounts, {i \in tradable : pref(i)})
           practice  == FirstOf(accounts,
                          {i \in tradable : _is_practice_account(accounts[i])})
           near      == FirstOf(accounts, {i \in tradable : accounts[i].near_target})
           visible   == FirstOf(accounts, {i \in tradable : accounts[i].visible})
           any       == OrElse(near, OrElse(visible, FirstOf(accounts, tradable)))
           Tradable(acc) == \E i \in tradable : acc = accounts[i]
<1>1. tradable \in SUBSET Nat
  BY SessionConfig DEF SessionConfig
<1>2. \A acc : Tradable(acc) => acc \in Listed /\ acc.can_trade
  BY DEF Listed
<1>3. preferred = NoAccount \/ Tradable(preferred)
  BY <1>1, FirstOfIsOne
<1>4. practice = NoAccount \/ (Tradable(practice) /\ practice.practice)
  BY <1>1, FirstOfIsOne DEF _is_practice_account
<1>5. near = NoAccount \/ Tradable(near)
  BY <1>1, FirstOfIsOne
<1>6. visible = NoAccount \/ Tradable(visible)
  BY <1>1, FirstOfIsOne
<1>7. FirstOf(accounts, tradable) = NoAccount \/ Tradable(FirstOf(accounts, tradable))
  BY <1>1, FirstOfIsOne
<1>8. any = NoAccount \/ Tradable(any)
  BY <1>5, <1>6, <1>7 DEF OrElse
<1>9. _select_account(accounts) =
        IF preferred # NoAccount
        THEN IF RequirePractice /\ ~_is_practice_account(preferred) THEN NoAccount
             ELSE preferred
        ELSE IF practice # NoAccount THEN practice
        ELSE IF RequirePractice THEN NoAccount ELSE any
  BY DEF _select_account
<1> HIDE DEF preferred, practice, any, Tradable
<1>10. QED
  BY <1>2, <1>3, <1>4, <1>8, <1>9 DEF Allowed, _is_practice_account

-----------------------------------------------------------------------------
\* Every step of the three threads keeps every variable in its type.
THEOREM TypeCorrect == Spec => []TypeOK
<1> USE DEF CallerTyped, StreamTyped, HubTyped, StartTogether,
      Starting, Stopping, Settled, StreamAt, HubAt, Sockets
<1>1. Init => TypeOK
  <2> SUFFICES ASSUME Init PROVE TypeOK
    OBVIOUS
  <2>1. faults \in 0..MaxFaults
    BY SessionConfig DEF Init, SessionConfig
  <2>2. CallerTyped
    BY Zenon DEF Init
  <2>3. StreamTyped
    BY Zenon DEF Init
  <2>4. HubTyped /\ StartTogether
    BY Zenon DEF Init
  <2>5. QED
    BY <2>1, <2>2, <2>3, <2>4 DEF TypeOK
<1>2. TypeOK /\ [Next]_vars => TypeOK'
  <2> SUFFICES ASSUME TypeOK, [Next]_vars PROVE TypeOK'
    OBVIOUS
  <2>0. /\ CallerTyped /\ StreamTyped /\ HubTyped /\ StartTogether
        /\ faults \in 0..MaxFaults
    BY DEF TypeOK
  <2> SUFFICES /\ CallerTyped' /\ StreamTyped' /\ HubTyped' /\ StartTogether'
               /\ faults' \in 0..MaxFaults
    BY DEF TypeOK
  <2>A. ASSUME UNCHANGED <<stream, socket, ws, connected, stream_ready, stream_error>>
        PROVE  StreamTyped'
    BY <2>0, <2>A
  <2>B. ASSUME UNCHANGED <<hub, hub_socket, hub_ws, hub_connected, hub_stop>>
        PROVE  HubTyped'
    BY <2>0, <2>B
  <2>C. ASSUME UNCHANGED <<engine, token, account, failed, quoted>>
        PROVE  CallerTyped'
    BY <2>0, <2>C
  <2>D. ASSUME UNCHANGED <<stream, hub>> PROVE StartTogether'
    BY <2>0, <2>D
  <2>E. faults' \in 0..MaxFaults
    <3>1. ASSUME Fails \/ RequestFails \/ UNCHANGED faults
          PROVE  faults' \in 0..MaxFaults
      BY <2>0, <3>1, SessionConfig DEF Fails, RequestFails, SessionConfig
    <3>2. CallerStep => Fails \/ RequestFails \/ UNCHANGED faults
      BY DEF CallerStep, authenticate, get_account, start_market_stream,
         wait_for_market_stream, StartDone, stop_user_hub_listener, join_user_hub,
         close_stream, join_stream, Caller
    <3>3. StreamThread \/ _handle_ws_message => Fails \/ UNCHANGED faults
      BY DEF StreamThread, _ws_dial, _signalr_handshake, MarketCallback, _ws_listen,
         _handle_ws_message
    <3>4. HubThread \/ _handle_user_hub_message => Fails \/ UNCHANGED faults
      BY DEF HubThread, HubLoop, _user_hub_dial, _user_hub_subscribe,
         _user_hub_enter, _user_hub_listen, _handle_user_hub_message
    <3>5. stop \/ TokenExpires \/ get_broker_truth_bundle \/ UNCHANGED vars
            => Fails \/ RequestFails \/ UNCHANGED faults
      BY DEF stop, TokenExpires, get_broker_truth_bundle, vars
    <3>6. QED
      BY <3>1, <3>2, <3>3, <3>4, <3>5 DEF Next
  <2>1. CASE authenticate
    BY <2>0, <2>1, <2>A, <2>B, <2>D, <2>E
       DEF authenticate, StartFails, market, user_hub
  <2>2. CASE get_account
    <3>1. account' \in Listed \cup {NoAccount}
      <4>1. ASSUME NEW accounts \in AccountLists,
                   account' = _select_account(accounts)
            PROVE  account' \in Listed \cup {NoAccount}
        BY <4>1, SelectedIsAllowed
      <4>2. QED
        BY <2>0, <2>2, <4>1 DEF get_account
    <3>2. /\ engine' \in {"failed", "streams"} /\ failed' \in {TRUE, failed}
          /\ UNCHANGED <<token, quoted>>
      BY <2>2 DEF get_account, StartFails
    <3>3. CallerTyped'
      BY <2>0, <3>1, <3>2
    <3>4. QED
      BY <2>2, <2>A, <2>B, <2>D, <2>E, <3>3 DEF get_account, market, user_hub
  <2>3. CASE start_market_stream
    <3>1. CallerTyped'
      BY <2>0, <2>3 DEF start_market_stream, login
    <3>2. StreamTyped'
      BY <2>0, <2>3 DEF start_market_stream
    <3>3. HubTyped' /\ StartTogether'
      BY <2>0, <2>3 DEF start_market_stream
    <3>4. QED
      BY <2>E, <3>1, <3>2, <3>3
  <2>4. CASE wait_for_market_stream
    BY <2>0, <2>4, <2>A, <2>B, <2>D, <2>E
       DEF wait_for_market_stream, login, market, user_hub
  <2>5. CASE StartDone \/ stop
    BY <2>0, <2>5, <2>A, <2>B, <2>D, <2>E
       DEF StartDone, stop, login, market, user_hub
  <2>6. CASE TokenExpires \/ get_broker_truth_bundle
    BY <2>0, <2>6, <2>A, <2>B, <2>D, <2>E
       DEF TokenExpires, get_broker_truth_bundle, market, user_hub
  <2>7. CASE StreamThread \/ _handle_ws_message
    <3> USE DEF StreamFails, StreamEnds, StreamEndsQuietly
    <3>1. /\ UNCHANGED <<engine, token, account, failed>>
          /\ UNCHANGED <<hub, hub_socket, hub_ws, hub_connected, hub_stop>>
          /\ quoted' \in {TRUE, quoted}
      BY <2>7 DEF StreamThread, _ws_dial, _signalr_handshake, MarketCallback,
         _ws_listen, _handle_ws_message, login, user_hub
    <3>2. stream # "none" /\ stream' # "none"
      BY <2>7 DEF StreamThread, _ws_dial, _signalr_handshake, MarketCallback,
         _ws_listen, _handle_ws_message
    <3>3. CallerTyped' /\ HubTyped' /\ StartTogether'
      BY <2>0, <2>B, <3>1, <3>2
    <3>4. CASE _ws_dial
      <4>1. CASE stream' = "handshake"
        <5>1. /\ ws' = TRUE /\ socket' = "open"
              /\ UNCHANGED <<connected, stream_error, stream_ready>>
          BY <3>4, <4>1 DEF _ws_dial
        <5>2. QED
          BY <2>0, <2>E, <3>3, <4>1, <5>1
      <4>2. CASE StreamFails /\ UNCHANGED ws
        BY <2>0, <2>E, <3>3, <4>2
      <4>3. QED
        BY <3>4, <4>1, <4>2 DEF _ws_dial
    <3>5. CASE _signalr_handshake
      BY <2>0, <2>E, <3>3, <3>5 DEF _signalr_handshake
    <3>6. CASE MarketCallback
      BY <2>0, <2>E, <3>3, <3>6 DEF MarketCallback
    <3>7. CASE _ws_listen
      BY <2>0, <2>E, <3>3, <3>7 DEF _ws_listen
    <3>8. CASE _handle_ws_message
      BY <2>0, <2>E, <3>3, <3>8 DEF _handle_ws_message
    <3>9. QED
      BY <2>7, <3>4, <3>5, <3>6, <3>7, <3>8 DEF StreamThread
  <2>8. CASE HubThread \/ _handle_user_hub_message
    <3> USE DEF HubFails, HubEnds
    <3>1. /\ UNCHANGED <<engine, token, account, failed, quoted>>
          /\ UNCHANGED <<stream, socket, ws, connected, stream_ready, stream_error>>
      BY <2>8 DEF HubThread, HubLoop, _user_hub_dial, _user_hub_subscribe,
         _user_hub_enter, _user_hub_listen, _handle_user_hub_message, login, market
    <3>2. hub # "none" /\ hub' # "none"
      BY <2>8 DEF HubThread, HubLoop, _user_hub_run_loop, _user_hub_dial,
         _user_hub_subscribe, _user_hub_enter, _user_hub_listen,
         _handle_user_hub_message
    <3>3. CallerTyped' /\ StreamTyped' /\ StartTogether'
      BY <2>0, <2>A, <2>C, <3>1, <3>2
    <3>4. CASE HubLoop
      BY <2>0, <2>E, <3>3, <3>4 DEF HubLoop, _user_hub_run_loop
    <3>5. CASE _user_hub_dial
      <4>1. CASE hub' = "subscribe"
        <5>1. hub_ws' = TRUE /\ hub_socket' = "open" /\ UNCHANGED <<hub_connected, hub_stop>>
          BY <3>5, <4>1 DEF _user_hub_dial
        <5>2. QED
          BY <2>0, <2>E, <3>3, <4>1, <5>1
      <4>2. CASE HubFails /\ UNCHANGED <<hub_ws, hub_socket, hub_stop>>
        BY <2>0, <2>E, <3>3, <4>2
      <4>3. QED
        BY <3>5, <4>1, <4>2 DEF _user_hub_dial
    <3>6. CASE _user_hub_subscribe
      BY <2>0, <2>E, <3>3, <3>6 DEF _user_hub_subscribe
    <3>7. CASE _user_hub_enter
      BY <2>0, <2>E, <3>3, <3>7 DEF _user_hub_enter
    <3>8. CASE _user_hub_listen
      BY <2>0, <2>E, <3>3, <3>8 DEF _user_hub_listen
    <3>9. CASE _handle_user_hub_message
      BY <2>0, <2>E, <3>3, <3>9 DEF _handle_user_hub_message
    <3>10. QED
      BY <2>8, <3>4, <3>5, <3>6, <3>7, <3>8, <3>9 DEF HubThread
  <2>9. CASE stop_user_hub_listener \/ join_user_hub
    <3>1. /\ engine' \in Stopping /\ UNCHANGED <<token, account, failed, quoted>>
          /\ UNCHANGED <<stream, socket, ws, connected, stream_ready, stream_error>>
          /\ UNCHANGED hub
      BY <2>9 DEF stop_user_hub_listener, join_user_hub, Caller, login, market
    <3>2. HubTyped'
      <4>1. /\ hub_socket' \in {hub_socket, "closed"}
            /\ (hub_ws' = hub_ws \/ hub_ws' = FALSE)
            /\ (hub_stop' = hub_stop \/ hub_stop' = TRUE)
            /\ (hub_connected' = hub_connected \/ hub_connected' = FALSE)
        BY <2>9 DEF stop_user_hub_listener, join_user_hub, Caller
      <4>2. hub_ws' \in BOOLEAN /\ hub_stop' \in BOOLEAN /\ hub_connected' \in BOOLEAN
        BY <2>0, <4>1, Zenon
      <4>3. hub_ws' => hub_ws
        BY <4>1, Zenon
      <4>4. QED
        BY <2>0, <3>1, <4>1, <4>2, <4>3
    <3>3. QED
      BY <2>0, <2>A, <2>D, <2>E, <3>1, <3>2
  <2>10. CASE close_stream \/ join_stream
    <3>1. StreamTyped'
      <4>1. /\ socket' \in {socket, "closed"} /\ (ws' = ws \/ ws' = FALSE)
            /\ (connected' = connected \/ connected' = FALSE)
            /\ UNCHANGED <<stream, stream_ready, stream_error>>
        BY <2>10 DEF close_stream, join_stream
      <4>2. ws' \in BOOLEAN /\ connected' \in BOOLEAN
        BY <2>0, <4>1, Zenon
      <4>3. ws' => ws
        BY <4>1, Zenon
      <4>4. QED
        BY <2>0, <4>1, <4>2, <4>3
    <3>2. QED
      BY <2>0, <2>10, <2>B, <2>D, <2>E, <3>1
         DEF close_stream, join_stream, login, user_hub
  <2>11. CASE UNCHANGED vars
    BY <2>11, <2>A, <2>B, <2>C, <2>D, <2>E DEF vars, login, market, user_hub
  <2>12. QED
    BY <2>1, <2>2, <2>3, <2>4, <2>5, <2>6, <2>7, <2>8, <2>9, <2>10, <2>11
       DEF Next, CallerStep
<1>3. QED
  BY <1>1, <1>2, PTL DEF Spec

-----------------------------------------------------------------------------
(***************************************************************************)
(* The invariant of the session: the account is chosen before the streams  *)
(* run, a stream that is ready without an error has seen a quote, and the  *)
(* flag is set while the thread listens.                                   *)
(***************************************************************************)
AccountChosen ==
  /\ account # NoAccount => Allowed(account)
  /\ engine \in {"new", "account", "streams"} => stream = "none"
  /\ engine = "streams" => account # NoAccount
  /\ stream # "none" => account # NoAccount
ReadyOnQuote ==
  /\ stream_ready /\ ~stream_error => quoted
  /\ StartedOnQuote
SessionInvariant == AccountChosen /\ ReadyOnQuote /\ ConnectedMeansListening

\* They hold throughout.
LEMMA SessionInvariantHolds == Spec => []SessionInvariant
<1> USE DEF SessionInvariant, AccountChosen, ReadyOnQuote, StartedOnQuote,
      ConnectedMeansListening
<1>1. Init => SessionInvariant
  BY DEF Init
<1>2. TypeOK /\ SessionInvariant /\ [Next]_vars => SessionInvariant'
  <2> SUFFICES ASSUME TypeOK, SessionInvariant, [Next]_vars
               PROVE  SessionInvariant'
    OBVIOUS
  <2>0. /\ stream_ready \in BOOLEAN /\ stream_error \in BOOLEAN
        /\ connected \in BOOLEAN /\ quoted \in BOOLEAN
    BY DEF TypeOK, CallerTyped, StreamTyped
  <2>1. CASE authenticate
    BY <2>1 DEF authenticate, RequestFails, StartFails, Fails, market, user_hub
  <2>2. CASE get_account
    <3>1. account' # NoAccount => Allowed(account')
      BY <2>2, SelectedIsAllowed DEF get_account
    <3>2. QED
      BY <2>2, <3>1 DEF get_account, RequestFails, StartFails, market, user_hub,
         Allowed
  <2>3. CASE start_market_stream
    BY <2>3 DEF start_market_stream, login
  <2>4. CASE wait_for_market_stream
    BY <2>4 DEF wait_for_market_stream, login, market, user_hub
  <2>5. CASE StartDone \/ stop
    BY <2>5 DEF StartDone, stop, login, market, user_hub
  <2>6. CASE TokenExpires \/ get_broker_truth_bundle
    BY <2>6 DEF TokenExpires, get_broker_truth_bundle, Fails, RequestFails, market, user_hub
  <2>7. CASE StreamThread \/ _handle_ws_message
    <3> USE DEF StreamFails, StreamEnds, StreamEndsQuietly, Fails, login, user_hub
    <3>1. CASE _ws_dial
      BY <2>0, <3>1 DEF _ws_dial
    <3>2. CASE _signalr_handshake
      BY <2>0, <3>2 DEF _signalr_handshake
    <3>3. CASE MarketCallback
      BY <2>0, <3>3 DEF MarketCallback
    <3>4. CASE _ws_listen
      BY <2>0, <3>4 DEF _ws_listen
    <3>5. CASE _handle_ws_message
      BY <2>0, <3>5 DEF _handle_ws_message
    <3>6. QED
      BY <2>7, <3>1, <3>2, <3>3, <3>4, <3>5 DEF StreamThread
  <2>8. CASE HubThread \/ _handle_user_hub_message
    <3>1. UNCHANGED <<engine, account, stream, socket, connected, stream_ready,
                      stream_error, quoted>>
      BY <2>8 DEF HubThread, HubLoop, _user_hub_dial, _user_hub_subscribe,
         _user_hub_enter, _user_hub_listen, _handle_user_hub_message, login, market
    <3>2. QED
      BY <3>1 DEF Allowed
  <2>9. CASE stop_user_hub_listener \/ join_user_hub
    BY <2>9 DEF stop_user_hub_listener, join_user_hub, Caller, login, market
  <2>10. CASE close_stream \/ join_stream
    BY <2>0, <2>10 DEF close_stream, join_stream, login, user_hub
  <2>11. CASE UNCHANGED vars
    BY <2>11 DEF vars, login, market, user_hub
  <2>12. QED
    BY <2>1, <2>2, <2>3, <2>4, <2>5, <2>6, <2>7, <2>8, <2>9, <2>10, <2>11
       DEF Next, CallerStep
<1>3. QED
  BY <1>1, <1>2, TypeCorrect, PTL DEF Spec

\* For every list of accounts: what streams, and so what can trade, is an
\* account that can trade and, where that is required, one for practice.
THEOREM OnlyPracticeTrades == Spec => []PracticeOnly
<1>1. SessionInvariant => PracticeOnly
  BY DEF SessionInvariant, AccountChosen, PracticeOnly, Allowed
<1>2. QED
  BY <1>1, SessionInvariantHolds, PTL

\* However many requests fail and however often the caller looks: a start that
\* succeeds has seen a quote.
THEOREM StartSeesQuote == Spec => []StartedOnQuote
<1>1. SessionInvariant => StartedOnQuote
  BY DEF SessionInvariant, ReadyOnQuote
<1>2. QED
  BY <1>1, SessionInvariantHolds, PTL

\* The flag of the market stream is never set beside a thread that is gone.
THEOREM FlagIsTrue == Spec => []ConnectedMeansListening
<1>1. SessionInvariant => ConnectedMeansListening
  BY DEF SessionInvariant
<1>2. QED
  BY <1>1, SessionInvariantHolds, PTL

-----------------------------------------------------------------------------
(* Induction and folds, for the orders and fills of a replay *)

\* A set with 0 that has n + 1 with each n has all natural numbers.  The
\* library states induction for an operator; this is its form for a set.
LEMMA InductionOverNat ==
  ASSUME NEW Q, 0 \in Q, \A n \in Nat : n \in Q => n + 1 \in Q
  PROVE  \A n \in Nat : n \in Q
<1> SUFFICES ASSUME Nat \ Q # {} PROVE FALSE
  OBVIOUS
<1>1. PICK x \in Nat \ Q : \A y \in Nat \ Q : ~(<<y, x>> \in OpToRel(<, Nat))
  <2>1. Nat \ Q \subseteq Nat
    OBVIOUS
  <2>2. QED
    BY <2>1, NatLessThanWellFounded, WFMin
<1>2. x # 0 /\ x - 1 \in Nat /\ (x - 1) + 1 = x
  OBVIOUS
<1>3. x - 1 \in Nat \ Q
  BY <1>2
<1>4. <<x - 1, x>> \in OpToRel(<, Nat)
  BY <1>2 DEF OpToRel
<1>5. QED
  BY <1>1, <1>3, <1>4

\* The maximum of a set of positions.
LEMMA MaxOfPositions ==
  ASSUME NEW n \in Nat, NEW S \in SUBSET (1..n), S # {}
  PROVE  Max(S) \in S /\ \A y \in S : y <= Max(S)
<1> DEFINE Q == {m \in Nat : \A T \in SUBSET (1..m) :
                   T # {} => \E x \in T : \A y \in T : y <= x}
<1>1. 0 \in Q
  <2>1. \A T \in SUBSET (1..0) : T = {}
    OBVIOUS
  <2>2. QED
    BY <2>1
<1>2. ASSUME NEW m \in Nat, m \in Q PROVE m + 1 \in Q
  <2> SUFFICES ASSUME NEW T \in SUBSET (1..(m + 1)), T # {}
               PROVE  \E x \in T : \A y \in T : y <= x
    OBVIOUS
  <2>1. CASE m + 1 \in T
    BY <2>1
  <2>2. CASE m + 1 \notin T
    <3>1. T \in SUBSET (1..m)
      BY <2>2
    <3>2. QED
      BY <1>2, <3>1
  <2>3. QED
    BY <2>1, <2>2
<1>3. n \in Q
  <2> HIDE DEF Q
  <2>1. QED
    BY <1>1, <1>2, InductionOverNat
<1>4. \E x \in S : \A y \in S : x >= y
  BY <1>3
<1>5. QED
  BY <1>4 DEF Max


\* The positions up to k + 1, without the last of them.
LEMMA PrefixPositions ==
  ASSUME NEW n \in Nat, NEW k \in 0..(n - 1)
  PROVE  /\ 1..(k + 1) \in SUBSET (1..n) /\ 1..(k + 1) # {}
         /\ Max(1..(k + 1)) = k + 1 /\ (1..(k + 1)) \ {k + 1} = 1..k
<1> DEFINE S == 1..(k + 1)
<1>1. k + 1 \in Nat /\ S \in SUBSET (1..(k + 1)) /\ S # {} /\ k + 1 \in S
  OBVIOUS
<1>2. Max(S) \in S /\ \A y \in S : y <= Max(S)
  <2> HIDE DEF S
  <2> QED BY <1>1, MaxOfPositions
<1>3. Max(S) = k + 1
  BY <1>1, <1>2
<1> QED BY <1>1, <1>3

-----------------------------------------------------------------------------
(***************************************************************************)
(* A fold is the value of a function that is chosen by an equation on sets *)
(* of positions.  That some function meets the equation is shown by        *)
(* induction on the length, for the fold of a function of pairs.           *)
(***************************************************************************)
\* A function that meets the equation for the sets of the first n positions.
FoldsUpTo(h, A, g, base, s, n) ==
  /\ h \in [SUBSET (1..n) -> A]
  /\ \A S \in SUBSET (1..n) :
       h[S] = IF S = {} THEN base ELSE g[<<h[S \ {Max(S)}], s[Max(S)]>>]

\* One position more.
LEMMA FoldExtends ==
  ASSUME NEW A, NEW B, NEW g \in [A \X B -> A], NEW base \in A,
         NEW s \in Seq(B), NEW n \in Nat, n + 1 <= Len(s),
         NEW h, FoldsUpTo(h, A, g, base, s, n)
  PROVE  \E longer : FoldsUpTo(longer, A, g, base, s, n + 1)
<1>1. s[n + 1] \in B
  BY ElementOfSeq
<1> DEFINE longer == [S \in SUBSET (1..(n + 1)) |->
                        IF n + 1 \in S THEN g[<<h[S \ {n + 1}], s[n + 1]>>] ELSE h[S]]
<1>2. h \in [SUBSET (1..n) -> A]
  BY DEF FoldsUpTo
<1>3. longer \in [SUBSET (1..(n + 1)) -> A]
  <2> SUFFICES ASSUME NEW S \in SUBSET (1..(n + 1))
               PROVE  (IF n + 1 \in S THEN g[<<h[S \ {n + 1}], s[n + 1]>>]
                       ELSE h[S]) \in A
    OBVIOUS
  <2>1. S \ {n + 1} \in SUBSET (1..n)
    OBVIOUS
  <2>2. h[S \ {n + 1}] \in A
    BY <2>1, <1>2
  <2>3. <<h[S \ {n + 1}], s[n + 1]>> \in A \X B
    BY <1>1, <2>2
  <2>4. n + 1 \notin S => h[S] \in A
    BY <1>2
  <2> QED BY <2>3, <2>4
<1>4. ASSUME NEW S \in SUBSET (1..(n + 1)), S # {}, n + 1 \in S
      PROVE  longer[S] = g[<<longer[S \ {Max(S)}], s[Max(S)]>>]
  <2>1. Max(S) \in S /\ n + 1 <= Max(S)
    <3>1. n + 1 \in Nat
      OBVIOUS
    <3> QED BY <1>4, <3>1, MaxOfPositions
  <2>2. Max(S) = n + 1
    <3>1. Max(S) \in 1..(n + 1)
      BY <2>1
    <3> QED BY <2>1, <3>1
  <2>3. S \ {n + 1} \in SUBSET (1..(n + 1)) /\ n + 1 \notin S \ {n + 1}
    OBVIOUS
  <2>4. longer[S \ {n + 1}] = h[S \ {n + 1}]
    BY <2>3
  <2> QED BY <1>4, <2>2, <2>4
<1>5. ASSUME NEW S \in SUBSET (1..(n + 1)), S # {}, n + 1 \notin S
      PROVE  longer[S] = g[<<longer[S \ {Max(S)}], s[Max(S)]>>]
  <2>1. S \in SUBSET (1..n) /\ longer[S] = h[S]
    BY <1>5
  <2>2. S \ {Max(S)} \in SUBSET (1..(n + 1)) /\ n + 1 \notin S \ {Max(S)}
    BY <1>5
  <2>3. longer[S \ {Max(S)}] = h[S \ {Max(S)}]
    BY <2>2
  <2>4. h[S] = g[<<h[S \ {Max(S)}], s[Max(S)]>>]
    BY <1>5, <2>1 DEF FoldsUpTo
  <2> QED BY <2>1, <2>3, <2>4
<1>6. longer[{}] = base
  BY DEF FoldsUpTo
<1>7. FoldsUpTo(longer, A, g, base, s, n + 1)
  <2> HIDE DEF longer
  <2> QED BY <1>3, <1>4, <1>5, <1>6 DEF FoldsUpTo
<1> QED BY <1>7

\* There is such a function for all positions.
LEMMA FoldExists ==
  ASSUME NEW A, NEW B, NEW g \in [A \X B -> A], NEW base \in A, NEW s \in Seq(B)
  PROVE  \E h : FoldsUpTo(h, A, g, base, s, Len(s))
<1> DEFINE Q == {n \in Nat : n <= Len(s) => \E h : FoldsUpTo(h, A, g, base, s, n)}
<1>1. 0 \in Q
  <2>1. FoldsUpTo([S \in SUBSET (1..0) |-> base], A, g, base, s, 0)
    BY DEF FoldsUpTo
  <2> QED BY <2>1
<1>2. ASSUME NEW n \in Nat, n \in Q PROVE n + 1 \in Q
  <2>1. CASE n + 1 <= Len(s)
    <3>1. \E h : FoldsUpTo(h, A, g, base, s, n)
      BY <1>2, <2>1
    <3>2. \E h : FoldsUpTo(h, A, g, base, s, n + 1)
      BY <3>1, <2>1, FoldExtends
    <3> QED BY <3>2
  <2> QED BY <2>1
<1>3. Len(s) \in Nat
  OBVIOUS
<1>4. Len(s) \in Q
  <2> HIDE DEF Q
  <2> QED BY <1>1, <1>2, <1>3, InductionOverNat
<1> QED BY <1>3, <1>4

-----------------------------------------------------------------------------
(* The orders that stay when some are taken out *)

OrderType == [id : Nat, role : Roles, side : {1, -1},
              type : {"market", "limit", "stop"}, price : Int, left : Nat]

\* The equation of the function that Without is an application of.
KeptOf(iter, s, ids) ==
  iter = [S \in SUBSET DOMAIN s |->
            IF S = {} THEN <<>>
            ELSE IF s[Max(S)].id \in ids THEN iter[S \ {Max(S)}]
                 ELSE Append(iter[S \ {Max(S)}], s[Max(S)])]

\* What is kept of the first orders, one after the other.
RunningKept(iter, s, ids) ==
  /\ iter[1..0] = <<>>
  /\ \A k \in 0..(Len(s) - 1) :
       iter[1..(k + 1)] = IF s[k + 1].id \in ids THEN iter[1..k]
                          ELSE Append(iter[1..k], s[k + 1])

\* Without is the last of them.
LEMMA KeptRun ==
  ASSUME NEW s \in Seq(OrderType), NEW ids
  PROVE  \E iter : RunningKept(iter, s, ids) /\ Without(s, ids) = iter[1..Len(s)]
<1> DEFINE kept == CHOOSE iter : KeptOf(iter, s, ids)
<1>1. Without(s, ids) = kept[DOMAIN s]
  <2>1. Without(s, ids) = (CHOOSE iter : iter = [S \in SUBSET DOMAIN s |->
           IF S = {} THEN <<>>
           ELSE IF s[Max(S)].id \in ids THEN iter[S \ {Max(S)}]
                ELSE Append(iter[S \ {Max(S)}], s[Max(S)])])[DOMAIN s]
    BY DEF Without, FoldLeft, MapThenFoldSet
  <2> QED BY <2>1 DEF KeptOf
<1>2. DOMAIN s = 1..Len(s) /\ Len(s) \in Nat
  OBVIOUS
<1>3. KeptOf(kept, s, ids)
  <2> DEFINE A == Seq(OrderType)
             g == [p \in A \X OrderType |->
                     IF p[2].id \in ids THEN p[1] ELSE Append(p[1], p[2])]
  <2>1. g \in [A \X OrderType -> A] /\ <<>> \in A
    BY AppendProperties
  <2>2. \A orders \in A, o \in OrderType :
          g[<<orders, o>>] = IF o.id \in ids THEN orders ELSE Append(orders, o)
    OBVIOUS
  <2> HIDE DEF g
  <2>3. PICK h : FoldsUpTo(h, A, g, <<>>, s, Len(s))
    BY <2>1, FoldExists
  <2>4. ASSUME NEW S \in SUBSET (1..Len(s)), S # {}
        PROVE  g[<<h[S \ {Max(S)}], s[Max(S)]>>]
                 = IF s[Max(S)].id \in ids THEN h[S \ {Max(S)}]
                   ELSE Append(h[S \ {Max(S)}], s[Max(S)])
    <3>1. Max(S) \in 1..Len(s)
      BY <1>2, <2>4, MaxOfPositions
    <3>2. S \ {Max(S)} \in SUBSET (1..Len(s)) /\ h \in [SUBSET (1..Len(s)) -> A]
      BY <2>3 DEF FoldsUpTo
    <3>3. h[S \ {Max(S)}] \in A /\ s[Max(S)] \in OrderType
      BY <3>1, <3>2, ElementOfSeq
    <3> QED BY <2>2, <3>3
  <2>5. KeptOf(h, s, ids)
    BY <1>2, <2>3, <2>4 DEF FoldsUpTo, KeptOf
  <2> QED BY <2>5
<1> HIDE DEF kept
<1>4. kept[1..0] = <<>>
  <2>1. 1..0 = {}
    OBVIOUS
  <2> QED BY <1>2, <1>3, <2>1 DEF KeptOf
<1>5. ASSUME NEW k \in 0..(Len(s) - 1)
      PROVE  kept[1..(k + 1)] = IF s[k + 1].id \in ids THEN kept[1..k]
                                ELSE Append(kept[1..k], s[k + 1])
  <2>1. /\ 1..(k + 1) \in SUBSET (1..Len(s)) /\ 1..(k + 1) # {}
        /\ Max(1..(k + 1)) = k + 1 /\ (1..(k + 1)) \ {k + 1} = 1..k
    BY <1>2, PrefixPositions
  <2> QED BY <1>2, <1>3, <2>1 DEF KeptOf
<1> QED BY <1>1, <1>2, <1>4, <1>5 DEF RunningKept

\* Orders of different names.
Distinct(s) == \A i, j \in DOMAIN s : s[i].id = s[j].id => i = j

\* What is kept of the first k orders.
KeptOfFirst(t, s, ids, k) ==
  /\ t \in Seq(OrderType)
  /\ \A j \in DOMAIN t : t[j].id \notin ids /\ \E i \in 1..k : t[j] = s[i]
  /\ \A i \in 1..k : s[i].id \notin ids => \E j \in DOMAIN t : t[j] = s[i]
  /\ Distinct(s) => Distinct(t)

\* One order more.
LEMMA KeptExtends ==
  ASSUME NEW s \in Seq(OrderType), NEW ids, NEW k \in 0..(Len(s) - 1),
         NEW t, KeptOfFirst(t, s, ids, k), s[k + 1].id \notin ids
  PROVE  KeptOfFirst(Append(t, s[k + 1]), s, ids, k + 1)
<1> DEFINE more == Append(t, s[k + 1])
<1>1. t \in Seq(OrderType) /\ s[k + 1] \in OrderType /\ DOMAIN s = 1..Len(s)
  BY ElementOfSeq DEF KeptOfFirst
<1>2. /\ more \in Seq(OrderType) /\ Len(more) = Len(t) + 1 /\ Len(t) \in Nat
      /\ \A j \in 1..Len(t) : more[j] = t[j]
      /\ more[Len(t) + 1] = s[k + 1]
      /\ DOMAIN t = 1..Len(t) /\ DOMAIN more = 1..(Len(t) + 1)
  BY <1>1, AppendProperties
<1> HIDE DEF more
<1>3. \A j \in DOMAIN more : more[j].id \notin ids /\ \E i \in 1..(k + 1) : more[j] = s[i]
  <2> SUFFICES ASSUME NEW j \in DOMAIN more
               PROVE  more[j].id \notin ids /\ \E i \in 1..(k + 1) : more[j] = s[i]
    OBVIOUS
  <2>1. CASE j \in 1..Len(t)
    <3>1. t[j].id \notin ids /\ \E i \in 1..k : t[j] = s[i]
      BY <1>2, <2>1 DEF KeptOfFirst
    <3> QED BY <1>2, <2>1, <3>1
  <2>2. CASE j = Len(t) + 1
    BY <1>2, <2>2
  <2> QED BY <1>2, <2>1, <2>2
<1>4. \A i \in 1..(k + 1) : s[i].id \notin ids => \E j \in DOMAIN more : more[j] = s[i]
  <2> SUFFICES ASSUME NEW i \in 1..(k + 1), s[i].id \notin ids
               PROVE  \E j \in DOMAIN more : more[j] = s[i]
    OBVIOUS
  <2>1. CASE i \in 1..k
    <3>1. \E j \in DOMAIN t : t[j] = s[i]
      BY <2>1 DEF KeptOfFirst
    <3> QED BY <1>2, <3>1
  <2>2. CASE i = k + 1
    BY <1>2, <2>2
  <2> QED BY <2>1, <2>2
<1>5. ASSUME Distinct(s) PROVE Distinct(more)
  <2>1. \A j \in 1..Len(t) : t[j].id # s[k + 1].id
    <3> SUFFICES ASSUME NEW j \in 1..Len(t) PROVE t[j].id # s[k + 1].id
      OBVIOUS
    <3>1. PICK i \in 1..k : t[j] = s[i]
      BY <1>2 DEF KeptOfFirst
    <3>2. i \in DOMAIN s /\ k + 1 \in DOMAIN s /\ i # k + 1
      BY <1>1
    <3> QED BY <1>5, <3>1, <3>2 DEF Distinct
  <2>2. Distinct(t)
    BY <1>5 DEF KeptOfFirst
  <2> QED BY <1>2, <2>1, <2>2 DEF Distinct
<1> QED BY <1>2, <1>3, <1>4, <1>5 DEF KeptOfFirst, more

\* Without takes out the orders it is told to, and no other.
LEMMA WithoutKeeps ==
  ASSUME NEW s \in Seq(OrderType), NEW ids
  PROVE  KeptOfFirst(Without(s, ids), s, ids, Len(s))
<1>1. PICK a : RunningKept(a, s, ids) /\ Without(s, ids) = a[1..Len(s)]
  BY KeptRun
<1> DEFINE Q == {k \in Nat : k <= Len(s) => KeptOfFirst(a[1..k], s, ids, k)}
<1>2. 0 \in Q
  <2>1. a[1..0] = <<>>
    BY <1>1 DEF RunningKept
  <2>2. KeptOfFirst(<<>>, s, ids, 0)
    BY DEF KeptOfFirst, Distinct
  <2> QED BY <2>1, <2>2
<1>3. ASSUME NEW k \in Nat, k \in Q PROVE k + 1 \in Q
  <2> SUFFICES ASSUME k + 1 <= Len(s) PROVE KeptOfFirst(a[1..(k + 1)], s, ids, k + 1)
    OBVIOUS
  <2>1. KeptOfFirst(a[1..k], s, ids, k) /\ k \in 0..(Len(s) - 1)
    BY <1>3
  <2>2. a[1..(k + 1)] = IF s[k + 1].id \in ids THEN a[1..k]
                        ELSE Append(a[1..k], s[k + 1])
    BY <1>1, <2>1 DEF RunningKept
  <2>3. CASE s[k + 1].id \in ids
    <3>1. \A i \in 1..(k + 1) : i \in 1..k \/ i = k + 1
      OBVIOUS
    <3>2. a[1..(k + 1)] = a[1..k]
      BY <2>2, <2>3
    <3> QED BY <2>1, <2>3, <3>1, <3>2 DEF KeptOfFirst
  <2>4. CASE s[k + 1].id \notin ids
    BY <2>1, <2>2, <2>4, KeptExtends
  <2> QED BY <2>3, <2>4
<1>4. Len(s) \in Nat
  OBVIOUS
<1>5. Len(s) \in Q
  <2> HIDE DEF Q
  <2> QED BY <1>2, <1>3, <1>4, InductionOverNat
<1> QED BY <1>1, <1>4, <1>5

\* The names of orders.
Names(s) == {s[i].id : i \in DOMAIN s}

\* There are as many names as orders, if the names are different.
LEMMA NamesCounted ==
  ASSUME NEW s \in Seq(OrderType), Distinct(s)
  PROVE  /\ IsFiniteSet(Names(s)) /\ Cardinality(Names(s)) = Len(s)
         /\ Names(s) \subseteq Nat
<1> DEFINE name == [i \in 1..Len(s) |-> s[i].id]
<1>1. Len(s) \in Nat /\ DOMAIN s = 1..Len(s)
  OBVIOUS
<1>2. name \in Surjection(1..Len(s), Names(s))
  BY <1>1 DEF Names, Surjection
<1>3. name \in Injection(1..Len(s), Names(s))
  BY <1>1, <1>2 DEF Distinct, Injection, IsInjective, Surjection
<1>4. IsFiniteSet(1..Len(s)) /\ Cardinality(1..Len(s)) = Len(s)
  BY <1>1, FS_Interval
<1>5. ASSUME NEW i \in DOMAIN s PROVE s[i].id \in Nat
  <2>1. s[i] \in OrderType
    BY <1>1, ElementOfSeq
  <2> QED BY <2>1 DEF OrderType
<1> HIDE DEF name
<1> QED BY <1>2, <1>3, <1>4, <1>5, FS_Surjection DEF Names

\* Taking orders out makes the sequence shorter by as many as there were.
LEMMA WithoutCounts ==
  ASSUME NEW s \in Seq(OrderType), Distinct(s), NEW ids
  PROVE  /\ Without(s, ids) \in Seq(OrderType)
         /\ Cardinality(ids \cap Names(s)) \in Nat
         /\ Len(Without(s, ids)) + Cardinality(ids \cap Names(s)) = Len(s)
         /\ Names(Without(s, ids)) = Names(s) \ ids
<1> DEFINE t == Without(s, ids)
<1>1. KeptOfFirst(t, s, ids, Len(s)) /\ DOMAIN s = 1..Len(s)
  BY WithoutKeeps
<1> HIDE DEF t
<1>2. t \in Seq(OrderType) /\ Distinct(t)
  BY <1>1 DEF KeptOfFirst
<1>3. Names(t) = Names(s) \ ids
  <2>1. Names(t) \subseteq Names(s) \ ids
    BY <1>1 DEF KeptOfFirst, Names
  <2>2. Names(s) \ ids \subseteq Names(t)
    BY <1>1 DEF KeptOfFirst, Names
  <2> QED BY <2>1, <2>2
<1>4. /\ IsFiniteSet(Names(s)) /\ Cardinality(Names(s)) = Len(s)
      /\ Cardinality(Names(t)) = Len(t)
  BY <1>2, NamesCounted
<1>5. Cardinality(Names(t)) = Cardinality(Names(s)) - Cardinality(Names(s) \cap ids)
  BY <1>3, <1>4, FS_Difference
<1>6. IsFiniteSet(ids \cap Names(s)) /\ Cardinality(ids \cap Names(s)) \in Nat
  BY <1>4, FS_Intersection, FS_CardinalityType
<1>7. Cardinality(Names(s) \cap ids) = Cardinality(ids \cap Names(s))
  <2>1. ids \cap Names(s) = Names(s) \cap ids
    OBVIOUS
  <2> QED BY <2>1
<1>8. Len(s) \in Nat /\ Len(t) \in Nat
  BY <1>2
<1>9. Len(t) + Cardinality(ids \cap Names(s)) = Len(s)
  BY <1>4, <1>5, <1>6, <1>7, <1>8
<1> QED BY <1>2, <1>3, <1>6, <1>9 DEF t

-----------------------------------------------------------------------------
(* The paper account *)

RecordType == [orders : SUBSET Nat, direction : Int,
               exits : [stop : Int, target : Int]]
FillsType == [buy : Nat, sell : Nat]
\* A move of the engine's position with fills enough to price it.
Price == {t \in [by : Int, with : Nat] : t.with >= Abs(t.by)}
Paper == [pending : Seq(OrderType), position : Int, record : RecordType,
          fills : FillsType, filled : Nat, placed : Nat, cancelled : Nat,
          tried : SUBSET Quote, priced : SUBSET Price]

\* The position that fills make of another.
WithFills(position, fills) == position + fills.buy - fills.sell

\* The names of the pending orders are different and below that of the next
\* order, those of the entries also below what the name of the next would be if
\* nothing else were pending, and no order has taken the place of another.
Named(x) ==
  /\ Distinct(x.pending)
  /\ \A i \in DOMAIN x.pending : x.pending[i].id < OrderNumber(x)
  /\ \A i \in DOMAIN x.pending :
       ~Protective(x.pending[i]) => x.pending[i].id <= x.filled
  /\ x.placed = OrderNumber(x) + x.cancelled
\* The pending exits are among the ids, and go against the direction.
Covered(x, ids, direction) ==
  \A i \in DOMAIN x.pending :
    Protective(x.pending[i]) =>
      x.pending[i].id \in ids /\ x.pending[i].side = -direction
\* The same order, except for what is left of it.
Alike(o, p) == o.id = p.id /\ o.role = p.role /\ o.side = p.side
\* Nothing is pending that was not.
Fewer(y, x) ==
  \A j \in DOMAIN y.pending :
    \E i \in DOMAIN x.pending : Alike(y.pending[j], x.pending[i])

\* Where nothing new is pending, what was covered is.
LEMMA FewerAreCovered ==
  ASSUME NEW x, NEW y, Fewer(y, x), NEW ids, NEW direction,
         Covered(x, ids, direction)
  PROVE  Covered(y, ids, direction)
BY DEF Fewer, Alike, Covered, Protective

\* The fields of a paper account.
LEMMA PaperFields ==
  ASSUME NEW x \in Paper
  PROVE  /\ x.pending \in Seq(OrderType) /\ x.position \in Int
         /\ x.record \in RecordType /\ x.fills \in FillsType /\ x.filled \in Nat
         /\ x.priced \in SUBSET Price
         /\ x.placed \in Nat /\ x.cancelled \in Nat /\ x.tried \in SUBSET Quote
         /\ Len(x.pending) \in Nat /\ DOMAIN x.pending = 1..Len(x.pending)
         /\ OrderNumber(x) = Len(x.pending) + x.filled /\ OrderNumber(x) \in Nat
         /\ \A i \in DOMAIN x.pending : x.pending[i] \in OrderType
<1>1. x.pending \in Seq(OrderType) /\ x.filled \in Nat
  BY DEF Paper
<1> QED BY <1>1 DEF Paper, OrderNumber

\* Cancelling all exits, or nothing that is pending, leaves the names in order.
LEMMA CancelAllKeeps ==
  ASSUME NEW x \in Paper, Named(x), NEW ids,
         \/ \A i \in DOMAIN x.pending :
              Protective(x.pending[i]) => x.pending[i].id \in ids
         \/ ids \cap PendingIds(x) = {}
  PROVE  LET y == CancelAll(x, ids)
         IN  /\ y \in Paper /\ Named(y) /\ Fewer(y, x)
             /\ y.position = x.position /\ y.fills = x.fills /\ y.record = x.record
             /\ y.filled = x.filled
             /\ \A j \in DOMAIN y.pending : y.pending[j].id \notin ids
<1> DEFINE y == CancelAll(x, ids)
           left == Without(x.pending, ids)
           gone == Cardinality(ids \cap PendingIds(x))
<1>1. PendingIds(x) = Names(x.pending)
  BY DEF PendingIds, Names
<1>2. /\ left \in Seq(OrderType) /\ gone \in Nat
      /\ Len(left) + gone = Len(x.pending)
      /\ Names(left) = Names(x.pending) \ ids
  BY <1>1, PaperFields, WithoutCounts DEF Named
<1>3. KeptOfFirst(left, x.pending, ids, Len(x.pending))
  BY PaperFields, WithoutKeeps
<1>4. y = [x EXCEPT !.pending = left, !.cancelled = @ + gone]
  BY DEF CancelAll
<1> HIDE DEF y, left, gone
<1>5. /\ y \in Paper
      /\ y.pending = left /\ y.cancelled = x.cancelled + gone
      /\ y.position = x.position /\ y.fills = x.fills /\ y.record = x.record
      /\ y.filled = x.filled /\ y.placed = x.placed
  <2>1. /\ y.pending = left /\ y.cancelled = x.cancelled + gone
        /\ y.position = x.position /\ y.fills = x.fills /\ y.record = x.record
        /\ y.filled = x.filled /\ y.placed = x.placed
    BY <1>4 DEF Paper
  <2>2. x.cancelled + gone \in Nat
    BY <1>2, PaperFields
  <2>3. y \in Paper
    BY <1>2, <1>4, <2>2 DEF Paper
  <2> QED BY <2>1, <2>3
<1>6. \A j \in DOMAIN left :
        left[j].id \notin ids /\ \E i \in DOMAIN x.pending : left[j] = x.pending[i]
  BY <1>3, PaperFields DEF KeptOfFirst
<1>7. Fewer(y, x)
  BY <1>5, <1>6 DEF Fewer, Alike
<1>8. OrderNumber(y) + y.cancelled = OrderNumber(x) + x.cancelled
  <2>1. /\ OrderNumber(y) = Len(left) + x.filled
        /\ OrderNumber(x) = Len(x.pending) + x.filled
    BY <1>5 DEF OrderNumber
  <2>2. Len(left) \in Nat /\ Len(x.pending) \in Nat /\ x.filled \in Nat /\ x.cancelled \in Nat
    BY <1>2, PaperFields
  <2> QED BY <1>2, <1>5, <2>1, <2>2
<1>9. ASSUME NEW j \in DOMAIN left PROVE left[j].id < OrderNumber(y)
  <2>1. PICK i \in DOMAIN x.pending : left[j] = x.pending[i]
    BY <1>6
  <2>2. CASE Protective(x.pending[i])
    <3>1. ids \cap PendingIds(x) = {}
      BY <1>6, <2>1, <2>2
    <3>2. gone = 0
      BY <3>1, FS_EmptySet DEF gone
    <3>3. OrderNumber(y) = OrderNumber(x)
      BY <1>2, <1>5, <3>2, PaperFields
    <3> QED BY <2>1, <3>3 DEF Named
  <2>3. CASE ~Protective(x.pending[i])
    <3>1. left[j].id <= x.filled /\ left[j].id \in Nat
      BY <2>1, <2>3, PaperFields DEF Named, OrderType
    <3>2. Len(left) > 0 /\ Len(left) \in Nat
      BY <1>2
    <3> QED BY <1>5, <3>1, <3>2, PaperFields
  <2> QED BY <2>2, <2>3
<1>10. \A j \in DOMAIN left : ~Protective(left[j]) => left[j].id <= x.filled
  BY <1>6 DEF Named
<1>11. Distinct(left)
  BY <1>3 DEF Named, KeptOfFirst
<1>12. Named(y)
  BY <1>5, <1>8, <1>9, <1>10, <1>11 DEF Named
<1> QED BY <1>5, <1>6, <1>7, <1>12 DEF y

\* A fill takes its order out if it is whole, and makes it smaller if not.
LEMMA FillKeeps ==
  ASSUME NEW x \in Paper, Named(x), NEW i \in DOMAIN x.pending, NEW q \in Quote
  PROVE  LET o == x.pending[i]
             y == _apply_mock_fill(x, o, q)
         IN  /\ y \in Paper /\ Named(y) /\ Fewer(y, x) /\ y.record = x.record
             /\ \A base \in Int : x.position = WithFills(base, x.fills)
                                  => y.position = WithFills(base, y.fills)
             /\ FillQuantity(o, q) = o.left =>
                  \A j \in DOMAIN y.pending : y.pending[j].id # o.id
<1> DEFINE o == x.pending[i]
           y == _apply_mock_fill(x, o, q)
           quantity == FillQuantity(o, q)
           n == o.side * quantity
           fills == Filled(x.fills, o.side, quantity)
           left == Without(x.pending, {o.id})
           smaller == [j \in DOMAIN x.pending |->
                         IF x.pending[j].id = o.id
                         THEN [x.pending[j] EXCEPT !.left = o.left - quantity]
                         ELSE x.pending[j]]
<1>1. o \in OrderType
  BY PaperFields
<1>2. /\ quantity \in Nat /\ quantity <= o.left /\ n \in Int
      /\ fills \in FillsType
      /\ n + x.fills.buy - x.fills.sell = fills.buy - fills.sell
  <2>1. o.left \in Nat /\ o.side \in {1, -1} /\ q.size \in Nat
    BY <1>1 DEF OrderType, Quote
  <2>2. quantity \in Nat /\ quantity <= o.left
    BY <2>1 DEF FillQuantity
  <2>3. n \in Int
    <3> HIDE DEF quantity
    <3> QED BY <2>1, <2>2
  <2>4. x.fills \in FillsType /\ x.fills.buy \in Nat /\ x.fills.sell \in Nat
    BY PaperFields DEF FillsType
  <2>5. /\ fills \in FillsType
        /\ n + x.fills.buy - x.fills.sell = fills.buy - fills.sell
    <3> HIDE DEF quantity
    <3>1. CASE o.side = 1
      <4>1. n = quantity
        BY <2>2, <3>1
      <4>2. fills = [x.fills EXCEPT !.buy = @ + quantity]
        BY <3>1 DEF Filled
      <4>3. fills.buy = x.fills.buy + quantity /\ fills.sell = x.fills.sell
        BY <2>4, <4>2 DEF FillsType
      <4>4. fills \in FillsType
        BY <2>2, <2>4, <4>2 DEF FillsType
      <4> HIDE DEF n, fills
      <4> QED BY <2>2, <2>4, <4>1, <4>3, <4>4
    <3>2. CASE o.side = -1
      <4>1. n = -quantity
        BY <2>2, <3>2
      <4>2. fills = [x.fills EXCEPT !.sell = @ + quantity]
        BY <3>2 DEF Filled
      <4>3. fills.sell = x.fills.sell + quantity /\ fills.buy = x.fills.buy
        BY <2>4, <4>2 DEF FillsType
      <4>4. fills \in FillsType
        BY <2>2, <2>4, <4>2 DEF FillsType
      <4> HIDE DEF n, fills
      <4> QED BY <2>2, <2>4, <4>1, <4>3, <4>4
    <3> QED BY <2>1, <3>1, <3>2
  <2> QED BY <2>2, <2>3, <2>5
<1>3. y = [x EXCEPT !.position = @ + n, !.fills = fills,
                    !.tried = @ \cup {q},
                    !.filled = IF quantity = o.left THEN @ + 1 ELSE @,
                    !.pending = IF quantity = o.left THEN left ELSE smaller]
  BY DEF _apply_mock_fill
<1>4. /\ left \in Seq(OrderType) /\ Distinct(left)
      /\ Len(left) + 1 = Len(x.pending)
      /\ \A j \in DOMAIN left : /\ left[j].id # o.id
                                /\ \E k \in DOMAIN x.pending : left[j] = x.pending[k]
  <2>1. KeptOfFirst(left, x.pending, {o.id}, Len(x.pending))
    BY PaperFields, WithoutKeeps
  <2>2. Len(left) + Cardinality({o.id} \cap Names(x.pending)) = Len(x.pending)
    BY PaperFields, WithoutCounts DEF Named
  <2>3. {o.id} \cap Names(x.pending) = {o.id}
    BY DEF Names
  <2>4. Cardinality({o.id}) = 1
    BY FS_Singleton
  <2> HIDE DEF left, o
  <2> QED BY <2>1, <2>2, <2>3, <2>4, PaperFields DEF KeptOfFirst, Named
<1>5. /\ smaller \in Seq(OrderType) /\ Len(smaller) = Len(x.pending)
      /\ DOMAIN smaller = DOMAIN x.pending
      /\ \A j \in DOMAIN x.pending : Alike(smaller[j], x.pending[j])
  <2>1. \A j \in DOMAIN x.pending :
          smaller[j] \in OrderType /\ Alike(smaller[j], x.pending[j])
    <3> SUFFICES ASSUME NEW j \in DOMAIN x.pending
                 PROVE  smaller[j] \in OrderType /\ Alike(smaller[j], x.pending[j])
      OBVIOUS
    <3>1. x.pending[j] \in OrderType /\ o.left - quantity \in Nat
      <4>1. o.left \in Nat
        BY <1>1 DEF OrderType
      <4> HIDE DEF o, quantity
      <4> QED BY <1>2, <4>1, PaperFields
    <3>2. smaller[j] = IF x.pending[j].id = o.id
                       THEN [x.pending[j] EXCEPT !.left = o.left - quantity]
                       ELSE x.pending[j]
      OBVIOUS
    <3> HIDE DEF smaller, o, quantity
    <3> QED BY <3>1, <3>2 DEF OrderType, Alike
  <2>2. smaller \in [1..Len(x.pending) -> OrderType]
    <3> HIDE DEF o, quantity
    <3>1. DOMAIN smaller = 1..Len(x.pending)
      BY PaperFields
    <3>2. smaller = [j \in 1..Len(x.pending) |-> smaller[j]]
      BY PaperFields
    <3> HIDE DEF smaller
    <3> QED BY <2>1, <3>1, <3>2, PaperFields
  <2> HIDE DEF smaller
  <2>3. smaller \in Seq(OrderType) /\ Len(smaller) = Len(x.pending)
    <3>1. Len(x.pending) \in Nat
      BY PaperFields
    <3> QED BY <2>2, <3>1
  <2> QED BY <2>1, <2>2, <2>3, PaperFields
<1> HIDE DEF y, n, fills, quantity, left, smaller, o
<1>6. /\ y \in Paper /\ y.record = x.record
      /\ y.position = x.position + n /\ y.fills = fills
      /\ y.filled = IF quantity = o.left THEN x.filled + 1 ELSE x.filled
      /\ y.pending = IF quantity = o.left THEN left ELSE smaller
      /\ y.cancelled = x.cancelled /\ y.placed = x.placed
  <2>1. /\ y.record = x.record
        /\ y.position = x.position + n /\ y.fills = fills
        /\ y.filled = IF quantity = o.left THEN x.filled + 1 ELSE x.filled
        /\ y.pending = IF quantity = o.left THEN left ELSE smaller
        /\ y.cancelled = x.cancelled /\ y.placed = x.placed
    BY <1>3 DEF Paper
  <2>2. /\ x.position + n \in Int
        /\ x.tried \cup {q} \in SUBSET Quote
        /\ (IF quantity = o.left THEN x.filled + 1 ELSE x.filled) \in Nat
        /\ (IF quantity = o.left THEN left ELSE smaller) \in Seq(OrderType)
    <3>1. /\ x.position \in Int /\ x.filled \in Nat /\ x.tried \in SUBSET Quote
      BY PaperFields
    <3> QED BY <1>2, <1>4, <1>5, <3>1
  <2>3. y \in Paper
    BY <1>2, <1>3, <2>2 DEF Paper
  <2> QED BY <2>1, <2>3
<1>7. Fewer(y, x)
  <2>1. CASE quantity = o.left
    BY <1>4, <1>6, <2>1 DEF Fewer, Alike
  <2>2. CASE quantity # o.left
    BY <1>5, <1>6, <2>2 DEF Fewer
  <2> QED BY <2>1, <2>2
<1>8. OrderNumber(y) = OrderNumber(x)
  BY <1>4, <1>5, <1>6, PaperFields
<1>9. Distinct(y.pending)
  BY <1>4, <1>5, <1>6 DEF Named, Distinct, Alike
<1>10. \A j \in DOMAIN y.pending : y.pending[j].id < OrderNumber(y)
  BY <1>7, <1>8 DEF Named, Fewer, Alike
<1>11. ASSUME NEW j \in DOMAIN y.pending, ~Protective(y.pending[j])
       PROVE  y.pending[j].id <= y.filled
  <2>1. PICK k \in DOMAIN x.pending : Alike(y.pending[j], x.pending[k])
    BY <1>7 DEF Fewer
  <2>2. x.pending[k].id <= x.filled /\ x.pending[k].id \in Nat
    BY <1>11, <2>1, PaperFields DEF Named, Alike, Protective, OrderType
  <2>3. y.filled \in Nat /\ x.filled <= y.filled
    <3>1. x.filled \in Nat
      BY PaperFields
    <3> QED BY <1>6, <3>1
  <2>4. y.pending[j].id = x.pending[k].id
    BY <2>1 DEF Alike
  <2> QED BY <2>2, <2>3, <2>4, PaperFields
<1>12. Named(y)
  BY <1>6, <1>8, <1>9, <1>10, <1>11 DEF Named
<1>13. quantity = o.left => \A j \in DOMAIN y.pending : y.pending[j].id # o.id
  BY <1>4, <1>6
<1>14. ASSUME NEW base \in Int, x.position = WithFills(base, x.fills)
       PROVE  y.position = WithFills(base, y.fills)
  <2>1. x.fills.buy \in Nat /\ x.fills.sell \in Nat /\ fills.buy \in Nat /\ fills.sell \in Nat
    BY <1>2, PaperFields DEF FillsType
  <2>2. x.position = base + x.fills.buy - x.fills.sell
    BY <1>14 DEF WithFills
  <2>3. x.position + n = base + fills.buy - fills.sell
    BY <1>2, <2>1, <2>2
  <2> QED BY <1>6, <2>3 DEF WithFills
<1> QED BY <1>6, <1>7, <1>12, <1>13, <1>14 DEF y, quantity, o

\* The pending exits are those of the account's own record.
OnRecord(x) == Covered(x, x.record.orders, x.record.direction)

\* Another record changes nothing else.
LEMMA RecordReplaced ==
  ASSUME NEW x \in Paper, NEW r \in RecordType
  PROVE  LET y == [x EXCEPT !.record = r]
         IN  /\ y \in Paper /\ y.record = r /\ y.pending = x.pending
             /\ y.position = x.position /\ y.fills = x.fills
             /\ OrderNumber(y) = OrderNumber(x)
             /\ Named(x) => Named(y)
<1> DEFINE y == [x EXCEPT !.record = r]
<1>1. /\ y \in Paper /\ y.record = r /\ y.pending = x.pending
      /\ y.position = x.position /\ y.fills = x.fills
      /\ y.filled = x.filled /\ y.placed = x.placed /\ y.cancelled = x.cancelled
  BY DEF Paper
<1> HIDE DEF y
<1>2. OrderNumber(y) = OrderNumber(x)
  BY <1>1 DEF OrderNumber
<1>3. Named(x) => Named(y)
  BY <1>1, <1>2 DEF Named
<1> QED BY <1>1, <1>2, <1>3 DEF y

\* The record of no exits has the type of a record.
LEMMA NoRecordType == NoRecord \in RecordType
BY DEF NoRecord, NoExits, RecordType

\* A whole fill of an exit takes the other one with it, if the account's record
\* names it; without a record nothing is cancelled.
LEMMA TryFillKeeps ==
  ASSUME NEW x \in Paper, Named(x), NEW i \in DOMAIN x.pending, NEW q \in Quote,
         OnRecord(x) \/ x.record = NoRecord
  PROVE  LET y == _try_fill_mock_order(x, x.pending[i], q)
         IN  /\ y \in Paper /\ Named(y) /\ Fewer(y, x)
             /\ \A base \in Int : x.position = WithFills(base, x.fills)
                                  => y.position = WithFills(base, y.fills)
             /\ OnRecord(x) => OnRecord(y)
             /\ x.record = NoRecord => y.record = NoRecord
<1> DEFINE o == x.pending[i]
           done == _apply_mock_fill(x, o, q)
           y == _try_fill_mock_order(x, o, q)
<1>1. /\ done \in Paper /\ Named(done) /\ Fewer(done, x) /\ done.record = x.record
      /\ \A base \in Int : x.position = WithFills(base, x.fills)
                           => done.position = WithFills(base, done.fills)
      /\ FillQuantity(o, q) = o.left =>
           \A j \in DOMAIN done.pending : done.pending[j].id # o.id
  BY FillKeeps
<1>2. y = IF FillQuantity(o, q) = o.left /\ Protective(o)
          THEN _cancel_sibling_protection(done, o.id) ELSE done
  BY DEF _try_fill_mock_order
<1> HIDE DEF o, done, y
<1>3. OnRecord(x) => OnRecord(done)
  BY <1>1, FewerAreCovered DEF OnRecord
<1>4. CASE ~(FillQuantity(o, q) = o.left /\ Protective(o))
  BY <1>1, <1>2, <1>3, <1>4 DEF y, o
<1>5. CASE FillQuantity(o, q) = o.left /\ Protective(o)
  <2> DEFINE siblings == done.record.orders \ {o.id}
             unresolved == siblings \ PendingIds(done)
             rest == CancelAll(done, siblings)
             r == IF unresolved = {} THEN NoRecord
                  ELSE [rest.record EXCEPT !.orders = unresolved]
  <2>1. y = [rest EXCEPT !.record = r]
    BY <1>2, <1>5 DEF _cancel_sibling_protection
  <2>2. OnRecord(x) => \A j \in DOMAIN done.pending :
                        Protective(done.pending[j]) => done.pending[j].id \in siblings
    BY <1>1, <1>3, <1>5 DEF OnRecord, Covered
  <2>3. x.record = NoRecord => siblings = {} /\ unresolved = {}
    BY <1>1 DEF NoRecord
  <2> HIDE DEF siblings
  <2>4. /\ rest \in Paper /\ Named(rest) /\ Fewer(rest, done)
        /\ rest.position = done.position /\ rest.fills = done.fills
        /\ rest.record = done.record
        /\ \A j \in DOMAIN rest.pending : rest.pending[j].id \notin siblings
    BY <1>1, <2>2, <2>3, CancelAllKeeps
  <2>5. r \in RecordType
    <3>1. done.record \in RecordType
      BY <1>1, PaperFields
    <3>2. unresolved \in SUBSET Nat
      BY <3>1 DEF siblings, RecordType
    <3> HIDE DEF unresolved, rest
    <3> QED BY <2>4, <3>1, <3>2, NoRecordType DEF RecordType
  <2>6. x.record = NoRecord => r = NoRecord
    BY <2>3
  <2> HIDE DEF rest, r, unresolved
  <2>7. /\ y \in Paper /\ y.record = r /\ y.pending = rest.pending
        /\ y.position = rest.position /\ y.fills = rest.fills /\ Named(y)
    BY <2>1, <2>4, <2>5, RecordReplaced
  <2>8. Fewer(y, x)
    BY <1>1, <2>4, <2>7 DEF Fewer, Alike
  <2>9. OnRecord(x) => \A j \in DOMAIN rest.pending : ~Protective(rest.pending[j])
    BY <2>2, <2>4 DEF Fewer, Alike, Protective
  <2>10. OnRecord(x) => OnRecord(y)
    BY <2>7, <2>9 DEF OnRecord, Covered
  <2> QED BY <1>1, <2>4, <2>6, <2>7, <2>8, <2>10 DEF y, o
<1> QED BY <1>4, <1>5

\* An account whose names are in order, whose position is the base with the
\* fills, and whose pending exits are covered: by its record, once the exits
\* are on record, and by the ids they will be recorded with while they are
\* being placed.
Accounts(base, settled, ids, direction) ==
  {x \in Paper :
     /\ Named(x) /\ x.position = WithFills(base, x.fills)
     /\ Covered(x, ids, direction)
     /\ IF settled THEN OnRecord(x) ELSE x.record = NoRecord}

\* Trying a pending order keeps the account in order.
LEMMA TryKeeps ==
  ASSUME NEW base \in Int, NEW settled \in BOOLEAN, NEW ids, NEW direction,
         NEW x \in Accounts(base, settled, ids, direction), NEW id, NEW q \in Quote
  PROVE  TryPending(x, id, q) \in Accounts(base, settled, ids, direction)
<1>1. /\ x \in Paper /\ Named(x) /\ x.position = WithFills(base, x.fills)
      /\ Covered(x, ids, direction)
      /\ IF settled THEN OnRecord(x) ELSE x.record = NoRecord
  BY DEF Accounts
<1>2. CASE id \in PendingIds(x) /\ Fillable(PendingOrder(x, id), q)
  <2>1. PICK i \in DOMAIN x.pending : PendingOrder(x, id) = x.pending[i]
    <3>1. \E i \in DOMAIN x.pending : x.pending[i].id = id
      BY <1>2 DEF PendingIds
    <3> QED BY <3>1 DEF PendingOrder
  <2> DEFINE y == _try_fill_mock_order(x, x.pending[i], q)
  <2>2. TryPending(x, id, q) = y
    BY <1>2, <2>1 DEF TryPending
  <2>3. /\ y \in Paper /\ Named(y) /\ Fewer(y, x)
        /\ y.position = WithFills(base, y.fills)
        /\ OnRecord(x) => OnRecord(y)
        /\ x.record = NoRecord => y.record = NoRecord
    BY <1>1, TryFillKeeps
  <2> HIDE DEF y
  <2>4. Covered(y, ids, direction)
    BY <1>1, <2>3, FewerAreCovered
  <2> QED BY <1>1, <2>2, <2>3, <2>4 DEF Accounts
<1>3. CASE ~(id \in PendingIds(x) /\ Fillable(PendingOrder(x, id), q))
  BY <1>3 DEF TryPending
<1> QED BY <1>2, <1>3

\* The equation of the function that the loop over the orders is.
TriedOf(iter, x, q, s) ==
  iter = [S \in SUBSET DOMAIN s |->
            IF S = {} THEN x ELSE TryPending(iter[S \ {Max(S)}], s[Max(S)], q)]

\* Trying all pending orders keeps the account in order.
LEMMA ProcessKeeps ==
  ASSUME NEW base \in Int, NEW settled \in BOOLEAN, NEW ids, NEW direction,
         NEW x \in Accounts(base, settled, ids, direction), NEW q \in Quote
  PROVE  process_market_data(x, q) \in Accounts(base, settled, ids, direction)
<1> DEFINE A == Accounts(base, settled, ids, direction)
           s == [i \in DOMAIN x.pending |-> x.pending[i].id]
           tried == CHOOSE iter : TriedOf(iter, x, q, s)
<1>1. s \in Seq(Nat)
  <2>1. x \in Paper
    BY DEF Accounts
  <2>2. DOMAIN x.pending = 1..Len(x.pending) /\ Len(x.pending) \in Nat
    BY <2>1, PaperFields
  <2>3. \A i \in 1..Len(x.pending) : x.pending[i].id \in Nat
    BY <2>1, <2>2, PaperFields DEF OrderType
  <2>4. s = [i \in 1..Len(x.pending) |-> x.pending[i].id]
    BY <2>2
  <2>5. s \in [1..Len(x.pending) -> Nat]
    BY <2>3, <2>4
  <2> HIDE DEF s
  <2> QED BY <2>2, <2>5
<1>2. process_market_data(x, q) = tried[DOMAIN s]
  <2>1. process_market_data(x, q) = (CHOOSE iter : iter = [S \in SUBSET DOMAIN s |->
           IF S = {} THEN x
           ELSE TryPending(iter[S \ {Max(S)}], s[Max(S)], q)])[DOMAIN s]
    BY DEF process_market_data, FoldLeft, MapThenFoldSet
  <2> QED BY <2>1 DEF TriedOf
<1> HIDE DEF s
<1>3. DOMAIN s = 1..Len(s) /\ Len(s) \in Nat
  BY <1>1
<1>4. TriedOf(tried, x, q, s)
  <2> DEFINE g == [p \in A \X Nat |-> TryPending(p[1], p[2], q)]
  <2>1. g \in [A \X Nat -> A]
    <3>1. \A y \in A, id \in Nat : TryPending(y, id, q) \in A
      BY TryKeeps
    <3> HIDE DEF A
    <3> QED BY <3>1
  <2>2. \A y \in A, id \in Nat : g[<<y, id>>] = TryPending(y, id, q)
    OBVIOUS
  <2> HIDE DEF g, A
  <2>3. PICK h : FoldsUpTo(h, A, g, x, s, Len(s))
    BY <1>1, <2>1, FoldExists DEF A
  <2>4. ASSUME NEW S \in SUBSET (1..Len(s)), S # {}
        PROVE  g[<<h[S \ {Max(S)}], s[Max(S)]>>]
                 = TryPending(h[S \ {Max(S)}], s[Max(S)], q)
    <3>1. Max(S) \in 1..Len(s)
      BY <1>3, <2>4, MaxOfPositions
    <3>2. S \ {Max(S)} \in SUBSET (1..Len(s)) /\ h \in [SUBSET (1..Len(s)) -> A]
      BY <2>3 DEF FoldsUpTo
    <3>3. h[S \ {Max(S)}] \in A /\ s[Max(S)] \in Nat
      BY <1>1, <3>1, <3>2, ElementOfSeq
    <3> QED BY <2>2, <3>3
  <2>5. TriedOf(h, x, q, s)
    BY <1>3, <2>3, <2>4 DEF FoldsUpTo, TriedOf
  <2> QED BY <2>5
<1> HIDE DEF tried
<1>5. tried[1..0] = x
  <2>1. 1..0 = {}
    OBVIOUS
  <2> QED BY <1>3, <1>4, <2>1 DEF TriedOf
<1>6. ASSUME NEW k \in 0..(Len(s) - 1)
      PROVE  tried[1..(k + 1)] = TryPending(tried[1..k], s[k + 1], q)
  <2>1. /\ 1..(k + 1) \in SUBSET (1..Len(s)) /\ 1..(k + 1) # {}
        /\ Max(1..(k + 1)) = k + 1 /\ (1..(k + 1)) \ {k + 1} = 1..k
    BY <1>3, PrefixPositions
  <2> QED BY <1>3, <1>4, <2>1 DEF TriedOf
<1> DEFINE Q == {k \in Nat : k <= Len(s) => tried[1..k] \in A}
<1>7. 0 \in Q
  BY <1>5
<1>8. ASSUME NEW k \in Nat, k \in Q PROVE k + 1 \in Q
  <2> SUFFICES ASSUME k + 1 <= Len(s) PROVE tried[1..(k + 1)] \in A
    OBVIOUS
  <2>1. tried[1..k] \in A /\ k \in 0..(Len(s) - 1)
    BY <1>3, <1>8
  <2> QED BY <1>6, <2>1, TryKeeps
<1>9. Len(s) \in Q
  <2> HIDE DEF Q
  <2> QED BY <1>3, <1>7, <1>8, InductionOverNat
<1> QED BY <1>2, <1>3, <1>9

-----------------------------------------------------------------------------
(* Placing orders *)

\* No exit is pending.
ExitFree(x) == \A i \in DOMAIN x.pending : ~Protective(x.pending[i])

\* A new order has a name of its own.  An exit is placed when the record is
\* gone, anything else when nothing is pending.
LEMMA PlaceKeeps ==
  ASSUME NEW base \in Int, NEW settled \in BOOLEAN, NEW ids, NEW direction,
         NEW x \in Accounts(base, settled, ids, direction),
         NEW role \in Roles, NEW side \in {1, -1},
         NEW type \in {"market", "limit", "stop"},
         NEW price \in Int, NEW quantity \in Nat,
         \/ /\ role \in {"stop_loss", "take_profit"} /\ ~settled
            /\ OrderNumber(x) \in ids /\ side = -direction
         \/ role \in {"entry", "flatten"} /\ x.pending = <<>>
  PROVE  _place_mock_order(x, role, side, type, price, quantity)
           \in Accounts(base, settled, ids, direction)
<1> DEFINE o == [id |-> OrderNumber(x), role |-> role, side |-> side, type |-> type,
                 price |-> price, left |-> quantity]
           y == [x EXCEPT !.pending = Register(x, o), !.placed = @ + 1]
<1>1. /\ x \in Paper /\ Named(x) /\ x.position = WithFills(base, x.fills)
      /\ Covered(x, ids, direction)
      /\ IF settled THEN OnRecord(x) ELSE x.record = NoRecord
  BY DEF Accounts
<1>2. o \in OrderType
  BY <1>1, PaperFields DEF OrderType
<1>3. Register(x, o) = Append(x.pending, o)
  <2>1. \A i \in DOMAIN x.pending : x.pending[i].id # OrderNumber(x)
    <3> SUFFICES ASSUME NEW i \in DOMAIN x.pending
                 PROVE  x.pending[i].id # OrderNumber(x)
      OBVIOUS
    <3>1. x.pending[i].id \in Nat /\ x.pending[i].id < OrderNumber(x)
      BY <1>1, PaperFields DEF Named, OrderType
    <3>2. OrderNumber(x) \in Nat
      BY <1>1, PaperFields
    <3> QED BY <3>1, <3>2
  <2>2. o.id \notin PendingIds(x)
    BY <2>1 DEF PendingIds
  <2> HIDE DEF o
  <2> QED BY <2>2 DEF Register
<1>4. /\ o.id = OrderNumber(x) /\ o.role = role /\ o.side = side
  OBVIOUS
<1>5. _place_mock_order(x, role, side, type, price, quantity)
        = process_market_data(y, ClientQuote)
  BY DEF _place_mock_order
<1> HIDE DEF o
<1> DEFINE n == Len(x.pending)
           more == Append(x.pending, o)
<1>6. /\ more \in Seq(OrderType) /\ Len(more) = n + 1 /\ n \in Nat
      /\ DOMAIN more = 1..(n + 1) /\ DOMAIN x.pending = 1..n
      /\ \A i \in 1..n : more[i] = x.pending[i]
      /\ more[n + 1] = o
  BY <1>1, <1>2, PaperFields, AppendProperties
<1> HIDE DEF more
<1>7. y = [x EXCEPT !.pending = more, !.placed = @ + 1]
  BY <1>3 DEF more
<1> HIDE DEF y, n
<1>8. /\ y.pending = more /\ y.placed = x.placed + 1 /\ y.position = x.position
      /\ y.fills = x.fills /\ y.record = x.record /\ y.filled = x.filled
      /\ y.cancelled = x.cancelled
  BY <1>1, <1>7 DEF Paper
<1>9. y \in Paper
  <2>1. x.placed + 1 \in Nat
    BY <1>1, PaperFields
  <2> QED BY <1>1, <1>6, <1>7, <2>1 DEF Paper
<1>10. /\ OrderNumber(x) = n + x.filled /\ x.filled \in Nat
       /\ x.placed = OrderNumber(x) + x.cancelled /\ x.cancelled \in Nat
  BY <1>1, PaperFields DEF n, Named
<1>11. OrderNumber(y) = OrderNumber(x) + 1
  <2>1. OrderNumber(y) = (n + 1) + x.filled
    BY <1>6, <1>8 DEF OrderNumber
  <2>2. n \in Nat /\ x.filled \in Nat /\ OrderNumber(x) = n + x.filled
    BY <1>6, <1>10
  <2> QED BY <2>1, <2>2
<1>12. Named(y)
  <2>1. \A i \in 1..n : /\ x.pending[i].id < OrderNumber(x) /\ x.pending[i].id \in Nat
                        /\ ~Protective(x.pending[i]) => x.pending[i].id <= x.filled
    BY <1>1, <1>6, PaperFields DEF Named, OrderType
  <2>2. OrderNumber(x) \in Nat
    BY <1>6, <1>10
  <2>3. Distinct(more)
    <3>1. \A i, j \in 1..n : x.pending[i].id = x.pending[j].id => i = j
      BY <1>1, <1>6 DEF Named, Distinct
    <3>2. \A i \in 1..n : more[i].id # more[n + 1].id
      BY <1>4, <1>6, <2>1, <2>2
    <3> QED BY <1>6, <3>1, <3>2 DEF Distinct
  <2>4. \A i \in DOMAIN more : more[i].id < OrderNumber(y)
    <3> SUFFICES ASSUME NEW i \in DOMAIN more PROVE more[i].id < OrderNumber(y)
      OBVIOUS
    <3>1. CASE i \in 1..n
      BY <1>6, <1>11, <2>1, <2>2, <3>1
    <3>2. CASE i = n + 1
      BY <1>4, <1>6, <1>11, <2>2, <3>2
    <3> QED BY <1>6, <3>1, <3>2
  <2>5. ASSUME NEW i \in DOMAIN more, ~Protective(more[i]) PROVE more[i].id <= x.filled
    <3>1. CASE i \in 1..n
      BY <1>6, <2>1, <2>5, <3>1
    <3>2. CASE i = n + 1 /\ x.pending = <<>>
      BY <1>4, <1>6, <1>10, <3>2 DEF n
    <3>3. CASE i = n + 1 /\ x.pending # <<>>
      BY <1>4, <1>6, <2>5, <3>3 DEF Protective
    <3> QED BY <1>6, <3>1, <3>2, <3>3
  <2>6. y.placed = OrderNumber(y) + y.cancelled
    BY <1>8, <1>10, <1>11, <2>2
  <2> QED BY <1>8, <2>3, <2>4, <2>5, <2>6 DEF Named
<1>13. Covered(y, ids, direction)
  BY <1>1, <1>4, <1>6, <1>8 DEF Covered, Protective
<1>14. IF settled THEN OnRecord(y) ELSE y.record = NoRecord
  BY <1>1, <1>4, <1>6, <1>8 DEF OnRecord, Covered, Protective
<1>15. y \in Accounts(base, settled, ids, direction)
  BY <1>1, <1>8, <1>9, <1>12, <1>13, <1>14 DEF Accounts
<1>16. ClientQuote \in Quote
  BY QuotesAreQuotes
<1> QED BY <1>5, <1>15, <1>16, ProcessKeeps

ExitsType == [stop : Int, target : Int]
\* An account in order beside the position that the engine believes in.
Beside(base) ==
  {x \in Paper : /\ Named(x) /\ x.position = WithFills(base, x.fills)
                 /\ OnRecord(x)}

\* Clearing the exits leaves none and no record.
LEMMA ClearKeeps ==
  ASSUME NEW base \in Int, NEW x \in Beside(base)
  PROVE  LET y == clear_protection(x)
         IN  /\ y \in Beside(base) /\ y.position = x.position /\ y.fills = x.fills
             /\ y.record = NoRecord /\ ExitFree(y)
<1> DEFINE all == CancelAll(x, x.record.orders)
           y == clear_protection(x)
<1>1. x \in Paper /\ Named(x) /\ x.position = WithFills(base, x.fills) /\ OnRecord(x)
  BY DEF Beside
<1>2. /\ all \in Paper /\ Named(all) /\ Fewer(all, x)
      /\ all.position = x.position /\ all.fills = x.fills
      /\ \A j \in DOMAIN all.pending : all.pending[j].id \notin x.record.orders
  BY <1>1, CancelAllKeeps DEF OnRecord, Covered
<1>3. y = [all EXCEPT !.record = NoRecord]
  BY DEF clear_protection
<1> HIDE DEF all, y
<1>4. /\ y \in Paper /\ Named(y) /\ y.record = NoRecord /\ y.pending = all.pending
      /\ y.position = x.position /\ y.fills = x.fills
  BY <1>2, <1>3, RecordReplaced, NoRecordType
<1>5. ExitFree(y)
  BY <1>1, <1>2, <1>4 DEF ExitFree, Fewer, Alike, Protective, OnRecord, Covered
<1>6. OnRecord(y)
  BY <1>5 DEF ExitFree, OnRecord, Covered
<1> QED BY <1>1, <1>4, <1>5, <1>6 DEF Beside, y

\* Both exits are on record when they were placed, even if they were filled.
LEMMA EnsureKeeps ==
  ASSUME NEW base \in Int, NEW x \in Beside(base), NEW quantity \in Nat,
         NEW direction \in {1, -1}, NEW e \in ExitsType
  PROVE  ensure_protection(x, quantity, direction, e) \in Beside(base)
<1> DEFINE clear == clear_protection(x)
           placed == _place_mock_order(clear, "stop_loss", -direction, "stop",
                                     e.stop, quantity)
           both == _place_mock_order(placed, "take_profit", -direction, "limit",
                                       e.target, quantity)
           ids == {OrderNumber(clear), OrderNumber(placed)}
           r == [orders |-> ids, direction |-> direction, exits |-> e]
           y == [both EXCEPT !.record = r]
<1>1. CASE e = NoExits \/ (x.record.direction = direction /\ x.record.exits = e)
  BY <1>1 DEF ensure_protection
<1>2. CASE ~(e = NoExits \/ (x.record.direction = direction /\ x.record.exits = e))
  <2>1. ensure_protection(x, quantity, direction, e) = y
    BY <1>2 DEF ensure_protection
  <2>2. /\ clear \in Paper /\ Named(clear) /\ clear.position = WithFills(base, clear.fills)
        /\ clear.record = NoRecord /\ ExitFree(clear)
    BY ClearKeeps DEF Beside
  <2>3. /\ e.stop \in Int /\ e.target \in Int
        /\ -direction \in {1, -1} /\ direction \in Int
    BY DEF ExitsType
  <2>4. /\ "stop_loss" \in Roles /\ "take_profit" \in Roles
    BY DEF Roles
  <2> HIDE DEF clear, placed, both
  <2>5. clear \in Accounts(base, FALSE, ids, direction)
    BY <2>2 DEF Accounts, ExitFree, Covered
  <2>6. placed \in Accounts(base, FALSE, ids, direction)
    <3>1. OrderNumber(clear) \in ids
      OBVIOUS
    <3> HIDE DEF ids
    <3> QED BY <2>3, <2>4, <2>5, <3>1, PlaceKeeps DEF placed
  <2>7. both \in Accounts(base, FALSE, ids, direction)
    <3>1. OrderNumber(placed) \in ids
      OBVIOUS
    <3> HIDE DEF ids
    <3> QED BY <2>3, <2>4, <2>6, <3>1, PlaceKeeps DEF both
  <2>8. /\ both \in Paper /\ Named(both)
        /\ both.position = WithFills(base, both.fills)
        /\ Covered(both, ids, direction)
    BY <2>7 DEF Accounts
  <2>9. r \in RecordType
    <3>1. OrderNumber(clear) \in Nat
      BY <2>2, PaperFields
    <3>2. OrderNumber(placed) \in Nat
      <4>1. placed \in Paper
        BY <2>6 DEF Accounts
      <4> QED BY <4>1, PaperFields
    <3>3. ids \in SUBSET Nat
      BY <3>1, <3>2
    <3> HIDE DEF ids
    <3> QED BY <2>3, <3>3 DEF RecordType, ExitsType
  <2>10. r.orders = ids /\ r.direction = direction
    OBVIOUS
  <2> HIDE DEF ids, r
  <2>11. /\ y \in Paper /\ y.record = r /\ y.pending = both.pending
         /\ y.position = both.position /\ y.fills = both.fills /\ Named(y)
    BY <2>8, <2>9, RecordReplaced
  <2> HIDE DEF y
  <2>12. OnRecord(y)
    BY <2>8, <2>10, <2>11 DEF OnRecord, Covered
  <2> QED BY <2>1, <2>8, <2>11, <2>12 DEF Beside
<1> QED BY <1>1, <1>2

\* The fills are taken, which are enough to price the move of the engine's
\* position to that of the account.
LEMMA FillsTaken ==
  ASSUME NEW base \in Int, NEW x \in Beside(base)
  PROVE  LET t == [by   |-> x.position - base,
                   with |-> PricedWith(x.fills, base, x.position)]
             y == [x EXCEPT !.fills = NoFills, !.priced = @ \cup {t}]
         IN  x.position # base =>
               y \in Beside(x.position) /\ y.position = x.position
<1> DEFINE t == [by   |-> x.position - base,
                 with |-> PricedWith(x.fills, base, x.position)]
           y == [x EXCEPT !.fills = NoFills, !.priced = @ \cup {t}]
<1> SUFFICES ASSUME x.position # base
             PROVE  y \in Beside(x.position) /\ y.position = x.position
  OBVIOUS
<1>1. x \in Paper /\ Named(x) /\ OnRecord(x) /\ x.position = WithFills(base, x.fills)
  BY DEF Beside
<1>2. /\ x.position \in Int /\ x.fills.buy \in Nat /\ x.fills.sell \in Nat
      /\ x.position = base + x.fills.buy - x.fills.sell
      /\ x.priced \in SUBSET Price
  BY <1>1, PaperFields DEF FillsType, WithFills
<1>3. t \in Price
  <2>1. CASE x.position > base
    <3>1. t = [by |-> x.position - base, with |-> x.fills.buy]
      BY <2>1 DEF PricedWith
    <3>2. Abs(x.position - base) = x.position - base
      BY <1>2, <2>1 DEF Abs
    <3>3. x.fills.buy >= Abs(x.position - base) /\ x.position - base \in Int
      BY <1>2, <3>2
    <3> HIDE DEF t
    <3> QED BY <1>2, <3>1, <3>3 DEF Price
  <2>2. CASE x.position < base
    <3>1. t = [by |-> x.position - base, with |-> x.fills.sell]
      BY <1>2, <2>2 DEF PricedWith
    <3>2. Abs(x.position - base) = -(x.position - base)
      BY <1>2, <2>2 DEF Abs
    <3>3. x.fills.sell >= Abs(x.position - base) /\ x.position - base \in Int
      BY <1>2, <3>2
    <3> HIDE DEF t
    <3> QED BY <1>2, <3>1, <3>3 DEF Price
  <2> QED BY <1>2, <2>1, <2>2
<1> HIDE DEF t
<1>4. /\ y.pending = x.pending /\ y.record = x.record /\ y.fills = NoFills
      /\ y.position = x.position /\ y.filled = x.filled /\ y.placed = x.placed
      /\ y.cancelled = x.cancelled
  BY <1>1 DEF Paper
<1>5. y \in Paper
  <2>1. NoFills \in FillsType
    BY DEF NoFills, FillsType
  <2>2. x.priced \cup {t} \in SUBSET Price
    BY <1>2, <1>3
  <2> QED BY <1>1, <2>1, <2>2 DEF Paper
<1> HIDE DEF y
<1>6. OrderNumber(y) = OrderNumber(x)
  BY <1>4 DEF OrderNumber
<1>7. Named(y)
  BY <1>1, <1>4, <1>6 DEF Named
<1>8. OnRecord(y)
  BY <1>1, <1>4 DEF OnRecord, Covered
<1>9. x.position = WithFills(x.position, NoFills)
  BY <1>2 DEF WithFills, NoFills
<1> QED BY <1>4, <1>5, <1>7, <1>8, <1>9 DEF Beside, y

-----------------------------------------------------------------------------
(* The engine *)

\* The states of the engine beside an account in order.
ReplayStates ==
  {s \in [paper : Paper, last_position : Int, exits : ExitsType] :
     /\ s.paper \in Beside(s.last_position)
     /\ s.last_position = 0 => ExitFree(s.paper)}

\* How a state of the engine is put together,
LEMMA ReplayState ==
  ASSUME NEW last \in Int, NEW x \in Beside(last), NEW e \in ExitsType,
         last = 0 => ExitFree(x)
  PROVE  Replay(x, last, e) \in ReplayStates
BY DEF Replay, ReplayStates, Beside

\* and taken apart.
LEMMA StateFields ==
  ASSUME NEW s \in ReplayStates
  PROVE  /\ s.last_position \in Int /\ s.exits \in ExitsType
         /\ s.paper \in Beside(s.last_position) /\ s.paper \in Paper
         /\ s.last_position = 0 => ExitFree(s.paper)
BY DEF ReplayStates

\* The types of no exits, of a sign and of a size.
LEMMA NoExitsType == NoExits \in ExitsType
BY DEF NoExits, ExitsType

LEMMA SignType == \A n \in Int : n # 0 => Sign(n) \in {1, -1}
BY DEF Sign

LEMMA AbsType == \A n \in Int : Abs(n) \in Nat
BY DEF Abs

\* Following the paper position keeps engine and account together.
LEMMA SyncKeeps ==
  ASSUME NEW s \in ReplayStates
  PROVE  _sync_position_state(s) \in ReplayStates
<1> DEFINE signed == s.paper.position
           t == [by   |-> signed - s.last_position,
                 with |-> PricedWith(s.paper.fills, s.last_position, signed)]
           x == [s.paper EXCEPT !.fills = NoFills, !.priced = @ \cup {t}]
<1>1. /\ s.last_position \in Int /\ s.exits \in ExitsType
      /\ s.paper \in Beside(s.last_position) /\ s.paper \in Paper
  BY StateFields
<1>2. signed # s.last_position => x \in Beside(signed)
  BY <1>1, FillsTaken
<1>3. _sync_position_state(s) =
        CASE signed = s.last_position -> s
          [] signed # s.last_position /\ signed = 0 ->
               Replay(clear_protection(x), 0, NoExits)
          [] OTHER ->
               Replay(ensure_protection(x, Abs(signed), Sign(signed), s.exits),
                      signed, s.exits)
  BY DEF _sync_position_state
<1> HIDE DEF x
<1>7. signed \in Int
  BY <1>1, PaperFields
<1> HIDE DEF signed
<1>4. CASE signed = s.last_position
  BY <1>3, <1>4
<1>5. CASE signed # s.last_position /\ signed = 0
  <2>1. clear_protection(x) \in Beside(0) /\ ExitFree(clear_protection(x))
    BY <1>2, <1>5, ClearKeeps
  <2>2. Replay(clear_protection(x), 0, NoExits) \in ReplayStates
    BY <2>1, NoExitsType, ReplayState
  <2> QED BY <1>3, <1>5, <2>2
<1>6. CASE signed # s.last_position /\ signed # 0
  <2> DEFINE y == ensure_protection(x, Abs(signed), Sign(signed), s.exits)
  <2>1. y \in Beside(signed)
    BY <1>1, <1>2, <1>6, <1>7, EnsureKeeps, SignType, AbsType
  <2> HIDE DEF y
  <2>2. Replay(y, signed, s.exits) \in ReplayStates
    BY <1>1, <1>6, <1>7, <2>1, ReplayState
  <2> QED BY <1>3, <1>6, <2>2 DEF y
<1> QED BY <1>4, <1>5, <1>6

\* A fill takes nothing from what is known of the account.
LEMMA Reordered ==
  ASSUME NEW s \in ReplayStates, NEW x,
         \A ids, direction : s.paper \in Accounts(s.last_position, TRUE, ids, direction)
           => x \in Accounts(s.last_position, TRUE, ids, direction)
  PROVE  Replay(x, s.last_position, s.exits) \in ReplayStates
<1>1. /\ s.last_position \in Int /\ s.exits \in ExitsType
      /\ s.paper \in Beside(s.last_position)
      /\ s.last_position = 0 => ExitFree(s.paper)
  BY StateFields
<1>2. s.paper \in Accounts(s.last_position, TRUE, s.paper.record.orders,
                           s.paper.record.direction)
  BY <1>1 DEF Beside, OnRecord, Accounts
<1>3. x \in Beside(s.last_position)
  BY <1>2 DEF Accounts, Beside
<1>4. ASSUME s.last_position = 0 PROVE ExitFree(x)
  <2>1. s.paper \in Accounts(s.last_position, TRUE, {}, 1)
    BY <1>1, <1>4 DEF Beside, ExitFree, Covered, Accounts
  <2>2. Covered(x, {}, 1)
    BY <2>1 DEF Accounts
  <2> QED BY <2>2 DEF Covered, ExitFree
<1> QED BY <1>1, <1>3, <1>4, ReplayState

\* A flatten cancels all orders and sells what the account holds.
LEMMA FlattenKeeps ==
  ASSUME NEW s \in ReplayStates
  PROVE  _flatten_position(s) \in ReplayStates
<1> DEFINE last == s.last_position
           clear == clear_protection(s.paper)
           x == CancelAll(clear, PendingIds(clear))
           sold == IF x.position = 0 THEN x
                   ELSE _place_mock_order(x, "flatten", -Sign(x.position), "market",
                                          0, Abs(x.position))
           t == [s EXCEPT !.paper = sold]
<1>1. last \in Int /\ s.exits \in ExitsType /\ s.paper \in Beside(last)
  BY StateFields
<1>2. _flatten_position(s) = _sync_position_state(t)
  BY DEF _flatten_position
<1> HIDE DEF clear, x, sold, last
<1>3. /\ clear \in Paper /\ Named(clear) /\ clear.position = WithFills(last, clear.fills)
      /\ clear.record = NoRecord /\ ExitFree(clear)
  BY <1>1, ClearKeeps DEF clear, Beside
<1>4. /\ x \in Paper /\ Named(x) /\ x.position = WithFills(last, x.fills)
      /\ x.pending = <<>> /\ x.record = NoRecord
  <2> DEFINE names == PendingIds(clear)
  <2>1. \A i \in DOMAIN clear.pending : clear.pending[i].id \in names
    BY DEF PendingIds
  <2> HIDE DEF names
  <2>2. /\ x \in Paper /\ Named(x) /\ Fewer(x, clear)
        /\ x.position = clear.position /\ x.fills = clear.fills
        /\ x.record = clear.record
        /\ \A j \in DOMAIN x.pending : x.pending[j].id \notin names
    BY <1>3, <2>1, CancelAllKeeps DEF x, names
  <2>3. DOMAIN x.pending = {}
    BY <2>1, <2>2 DEF Fewer, Alike
  <2>4. x.pending = <<>>
    <3>1. x.pending \in Seq(OrderType)
      BY <2>2, PaperFields
    <3>2. DOMAIN x.pending = 1..Len(x.pending)
      BY <2>2, PaperFields
    <3>3. x.pending # <<>> => 1 \in 1..Len(x.pending)
      BY <3>1, EmptySeq
    <3> QED BY <2>3, <3>2, <3>3
  <2> QED BY <1>3, <2>2, <2>4
<1>5. x \in Accounts(last, TRUE, {}, 1)
  BY <1>4 DEF Accounts, Covered, OnRecord
<1>6. sold \in Accounts(last, TRUE, {}, 1)
  <2>1. CASE x.position = 0
    BY <1>5, <2>1 DEF sold
  <2>2. CASE x.position # 0
    <3>1. x.position \in Int
      BY <1>4, PaperFields
    <3>2. -Sign(x.position) \in {1, -1} /\ Abs(x.position) \in Nat
      <4>1. Sign(x.position) \in {1, -1}
        BY <2>2, <3>1, SignType
      <4> QED BY <3>1, <4>1, AbsType
    <3>3. "flatten" \in Roles /\ "market" \in {"market", "limit", "stop"} /\ 0 \in Int
      BY DEF Roles
    <3>4. _place_mock_order(x, "flatten", -Sign(x.position), "market",
                            0, Abs(x.position)) \in Accounts(last, TRUE, {}, 1)
      BY <1>1, <1>4, <1>5, <3>2, <3>3, PlaceKeeps
    <3> QED BY <2>2, <3>4 DEF sold
  <2> QED BY <2>1, <2>2
<1>7. sold \in Beside(last) /\ ExitFree(sold)
  BY <1>6 DEF Accounts, Beside, Covered, ExitFree
<1>8. t \in ReplayStates
  <2>1. s \in [paper : Paper, last_position : Int, exits : ExitsType]
    BY DEF ReplayStates
  <2>2. /\ t.paper = sold /\ t.last_position = last
        /\ t \in [paper : Paper, last_position : Int, exits : ExitsType]
    BY <1>7, <2>1 DEF Beside, last
  <2> QED BY <1>7, <2>2 DEF ReplayStates
<1> QED BY <1>2, <1>8, SyncKeeps

\* An entry is placed when nothing at all is pending.
LEMMA EnterKeeps ==
  ASSUME quote \in Quote,
         NEW s \in ReplayStates, s.last_position = 0, ~EntryPending(s.paper),
         NEW q \in Quote, NEW side \in {1, -1}, NEW quantity \in Nat
  PROVE  EnterPosition(s, q, side, quantity) \in ReplayStates
<1> DEFINE type == IF UseLimitOrders THEN "limit" ELSE "market"
           limit == IF UseLimitOrders THEN _choose_entry_order(q, side) ELSE 0
           placed == _place_mock_order(s.paper, "entry", side, type, limit, quantity)
           e == [stop   |-> quote.last - side * StopDistance,
                 target |-> quote.last + side * TargetDistance]
<1>1. /\ s.paper \in Beside(0) /\ s.paper \in Paper /\ ExitFree(s.paper)
  BY StateFields
<1>2. s.paper.pending = <<>>
  <2>1. DOMAIN s.paper.pending = {}
    BY <1>1 DEF EntryPending, ExitFree
  <2> QED BY <1>1, <2>1, PaperFields, EmptySeq
<1>3. limit \in Int /\ type \in {"market", "limit", "stop"}
  <2>1. /\ q.ask \in Int /\ q.bid \in Int /\ q.last \in Int
        /\ side * LimitOffset \in Int /\ side * MaxSlippage \in Int
    BY DistancesAreNatural DEF Quote
  <2>2. _choose_entry_order(q, side) \in Int
    BY <2>1 DEF _choose_entry_order
  <2> QED BY <2>2
<1>4. EnterPosition(s, q, side, quantity)
        = _sync_position_state(Replay(placed, s.last_position, e))
  BY DEF EnterPosition
<1> HIDE DEF limit, type
<1>5. e \in ExitsType
  <2>1. StopDistance \in Int /\ TargetDistance \in Int /\ side \in Int
    BY DistancesAreNatural
  <2>2. side * StopDistance \in Int /\ side * TargetDistance \in Int
    BY <2>1
  <2>3. quote.last \in Int
    BY DEF Quote
  <2>4. /\ quote.last - side * StopDistance \in Int
        /\ quote.last + side * TargetDistance \in Int
    BY <2>2, <2>3
  <2> QED BY <2>4 DEF ExitsType
<1> HIDE DEF e
<1>6. s.paper \in Accounts(0, TRUE, {}, 1)
  BY <1>1 DEF Beside, ExitFree, Covered, Accounts
<1>7. "entry" \in Roles
  BY DEF Roles
<1>8. placed \in Accounts(0, TRUE, {}, 1)
  <2>1. "entry" \in {"entry", "flatten"} /\ 0 \in Int /\ TRUE \in BOOLEAN
    OBVIOUS
  <2>2. _place_mock_order(s.paper, "entry", side, type, limit, quantity)
          \in Accounts(0, TRUE, {}, 1)
    <3> HIDE DEF placed
    <3> QED BY <1>2, <1>3, <1>6, <1>7, <2>1, PlaceKeeps
  <2> QED BY <2>2
<1> HIDE DEF placed
<1>9. placed \in Beside(0) /\ ExitFree(placed)
  BY <1>8 DEF Accounts, Beside, Covered, ExitFree
<1>10. Replay(placed, s.last_position, e) \in ReplayStates
  BY <1>5, <1>9, ReplayState
<1> QED BY <1>4, <1>10, SyncKeeps

\* What a bar leads to keeps engine and account together.
LEMMA EvaluationKeeps ==
  ASSUME quote \in Quote, NEW s \in ReplayStates, NEW q \in Quote
  PROVE  _evaluate_current_state(s, q) \subseteq ReplayStates
<1>1. CASE s.last_position # 0
  <2>1. _evaluate_current_state(s, q) = {s} \cup {_flatten_position(s)}
    BY <1>1 DEF _evaluate_current_state
  <2> QED BY <2>1, FlattenKeeps
<1>2. CASE s.last_position = 0 /\ EntryPending(s.paper)
  <2>1. _evaluate_current_state(s, q) = {s} \cup {}
    BY <1>2 DEF _evaluate_current_state
  <2> QED BY <2>1
<1>3. CASE s.last_position = 0 /\ ~EntryPending(s.paper)
  <2>1. _evaluate_current_state(s, q) =
          {s} \cup {EnterPosition(s, q, side, quantity) :
                      side \in {1, -1}, quantity \in 1..MaxContracts}
    BY <1>3 DEF _evaluate_current_state
  <2>2. \A side \in {1, -1}, quantity \in 1..MaxContracts :
          EnterPosition(s, q, side, quantity) \in ReplayStates
    <3>1. 1..MaxContracts \subseteq Nat
      BY DistancesAreNatural
    <3> QED BY <1>3, <3>1, EnterKeeps
  <2> QED BY <2>1, <2>2
<1> QED BY <1>1, <1>2, <1>3

\* The invariant: the engine beside an account in order.
ReplayInv == quote \in Quote /\ Replay(paper, last_position, exits) \in ReplayStates

\* The fills of a quote, and the sync that follows them.
LEMMA AfterFillsKeeps ==
  ASSUME ReplayInv, NEW q \in Quote
  PROVE  AfterFills(q) \in ReplayStates
<1> DEFINE old == Replay(paper, last_position, exits)
           fresh == [paper EXCEPT !.tried = {}, !.priced = {}]
           x == process_market_data(fresh, q)
           s == Replay(x, last_position, exits)
<1>1. old \in ReplayStates
  BY DEF ReplayInv
<1>2. old.paper = paper /\ old.last_position = last_position /\ old.exits = exits
  BY DEF Replay
<1>3. paper \in Paper /\ last_position \in Int
  BY <1>1, <1>2, StateFields
<1> HIDE DEF old
<1>4. ASSUME NEW ids, NEW direction, paper \in Accounts(last_position, TRUE, ids, direction)
      PROVE  fresh \in Accounts(last_position, TRUE, ids, direction)
  <2>1. /\ fresh.pending = paper.pending /\ fresh.record = paper.record
        /\ fresh.fills = paper.fills /\ fresh.position = paper.position
        /\ fresh.filled = paper.filled /\ fresh.placed = paper.placed
        /\ fresh.cancelled = paper.cancelled /\ fresh \in Paper
    BY <1>3 DEF Paper
  <2> HIDE DEF fresh
  <2>2. OrderNumber(fresh) = OrderNumber(paper)
    BY <2>1 DEF OrderNumber
  <2>3. Named(fresh)
    BY <1>4, <2>1, <2>2 DEF Named, Accounts
  <2>4. Covered(fresh, ids, direction) /\ OnRecord(fresh)
    BY <1>4, <2>1 DEF Accounts, Covered, OnRecord
  <2> QED BY <1>4, <2>1, <2>3, <2>4 DEF Accounts
<1> HIDE DEF fresh
<1>5. ASSUME NEW ids, NEW direction, paper \in Accounts(last_position, TRUE, ids, direction)
      PROVE  x \in Accounts(last_position, TRUE, ids, direction)
  BY <1>3, <1>4, <1>5, ProcessKeeps
<1> HIDE DEF x
<1>6. s \in ReplayStates
  BY <1>1, <1>2, <1>5, Reordered
<1>7. AfterFills(q) = IF x.fills # paper.fills
                      THEN _sync_position_state(s) ELSE s
  BY DEF AfterFills, x, fresh
<1> QED BY <1>6, <1>7, SyncKeeps

\* The invariant holds at the start,
LEMMA ReplayStarts == ReplayInit => ReplayInv
<1> SUFFICES ASSUME ReplayInit PROVE ReplayInv
  OBVIOUS
<1>1. paper = Executor /\ last_position = 0 /\ exits = NoExits
  BY DEF ReplayInit
<1>2. /\ paper.pending = <<>> /\ paper.position = 0 /\ paper.record = NoRecord
      /\ paper.fills = NoFills /\ paper.filled = 0 /\ paper.placed = 0
      /\ paper.cancelled = 0
  BY <1>1 DEF Executor
<1>3. paper \in Paper
  <2>1. <<>> \in Seq(OrderType)
    OBVIOUS
  <2>2. NoFills \in FillsType
    BY DEF NoFills, FillsType
  <2> QED BY <1>1, <2>1, <2>2, NoRecordType DEF Executor, Paper
<1>4. OrderNumber(paper) = 0
  BY <1>2 DEF OrderNumber
<1>5. Named(paper) /\ OnRecord(paper) /\ ExitFree(paper)
  BY <1>2, <1>4 DEF Named, OnRecord, Covered, ExitFree, Distinct
<1>6. paper.position = WithFills(0, paper.fills)
  BY <1>2 DEF WithFills, NoFills
<1>7. quote \in Quote
  BY QuotesAreQuotes DEF ReplayInit
<1> QED BY <1>1, <1>3, <1>5, <1>6, <1>7, NoExitsType, ReplayState DEF Beside, ReplayInv

\* and every step keeps it.
LEMMA ReplayStep == ReplayInv /\ [ReplayNext]_replay_vars => ReplayInv'
<1> SUFFICES ASSUME ReplayInv, [ReplayNext]_replay_vars PROVE ReplayInv'
  OBVIOUS
<1>1. ASSUME NEW q \in Quotes, on_market_data(q) PROVE ReplayInv'
  <2>1. q \in Quote
    BY QuotesAreQuotes
  <2> DEFINE synced == AfterFills(q)
  <2>2. synced \in ReplayStates
    BY <2>1, AfterFillsKeeps
  <2>3. PICK s \in IF TickLevelExit(synced, q) THEN {_flatten_position(synced)}
                   ELSE _evaluate_current_state(synced, q) :
          paper' = s.paper /\ last_position' = s.last_position /\ exits' = s.exits
    BY <1>1 DEF on_market_data
  <2> HIDE DEF synced
  <2>4. s \in ReplayStates
    BY <2>1, <2>2, <2>3, FlattenKeeps, EvaluationKeeps DEF ReplayInv
  <2>5. Replay(paper', last_position', exits') \in ReplayStates
    BY <2>3, <2>4, StateFields, ReplayState
  <2>6. quote' \in Quote
    BY <1>1, <2>1 DEF on_market_data
  <2> QED BY <2>5, <2>6 DEF ReplayInv, Replay
<1>2. CASE UNCHANGED replay_vars
  BY <1>2 DEF replay_vars, ReplayInv, Replay
<1> QED BY <1>1, <1>2 DEF ReplayNext

\* In a replay the engine and the paper account stay in order.
THEOREM ReplayInvariant == ReplaySpec => []ReplayInv
BY ReplayStarts, ReplayStep, PTL DEF ReplaySpec

\* TransitionsArePriced: however orders are filled in part, beside each other and
\* while exits are being placed, a move of the engine's position is priced by at
\* least as many fills of its own side as it moves by, never by the average or
\* the last price (consume_fills, _sync_position_state).
THEOREM TransitionsPriced == ReplaySpec => []TransitionsArePriced
<1>1. ReplayInv => TransitionsArePriced
  <2> SUFFICES ASSUME ReplayInv PROVE TransitionsArePriced
    OBVIOUS
  <2>1. paper \in Paper
    BY StateFields DEF ReplayInv, Replay
  <2>2. paper.priced \in SUBSET Price
    BY <2>1, PaperFields
  <2> QED BY <2>2 DEF Price, TransitionsArePriced
<1> QED BY <1>1, ReplayInvariant, PTL

\* ExitsAreRecorded: no order takes the name of a pending one, and every exit
\* that is pending is named by the record and opposes its direction, so that a
\* flatten, a close and the other exit's fill reach it (ensure_protection,
\* clear_protection).
THEOREM PendingExitsRecorded == ReplaySpec => []ExitsAreRecorded
<1>1. ReplayInv => ExitsAreRecorded
  <2> SUFFICES ASSUME ReplayInv PROVE ExitsAreRecorded
    OBVIOUS
  <2>1. /\ paper \in Beside(last_position)
        /\ last_position = 0 => ExitFree(paper)
    BY StateFields DEF ReplayInv, Replay
  <2>2. paper.placed = Len(paper.pending) + paper.filled + paper.cancelled
    BY <2>1 DEF Beside, Named, OrderNumber
  <2> QED BY <2>1, <2>2 DEF Beside, OnRecord, Covered, ExitFree, ExitsAreRecorded
<1> QED BY <1>1, ReplayInvariant, PTL
=============================================================================
