--------------------------- MODULE MarketSession ---------------------------
(***************************************************************************)
(* src/market/topstep_client.py and the start and stop of                  *)
(* src/engine/trading_engine.py: the session with the broker that a        *)
(* runtime opens once.                                                     *)
(*                                                                         *)
(* Three threads: the caller, which starts the engine and stops it, the    *)
(* thread of the market stream and the one of the user hub.  The caller    *)
(* closes their sockets through the attributes _ws and _user_hub_ws, which *)
(* the threads set once they are connected, and then joins them for five   *)
(* seconds.  The market stream ends with its socket; the user hub connects *)
(* again.                                                                  *)
(***************************************************************************)
EXTENDS Integers, Sequences

CONSTANTS
  AccountLists,     \* the answers of Account/search
  NoAccount,        \* _account is None
  PreferredId,      \* PREFERRED_ACCOUNT_ID, or an id no account has
  RequirePractice,  \* prac_only or require_preferred_account
  Attempts,         \* api.retry_attempts
  MaxFaults         \* bound of the model: requests and connections that fail

ASSUME SessionConfig ==
  /\ RequirePractice \in BOOLEAN /\ Attempts \in Nat \ {0}
  /\ MaxFaults \in Nat
  /\ \A accounts \in AccountLists : DOMAIN accounts \subseteq Nat
  /\ \A accounts \in AccountLists : \A i \in DOMAIN accounts :
       /\ accounts[i].practice \in BOOLEAN /\ accounts[i].can_trade \in BOOLEAN
       /\ accounts[i].near_target \in BOOLEAN /\ accounts[i].visible \in BOOLEAN

VARIABLES
  engine,        \* where start and stop are
  failed,        \* start raises when its stop is done
  token,         \* _access_token: none, valid or expired
  account,       \* _account
  stream,        \* the thread of the market stream
  ws,            \* _ws is set
  socket,        \* its socket: none, open or closed
  connected,     \* _connected
  stream_ready,  \* _stream_ready
  stream_error,  \* _stream_error is set
  hub,           \* the thread of the user hub
  hub_ws,        \* _user_hub_ws is set
  hub_socket,    \* its socket
  hub_connected, \* _user_hub_connected
  hub_stop,      \* _user_hub_stop_requested
  quoted,        \* ghost: a quote or a trade has been received
  faults         \* ghost: what has failed

market == <<stream, ws, socket, connected, stream_ready, stream_error>>
user_hub == <<hub, hub_ws, hub_socket, hub_connected, hub_stop>>
login == <<token, account>>
vars == <<engine, failed, login, market, user_hub, quoted, faults>>

Starting == {"new", "account", "streams", "wait", "adopt"}
Stopping == {"stop_hub", "close_hub", "clear_hub", "join_hub", "close_stream", "join_stream"}
Settled == {"running", "stopped", "failed"}
StreamAt == {"none", "connect", "handshake", "listen", "callback", "ended"}
HubAt == {"none", "loop", "connect", "subscribe", "enter", "listen", "callback",
          "backoff", "ended"}
Sockets == {"none", "open", "closed"}

Listed == UNION {{accounts[i] : i \in DOMAIN accounts} : accounts \in AccountLists}

CallerTyped ==
  /\ engine \in Starting \cup Stopping \cup Settled
  /\ token \in {"none", "valid", "expired"}
  /\ account \in Listed \cup {NoAccount}
  /\ failed \in BOOLEAN /\ quoted \in BOOLEAN
StreamTyped ==
  /\ stream \in StreamAt /\ socket \in Sockets
  /\ ws \in BOOLEAN /\ connected \in BOOLEAN
  /\ stream_ready \in BOOLEAN /\ stream_error \in BOOLEAN
  /\ ws => socket # "none"
HubTyped ==
  /\ hub \in HubAt /\ hub_socket \in Sockets
  /\ hub_ws \in BOOLEAN /\ hub_connected \in BOOLEAN /\ hub_stop \in BOOLEAN
  /\ hub_ws => hub_socket # "none"
StartTogether == (stream = "none") <=> (hub = "none")
TypeOK ==
  /\ CallerTyped /\ StreamTyped /\ HubTyped /\ StartTogether
  /\ faults \in 0..MaxFaults

Init ==
  /\ engine = "new" /\ failed = FALSE
  /\ token = "none" /\ account = NoAccount
  /\ stream = "none" /\ ws = FALSE /\ socket = "none" /\ connected = FALSE
  /\ stream_ready = FALSE /\ stream_error = FALSE
  /\ hub = "none" /\ hub_ws = FALSE /\ hub_socket = "none"
  /\ hub_connected = FALSE /\ hub_stop = FALSE
  /\ quoted = FALSE /\ faults = 0

Fails == faults < MaxFaults /\ faults' = faults + 1
\* A request with n tries that fails has failed n times.
RequestFails == faults + Attempts <= MaxFaults /\ faults' = faults + Attempts
_ensure_auth == token = "valid"
-----------------------------------------------------------------------------
(* The account *)

\* The first of some of the accounts, given by their places in the list.
FirstOf(accounts, places) ==
  IF places = {} THEN NoAccount
  ELSE accounts[CHOOSE i \in places : \A j \in places : i <= j]

_is_practice_account(acc) == acc.practice
OrElse(first, second) == IF first # NoAccount THEN first ELSE second

\* A mutation: an account that is asked for by its id need not be one for
\* practice.
SelectPreferredFirst(accounts) ==
  LET tradable  == {i \in DOMAIN accounts : accounts[i].can_trade}
      preferred == {i \in tradable : accounts[i].id = PreferredId}
      practice  == {i \in tradable : _is_practice_account(accounts[i])}
  IN  OrElse(FirstOf(accounts, preferred), FirstOf(accounts, practice))

_select_account(accounts) ==
  LET tradable  == {i \in DOMAIN accounts : accounts[i].can_trade}
      preferred == FirstOf(accounts, {i \in tradable : accounts[i].id = PreferredId})
      practice  == FirstOf(accounts,
                     {i \in tradable : _is_practice_account(accounts[i])})
      near      == FirstOf(accounts, {i \in tradable : accounts[i].near_target})
      visible   == FirstOf(accounts, {i \in tradable : accounts[i].visible})
      any       == OrElse(near, OrElse(visible, FirstOf(accounts, tradable)))
  IN  IF preferred # NoAccount
      THEN IF RequirePractice /\ ~_is_practice_account(preferred) THEN NoAccount
           ELSE preferred
      ELSE IF practice # NoAccount THEN practice
      ELSE IF RequirePractice THEN NoAccount ELSE any
-----------------------------------------------------------------------------
(* Start *)

\* A start that fails before its streams run raises at once.
StartFails == engine' = "failed" /\ failed' = TRUE

authenticate ==
  /\ engine = "new"
  /\ \/ /\ token' = "valid" /\ engine' = "account"
        /\ UNCHANGED <<failed, faults>>
     \/ /\ RequestFails /\ StartFails /\ UNCHANGED token
     \* Credentials that are missing or refused.
     \/ /\ Fails /\ StartFails /\ UNCHANGED token
  /\ UNCHANGED <<account, market, user_hub, quoted>>

get_account ==
  /\ engine = "account"
  /\ \/ /\ _ensure_auth
        /\ \E accounts \in AccountLists :
             /\ account' = _select_account(accounts)
             /\ IF account' = NoAccount THEN StartFails
                ELSE engine' = "streams" /\ UNCHANGED failed
        /\ UNCHANGED faults
     \/ RequestFails /\ StartFails /\ UNCHANGED account
  /\ UNCHANGED <<token, market, user_hub, quoted>>

\* A mutation: the user hub is not started with the stream.
StartStreamOnly ==
  /\ engine = "streams" /\ engine' = "wait"
  /\ stream' = "connect" /\ stream_ready' = FALSE /\ stream_error' = FALSE
  /\ UNCHANGED <<failed, login, ws, socket, connected, user_hub, quoted, faults>>

start_market_stream ==
  /\ engine = "streams" /\ engine' = "wait"
  /\ stream' = "connect" /\ stream_ready' = FALSE /\ stream_error' = FALSE
  /\ hub' = "loop" /\ hub_stop' = FALSE
  /\ UNCHANGED <<failed, login, ws, socket, connected, hub_ws, hub_socket,
                 hub_connected, quoted, faults>>

\* A mutation: the wait ends with the first quote or the first error alike.
WaitsForReady ==
  /\ engine = "wait" /\ stream_ready
  /\ engine' = "adopt" /\ UNCHANGED failed
  /\ UNCHANGED <<login, market, user_hub, quoted, faults>>

\* Ready or not: an error, a thread that is gone and the timeout end the wait.
wait_for_market_stream ==
  /\ engine = "wait"
  /\ \/ /\ stream_ready /\ ~stream_error
        /\ engine' = "adopt" /\ UNCHANGED failed
     \/ /\ stream_error \/ ~stream_ready
        /\ engine' = "stop_hub" /\ failed' = TRUE
  /\ UNCHANGED <<login, market, user_hub, quoted, faults>>

\* The broker's state is adopted and the worker started.
StartDone ==
  /\ engine = "adopt" /\ engine' = "running"
  /\ UNCHANGED <<failed, login, market, user_hub, quoted, faults>>

\* The seven days assumed for a token are over, which a start never sees.
TokenExpires ==
  /\ token = "valid" /\ engine = "running" /\ Fails /\ token' = "expired"
  /\ UNCHANGED <<engine, failed, account, market, user_hub, quoted>>

\* Most requests are refused then.  The one the engine's worker repeats for as
\* long as it runs, for the broker's truth, authenticates again.
get_broker_truth_bundle ==
  /\ token = "expired" /\ engine = "running"
  /\ \/ token' = "valid" /\ UNCHANGED faults
     \/ (RequestFails \/ Fails) /\ UNCHANGED token
  /\ UNCHANGED <<engine, failed, account, market, user_hub, quoted>>
-----------------------------------------------------------------------------
(* The thread of the market stream *)

\* A mutation: the end of the thread leaves the flag.
StreamEndsFlagged ==
  /\ stream' = "ended" /\ UNCHANGED connected
  /\ socket' = IF socket = "open" THEN "closed" ELSE socket

\* run_ws ends: its pending tasks are cancelled and its loop is closed.
StreamEnds ==
  /\ stream' = "ended" /\ connected' = FALSE
  /\ socket' = IF socket = "open" THEN "closed" ELSE socket
StreamFails == StreamEnds /\ stream_error' = TRUE /\ stream_ready' = TRUE
StreamEndsQuietly == StreamEnds /\ UNCHANGED <<stream_error, stream_ready>>

\* The contract is resolved and the hub is dialled.
_ws_dial ==
  /\ stream = "connect"
  /\ \/ /\ _ensure_auth
        /\ stream' = "handshake" /\ ws' = TRUE /\ socket' = "open"
        /\ UNCHANGED <<connected, stream_error, stream_ready, faults>>
     \/ Fails /\ StreamFails /\ UNCHANGED ws
  /\ UNCHANGED <<engine, failed, login, user_hub, quoted>>

\* The handshake, which uses the attribute, and the subscriptions.
_signalr_handshake ==
  /\ stream = "handshake"
  /\ \/ /\ ws /\ socket = "open"
        /\ stream' = "listen" /\ connected' = TRUE
        /\ UNCHANGED <<socket, stream_error, stream_ready, faults>>
     \/ (~ws \/ socket = "closed") /\ StreamFails /\ UNCHANGED faults
     \/ Fails /\ StreamFails
  /\ UNCHANGED <<engine, failed, login, ws, user_hub, quoted>>

\* A quote or a trade: the first one makes the stream ready.
_handle_ws_message ==
  /\ stream = "listen" /\ socket = "open"
  /\ stream' = "callback" /\ quoted' = TRUE
  /\ stream_ready' = TRUE
  /\ stream_error' = (stream_error /\ stream_ready)
  /\ UNCHANGED <<engine, failed, login, ws, socket, connected, user_hub, faults>>

\* on_market_data returns, or raises and so ends the stream.
MarketCallback ==
  /\ stream = "callback"
  /\ \/ /\ stream' = "listen"
        /\ UNCHANGED <<connected, socket, stream_error, stream_ready, faults>>
     \/ Fails /\ StreamFails
  /\ UNCHANGED <<engine, failed, login, ws, user_hub, quoted>>

\* The socket was closed by this side, is closed by the other or breaks.
_ws_listen ==
  /\ stream = "listen"
  /\ \/ socket = "closed" /\ StreamEndsQuietly /\ UNCHANGED faults
     \/ socket = "open" /\ Fails /\ (StreamEndsQuietly \/ StreamFails)
  /\ UNCHANGED <<engine, failed, login, ws, user_hub, quoted>>
-----------------------------------------------------------------------------
(* The thread of the user hub *)

HubEnds == hub' = "ended" /\ hub_connected' = FALSE

\* An exception: the end if a stop was requested, else another try later.
HubFails ==
  /\ hub_connected' = FALSE
  /\ hub' = IF hub_stop THEN "ended" ELSE "backoff"

\* A mutation: an error ends the loop, as it does that of the market stream.
RunsOnce ==
  \/ /\ hub = "loop"
     /\ \/ hub_stop /\ HubEnds
        \/ ~hub_stop /\ hub' = "connect" /\ UNCHANGED hub_connected
  \/ hub = "backoff" /\ HubEnds

_user_hub_run_loop ==
  \/ /\ hub = "loop"
     /\ \/ hub_stop /\ HubEnds
        \/ ~hub_stop /\ hub' = "connect" /\ UNCHANGED hub_connected
  \/ hub = "backoff" /\ hub' = "loop" /\ UNCHANGED hub_connected

HubLoop ==
  /\ _user_hub_run_loop
  /\ UNCHANGED <<engine, failed, login, market, hub_ws, hub_socket, hub_stop,
                 quoted, faults>>

_user_hub_dial ==
  /\ hub = "connect"
  /\ \/ /\ _ensure_auth
        /\ hub' = "subscribe" /\ hub_ws' = TRUE /\ hub_socket' = "open"
        /\ UNCHANGED <<hub_connected, faults>>
     \/ ~_ensure_auth /\ HubFails /\ UNCHANGED <<hub_ws, hub_socket, faults>>
     \/ Fails /\ HubFails /\ UNCHANGED <<hub_ws, hub_socket>>
  /\ UNCHANGED <<engine, failed, login, market, hub_stop, quoted>>

\* Handshake, four subscriptions and a pause.  A socket that goes in the pause
\* is noticed by the listener.
_user_hub_subscribe ==
  /\ hub = "subscribe"
  /\ \/ hub' = "enter" /\ hub_connected' = TRUE /\ UNCHANGED faults
     \/ (~hub_ws \/ hub_socket = "closed") /\ HubFails /\ UNCHANGED faults
     \/ Fails /\ HubFails
  /\ UNCHANGED <<engine, failed, login, market, hub_ws, hub_socket, hub_stop,
                 quoted>>

\* The listener looks at the attribute once and keeps the socket it found.
_user_hub_enter ==
  /\ hub = "enter" /\ hub' = IF hub_ws THEN "listen" ELSE "loop"
  /\ UNCHANGED <<engine, failed, login, market, hub_ws, hub_socket, hub_connected,
                 hub_stop, quoted, faults>>

\* An order or a position; what the callback raises is logged.
_handle_user_hub_message ==
  /\ \/ hub = "listen" /\ hub_socket = "open" /\ hub' = "callback"
     \/ hub = "callback" /\ hub' = "listen"
  /\ UNCHANGED <<engine, failed, login, market, hub_ws, hub_socket, hub_connected,
                 hub_stop, quoted, faults>>

\* A socket that was closed in good order ends the listener and leaves the
\* flag; one that breaks raises.
_user_hub_listen ==
  /\ hub = "listen" /\ hub_socket' = "closed"
  /\ \/ /\ hub_socket = "closed" /\ UNCHANGED faults
        /\ hub' = "loop" /\ UNCHANGED hub_connected
     \/ /\ hub_socket = "open" /\ Fails
        /\ HubFails \/ (hub' = "loop" /\ UNCHANGED hub_connected)
  /\ UNCHANGED <<engine, failed, login, market, hub_ws, hub_stop, quoted>>
-----------------------------------------------------------------------------
(* Stop: of a running engine, or of a start whose stream is not ready *)

stop ==
  /\ engine = "running" /\ engine' = "stop_hub"
  /\ UNCHANGED <<failed, login, market, user_hub, quoted, faults>>

\* An action of the caller on the attributes of the user hub.
Caller(at, next) ==
  /\ engine = at /\ engine' = next
  /\ UNCHANGED <<failed, login, hub, market, quoted, faults>>

stop_user_hub_listener ==
  \/ /\ Caller("stop_hub", "close_hub") /\ hub_stop' = TRUE
     /\ UNCHANGED <<hub_ws, hub_socket, hub_connected>>
  \/ /\ Caller("close_hub", "clear_hub")
     /\ hub_socket' = IF hub_ws /\ hub # "ended" THEN "closed" ELSE hub_socket
     /\ UNCHANGED <<hub_ws, hub_stop, hub_connected>>
  \/ /\ Caller("clear_hub", "join_hub") /\ hub_ws' = FALSE
     /\ UNCHANGED <<hub_socket, hub_stop, hub_connected>>

\* A mutation: the join has no timeout.
JoinForEver ==
  /\ Caller("join_hub", "close_stream") /\ hub = "ended"
  /\ hub_connected' = FALSE /\ UNCHANGED <<hub_ws, hub_socket, hub_stop>>

\* The thread has ended, or the five seconds are over.
join_user_hub ==
  /\ Caller("join_hub", "close_stream")
  /\ hub_connected' = FALSE /\ UNCHANGED <<hub_ws, hub_socket, hub_stop>>

close_stream ==
  /\ engine = "close_stream" /\ engine' = "join_stream"
  /\ socket' = IF ws /\ socket = "open" THEN "closed" ELSE socket
  /\ UNCHANGED <<failed, login, stream, ws, connected, stream_ready, stream_error,
                 user_hub, quoted, faults>>

join_stream ==
  /\ engine = "join_stream"
  /\ engine' = IF failed THEN "failed" ELSE "stopped"
  /\ ws' = FALSE /\ connected' = FALSE
  /\ UNCHANGED <<failed, login, stream, socket, stream_ready, stream_error,
                 user_hub, quoted, faults>>
-----------------------------------------------------------------------------
CallerStep ==
  \/ authenticate \/ get_account \/ start_market_stream \/ wait_for_market_stream
  \/ StartDone \/ stop_user_hub_listener \/ join_user_hub \/ close_stream
  \/ join_stream
StreamThread == _ws_dial \/ _signalr_handshake \/ MarketCallback \/ _ws_listen
HubThread ==
  \/ HubLoop \/ _user_hub_dial \/ _user_hub_subscribe \/ _user_hub_enter
  \/ _user_hub_listen
Next ==
  \/ CallerStep \/ StreamThread \/ HubThread
  \/ stop \/ TokenExpires \/ get_broker_truth_bundle
  \/ _handle_ws_message \/ _handle_user_hub_message

\* A thread that can take a step takes it: a request has its timeout, a
\* callback returns and the worker's loop goes round.  Nothing has to fail and
\* no message has to come.
Unfailing(A) == A /\ faults' = faults
Fairness ==
  /\ WF_vars(Unfailing(CallerStep))
  /\ WF_vars(Unfailing(get_broker_truth_bundle))
  /\ WF_vars(Unfailing(StreamThread))
  /\ WF_vars(Unfailing(HubThread \/ (hub = "callback" /\ _handle_user_hub_message)))
Spec == Init /\ [][Next]_vars
FairSpec == Spec /\ Fairness
-----------------------------------------------------------------------------
(* Properties *)

\* Nothing is streamed, and no order can be sent, for an account that cannot
\* trade or, where practice accounts are required, for another one
\* (_select_account).
PracticeOnly ==
  stream # "none" =>
    /\ account # NoAccount /\ account.can_trade
    /\ RequirePractice => account.practice

\* start returns only after the broker has sent a quote or a trade: the stream
\* is ready for that reason, and not because it failed or the time was over
\* (wait_for_market_stream, _handle_ws_message).
StartedOnQuote == engine \in {"adopt", "running"} => quoted

\* The flag the watchdog's telemetry shows says that the thread listens: it
\* falls with every way the thread can end, and a stop that left the thread
\* dialling does not make it stick (_connected).
ConnectedMeansListening ==
  connected => stream \in {"listen", "callback"} /\ socket # "none"

HubListens == hub \in {"listen", "callback"} /\ hub_socket = "open"

\* While the engine runs, the user hub comes back after every error, after every
\* close and after a token that expired, which its own thread cannot replace
\* (_user_hub_run_loop, get_broker_truth_bundle).
HubReconnects == engine = "running" ~> (HubListens \/ engine # "running")

\* Start and stop come to their end whatever the two threads are doing: no
\* wait is without a timeout (wait_for_market_stream, the joins).
EngineSettles == (engine \notin Settled) ~> (engine \in Settled)

\* Stopped means that no message is received any more.
StoppedListensNoMore ==
  engine \in {"stopped", "failed"} =>
    /\ ~(stream = "listen" /\ socket = "open")
    /\ ~(hub = "listen" /\ hub_socket = "open")
=============================================================================
