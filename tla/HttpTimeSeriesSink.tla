------------------------- MODULE HttpTimeSeriesSink -------------------------
(***************************************************************************)
(* The HTTP sink block: the window, the block's settings and lifecycle     *)
(* (called by the scheduler, one call at a time), and                      *)
(* SnapshotHttpService with its listening thread, whose request handlers   *)
(* read the window at any time.                                            *)
(***************************************************************************)
EXTENDS TimeSeriesWindow

CONSTANTS
  Addresses,      \* host, port and path as one; NoAddress is not among them
  NoAddress,
  Channels,       \* values of the setting "channels"
  WindowSizes,    \* values of the setting "window_size"
  MaxHandlers     \* bound: requests handled at a time

ASSUME SinkAssumption ==
  /\ NoAddress \notin Addresses
  /\ Channels \subseteq Nat /\ WindowSizes \subseteq Nat
  /\ MaxHandlers \in Nat

VARIABLES
  settings,   \* address, channels and window_size of the block
  call,       \* what the block's thread is doing
  stopped,    \* the block is not running
  server,     \* address the listening server is bound to, or NoAddress
  accepting,  \* the server takes new requests
  handlers    \* requests inside the provider

serviceVars == <<server, accepting, handlers>>
vars == <<windowVars, settings, call, stopped, serviceVars>>

Settings == [address : Addresses,
             channels : Channels \cup {DefaultChannels}, window_size : WindowSizes \cup {DefaultWindow}]

Init ==
  /\ \E a \in Addresses :
       settings = [address |-> a, channels |-> DefaultChannels, window_size |-> DefaultWindow]
  /\ WindowInit
  /\ call = "none" /\ stopped = TRUE
  /\ server = NoAddress /\ accepting = FALSE /\ handlers = 0

\* Mutant: the server goes on taking requests.
StopListening_StillAccepting(next) == call' = next /\ UNCHANGED serviceVars

\* SnapshotHttpService::stop(): no new requests, then wait for the thread.
StopListening(next) ==
  /\ accepting' = FALSE
  /\ call' = next
  /\ UNCHANGED <<server, handlers>>

\* Mutant: the thread is not joined.
joined_NotAwaited == TRUE

joined == handlers = 0

start ==
  /\ call = "none" /\ stopped
  /\ configure(settings.channels, settings.window_size)
  /\ StopListening("start")
  /\ UNCHANGED <<settings, stopped>>

\* stop(), or the destructor, which stops the service too.
stop ==
  /\ call = "none"
  /\ StopListening("stop")
  /\ UNCHANGED <<windowVars, settings, stopped>>

FinishStop ==
  /\ call = "stop" /\ joined
  /\ server' = NoAddress
  /\ call' = "none" /\ stopped' = TRUE
  /\ UNCHANGED <<windowVars, settings, accepting, handlers>>

\* The settings named in new_settings are applied before the callback; a
\* setting may be named without a change.  A block that was not started has its
\* settings changed too, with those it is made with for a start.
settingsChanged ==
  /\ call = "none"
  /\ \E s \in Settings, windowNamed, addressNamed \in BOOLEAN :
       /\ ~ windowNamed => s.channels = settings.channels /\ s.window_size = settings.window_size
       /\ ~ addressNamed => s.address = settings.address
       /\ settings' = s
       /\ IF windowNamed THEN configure(s.channels, s.window_size) ELSE UNCHANGED windowVars
       /\ IF addressNamed THEN StopListening("rebind") ELSE UNCHANGED <<serviceVars, call>>
  /\ UNCHANGED stopped

\* The rest of SnapshotHttpService::start(), after its stop(): bind, and listen
\* on a new thread.
Bind ==
  /\ call \in {"start", "rebind"} /\ joined
  /\ server' = settings.address
  /\ accepting' = TRUE
  /\ call' = "none" /\ stopped' = (call = "rebind" /\ stopped)
  /\ UNCHANGED <<windowVars, settings, handlers>>

\* Mutant: the old server stays when the new address cannot be bound.
BindFails_KeepServer ==
  /\ call \in {"start", "rebind"} /\ joined
  /\ call' = "none"
  /\ UNCHANGED <<windowVars, settings, stopped, serviceVars>>

\* bind_to_port fails: the server is dropped and the caller throws.
BindFails ==
  /\ call \in {"start", "rebind"} /\ joined
  /\ server' = NoAddress
  /\ call' = "none"
  /\ UNCHANGED <<windowVars, settings, stopped, accepting, handlers>>

work ==
  /\ call = "none" /\ ~ stopped
  /\ processBulk
  /\ UNCHANGED <<settings, call, stopped, serviceVars>>

\* A GET of the snapshot path reaches the provider, and returns from it.
Get ==
  /\ accepting /\ handlers < MaxHandlers
  /\ handlers' = handlers + 1
  /\ UNCHANGED <<windowVars, settings, call, stopped, server, accepting>>

Respond ==
  /\ handlers > 0
  /\ handlers' = handlers - 1
  /\ UNCHANGED <<windowVars, settings, call, stopped, server, accepting>>

Service == FinishStop \/ Bind \/ BindFails

Next == start \/ stop \/ settingsChanged \/ work \/ Service \/ Get \/ Respond

Spec == Init /\ [][Next]_vars

\* Handlers return, as nothing they wait for is held by who waits for them; the
\* block's thread goes on after a join.
FairSpec == Spec /\ WF_vars(Service) /\ WF_vars(Respond)

-----------------------------------------------------------------------------
\* The handlers hold a reference to the block: none is running once the block
\* was stopped, or when a failed bind has left it without a server.
NoHandlerWithoutServer == handlers > 0 => server # NoAddress

\* A server that takes requests is the one the settings ask for, and the window
\* it shows is shaped by them, whatever sequence of changes and failed binds.
ServesItsSettings ==
  /\ accepting => server = settings.address
  /\ server # NoAddress /\ call = "none" => accepting
  /\ accepting => channels = AtLeastOne(settings.channels) /\ windowSize = AtLeastOne(settings.window_size)

\* Stopping and rebinding come to an end although requests are being handled.
CallsReturn == call # "none" ~> call = "none"
=============================================================================
