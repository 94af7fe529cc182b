--------------------------------- MODULE Tray ---------------------------------
(***************************************************************************)
(* The two things the tray menu says about the world: whether indexing is  *)
(* paused (tray.rs, over the connection of pipe_client.rs to a switch the  *)
(* service keeps for the whole machine, session.rs) and whether the shell  *)
(* starts with Windows (autostart.rs, which the Settings page and Windows  *)
(* itself also change). The menu's handlers run on the main thread, beside *)
(* the connection thread, the writer and the service.                      *)
(***************************************************************************)
EXTENDS Naturals, Sequences

CONSTANTS MaxConnections, MaxAsked   \* bounds: connections, requests on their way

ASSUME TrayAssumption == MaxConnections \in Nat /\ MaxAsked \in Nat

VARIABLES
  label,        \* PauseState: what the item says, TRUE for paused
  click,        \* PipeClient::send: "none", "checked" that it is connected, "cut" off since
  link, epoch,  \* the connection: "down", "numbered" or "up", and its number
  peer,         \* the service is still at its other end
  sent,         \* the writer's queue: [epoch, pause], kept across connections
  wire,         \* written and not yet read; of an ended connection some may still be read
  service,      \* state.paused of the service
  astray,       \* history: something else than the last click has settled what service is
  tick, run,    \* the autostart item's check mark, and whether the Run value is there
  touched       \* history: the Run value was changed elsewhere since the last click

pausing   == <<label, click, astray>>
channel   == <<link, epoch, peer, sent, wire>>
autostart == <<tick, run, touched>>
trayVars  == <<pausing, channel, service, autostart>>

TrayInit ==
  /\ label = FALSE /\ click = "none"
  /\ link = "down" /\ epoch = 0 /\ peer = FALSE /\ sent = <<>> /\ wire = <<>>
  /\ service \in BOOLEAN /\ astray = service
  /\ run \in BOOLEAN /\ tick = run /\ touched = FALSE

\* Requests of the connection there is, or was last.
Ours(queue) == {i \in DOMAIN queue : queue[i].epoch = epoch}
OnTheWay == Ours(sent) # {} \/ Ours(wire) # {}

-----------------------------------------------------------------------------
(* The pause item.                                                         *)

\* on_menu, ID_PAUSE: without a connection the request is refused and nothing changes.
AskPauseEarly ==   \* mutant: the label follows the click, sent or not
  /\ click = "none" /\ IF link = "up" THEN click' = "checked" /\ UNCHANGED label
                       ELSE label' = ~label /\ UNCHANGED click
  /\ UNCHANGED <<astray, channel, service, autostart>>
AskPause ==
  /\ click = "none" /\ link = "up" /\ click' = "checked"
  /\ UNCHANGED <<label, astray, channel, service, autostart>>

\* Queued under the connection of the moment, and the label follows.
SendPause ==
  /\ click # "none" /\ Len(sent) + Len(wire) < MaxAsked
  /\ sent' = Append(sent, [epoch |-> epoch, pause |-> ~label])
  /\ label' = ~label /\ click' = "none" /\ astray' = (click = "cut")
  /\ UNCHANGED <<link, epoch, peer, wire, service, autostart>>

\* write_loop: what was asked of another connection, or of none, is dropped.
ToUs == link = "up" /\ sent # <<>> /\ Head(sent).epoch = epoch
WriterTakes ==
  /\ sent # <<>> /\ sent' = Tail(sent) /\ (ToUs => peer)
  /\ wire' = IF ToUs THEN Append(wire, Head(sent)) ELSE wire
  /\ UNCHANGED <<pausing, link, epoch, peer, service, autostart>>

\* The end of a connection, which whatever is on its way may not survive.
Ends ==
  /\ link = "up" /\ link' = "down" /\ UNCHANGED <<epoch, peer, label>>
  /\ click' = IF click = "none" THEN "none" ELSE "cut"
Drops ==
  /\ Ends /\ astray' = (astray \/ OnTheWay)
  /\ UNCHANGED <<sent, wire, service, autostart>>
\* A write that fails ends it from the other side.
WriteFails ==
  /\ ToUs /\ Ends /\ sent' = Tail(sent) /\ astray' = TRUE
  /\ UNCHANGED <<wire, service, autostart>>

\* run_loop: a number first, then the write half and the flag.
Numbers ==
  /\ link = "down" /\ epoch < MaxConnections /\ epoch' = epoch + 1
  /\ link' = "numbered" /\ peer' = TRUE
  /\ UNCHANGED <<pausing, sent, wire, service, autostart>>
Connects ==
  /\ link = "numbered" /\ link' = "up"
  /\ UNCHANGED <<pausing, epoch, peer, sent, wire, service, autostart>>

-----------------------------------------------------------------------------
(* The service.                                                            *)

\* A session reads in order; that of an ended connection may do so late.
ServiceReads ==
  \E i \in DOMAIN wire :
    /\ \A j \in 1..(i - 1) : wire[j].epoch # wire[i].epoch
    /\ wire' = SubSeq(wire, 1, i - 1) \o SubSeq(wire, i + 1, Len(wire))
    /\ service' = wire[i].pause
    /\ astray' = (astray \/ wire[i].epoch # epoch)
    /\ UNCHANGED <<label, click, link, epoch, peer, sent, autostart>>

\* Another user's shell, or a restart, which forgets the pause and ends every session.
OthersAsk ==
  /\ service' = ~service /\ astray' = TRUE
  /\ UNCHANGED <<label, click, channel, autostart>>
ServiceRestarts ==
  /\ service' = FALSE /\ wire' = <<>> /\ peer' = FALSE
  /\ astray' = (astray \/ service \/ wire # <<>>)
  /\ UNCHANGED <<label, click, link, epoch, sent, autostart>>

-----------------------------------------------------------------------------
(* The autostart item.                                                     *)

\* on_menu, ID_AUTOSTART: the opposite of what is, unless the registry refuses, and
\* the tick of what became of it.
ToggleAutostart ==
  /\ run' \in {run, ~run} /\ tick' = run' /\ touched' = FALSE
  /\ UNCHANGED <<pausing, channel, service>>
\* set_autostart of the Settings page, or Windows' own list.
SetAutostart ==
  /\ run' \in BOOLEAN /\ touched' = TRUE
  /\ UNCHANGED <<tick, pausing, channel, service>>

TrayNext ==
  \/ AskPause \/ SendPause \/ WriterTakes \/ Drops \/ WriteFails \/ Numbers \/ Connects
  \/ ServiceReads \/ OthersAsk \/ ServiceRestarts
  \/ ToggleAutostart \/ SetAutostart

TraySpec == TrayInit /\ [][TrayNext]_trayVars

-----------------------------------------------------------------------------
\* "The label must not claim it happened": once what was asked has arrived, the label
\* says what the service holds, whatever was clicked while it was away and whatever of
\* an earlier connection is still queued. What can make it stale is another shell, a
\* connection that ends with a request on its way, one of those served late, and a
\* restart of the service; the next click that goes through mends it ("self-corrects
\* on the next toggle"). The tick is the Run value, also after a failure, until
\* something else changes it.
TrayIsHonest ==
  /\ ~astray /\ ~(link = "up" /\ OnTheWay) => label = service
  /\ ~touched => tick = run
=============================================================================
