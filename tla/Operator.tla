------------------------------ MODULE Operator ------------------------------
(***************************************************************************)
(* What the operator can do to a running program, and what the program      *)
(* tells of it: CommandRouter, ScannerSwitch and TradingSwitch, the system   *)
(* update, and the message that scanning has stopped.  How updates reach     *)
(* the router is in Application.  Messages stay in the chat, and a button    *)
(* of any of them can be pressed at any time, in a later life of the         *)
(* program, too.                                                            *)
(***************************************************************************)
EXTENDS Naturals

VARIABLES
  phase,         \* "up", "down", or "crashed"
  allowed,       \* trading.execution_enabled
  switch,        \* ScannerSwitch
  trading,       \* TradingSwitch._started
  updating,      \* the command task awaits SystemUpdater.apply
  chat,          \* buttons in the chat: [kind, name]
  observed,      \* Application._scanner_running
  stopReported,  \* SystemNotifier._stop_reported
  notices,       \* history: messages of a stop since scanning was seen to run
  meant,         \* history: what was confirmed in this life of the program
  installed      \* history: updates were installed in it

control == <<switch, trading, updating>>
telling == <<observed, stopReported, notices>>
vars == <<phase, allowed, control, chat, telling, meant, installed>>

(* The commands that only read: status, providers, scans, statistics, ...    *)
Reports == {"report"}
Commands ==
  Reports \cup {"menu", "start", "stop", "restart", "trade_on", "trade_off", "update"}

(* DESTRUCTIVE_COMMANDS; before it, a defect: one is forgotten. *)
WithoutTrading == {"stop", "restart", "update"}
Destructive == {"stop", "restart", "update", "trade_on"}

Button(kind, c) == [kind |-> kind, name |-> c]

(* _menu_buttons: trading and the update are not on the menu.               *)
Menu == {Button("do", c) : c \in {"start", "stop", "restart"} \cup Reports}

(* _confirmation_request *)
Question(c) == {Button("confirm", c), Button("do", "menu")}

(* Scanning is allowed. *)
Running == ~switch.paused /\ ~switch.restart

(***************************************************************************)
(* _dispatch                                                                *)
(***************************************************************************)
Switched(c) ==
  CASE c = "start" -> [switch EXCEPT !.paused = FALSE]
    [] c = "stop" -> [switch EXCEPT !.paused = TRUE]
    [] c = "restart" -> [switch EXCEPT !.restart = TRUE]
    [] OTHER -> switch

Traded(c) ==
  CASE c = "trade_on" -> allowed
    [] c = "trade_off" -> FALSE
    [] OTHER -> trading

Dispatch(c) ==
  /\ switch' = Switched(c)
  /\ trading' = Traded(c)
  /\ updating' = (c = "update")
  /\ chat' = IF c = "update" THEN chat ELSE chat \cup Menu
  /\ UNCHANGED <<phase, allowed, telling, installed>>

Ask(c) ==
  /\ chat' = chat \cup Question(c)
  /\ UNCHANGED <<phase, allowed, control, telling, meant, installed>>

(* The command task handles one message at a time. *)
Listening == phase = "up" /\ ~updating

(* handle_text *)
Text(c) ==
  /\ Listening
  /\ IF c \in Destructive THEN Ask(c) ELSE Dispatch(c) /\ UNCHANGED meant

(* handle_callback.  An answer to the update's own button asks as well.      *)
Press(b) ==
  /\ Listening /\ b \in chat
  /\ IF b.name \in Destructive /\ b.kind # "confirm"
     THEN Ask(b.name)
     ELSE /\ Dispatch(b.name)
          /\ meant' = IF b.kind = "confirm" THEN meant \cup {b.name} ELSE meant

(* _system_update_response: a restart follows an installation only.          *)
RestartAfter(ok) == ok

UpdateEnds ==
  /\ updating
  /\ updating' = FALSE
  /\ \E ok \in BOOLEAN :
       /\ switch' = IF RestartAfter(ok) THEN [switch EXCEPT !.restart = TRUE] ELSE switch
       /\ installed' = (installed \/ ok)
       /\ chat' = IF ok THEN chat ELSE chat \cup Menu
  /\ UNCHANGED <<phase, allowed, trading, telling, meant>>

(* UpdateWatcher.check: the message of pending updates has a button.         *)
PendingUpdates ==
  /\ phase = "up"
  /\ chat' = chat \cup {Button("do", "update")}
  /\ UNCHANGED <<phase, allowed, control, telling, meant, installed>>

(***************************************************************************)
(* SystemNotifier.notify_scanner_stopped: one message for an episode,        *)
(* whichever path it comes by.                                               *)
(***************************************************************************)
Notice ==
  /\ stopReported' = TRUE
  /\ notices' = IF stopReported THEN notices ELSE notices + 1

(* _observe_scanner_state, once a second. *)
Observe ==
  /\ phase = "up" /\ observed # Running
  /\ observed' = Running
  /\ IF Running THEN stopReported' = FALSE /\ notices' = 0 ELSE Notice
  /\ UNCHANGED <<phase, allowed, control, chat, meant, installed>>

(* Application.shutdown, after a restart that was asked for or a signal.     *)
Shutdown ==
  /\ phase = "up"
  /\ phase' = "down"
  /\ Notice
  /\ updating' = FALSE
  /\ UNCHANGED <<allowed, switch, trading, chat, observed, meant, installed>>

(* The process ends without any of that. *)
Crash ==
  /\ phase = "up"
  /\ phase' = "crashed"
  /\ updating' = FALSE
  /\ UNCHANGED <<allowed, switch, trading, chat, telling, meant, installed>>

(* A new process: scanning is allowed, trading is not started.               *)
Start ==
  /\ phase # "up"
  /\ phase' = "up"
  /\ switch' = [paused |-> FALSE, restart |-> FALSE] /\ trading' = FALSE /\ updating' = FALSE
  /\ observed' = TRUE /\ stopReported' = FALSE /\ notices' = 0
  /\ meant' = {} /\ installed' = FALSE
  /\ UNCHANGED <<allowed, chat>>

Init ==
  /\ phase = "crashed" /\ allowed \in BOOLEAN
  /\ switch = [paused |-> FALSE, restart |-> FALSE] /\ trading = FALSE /\ updating = FALSE
  /\ chat = {}
  /\ observed = TRUE /\ stopReported = FALSE /\ notices = 0
  /\ meant = {} /\ installed = FALSE

Next ==
  \/ \E c \in Commands : Text(c)
  \/ \E b \in chat : Press(b)
  \/ UpdateEnds \/ PendingUpdates \/ Observe
  \/ Shutdown \/ Crash \/ Start

Spec == Init /\ [][Next]_vars

(***************************************************************************)
(* Properties                                                               *)
(***************************************************************************)
(* Nothing that interrupts the work or spends money happens unless the       *)
(* operator pressed the button of a question about just that, in this life   *)
(* of the program; trading needs the configuration's consent as well, and an *)
(* update that failed restarts nothing (DESTRUCTIVE_COMMANDS, handle_text,   *)
(* handle_callback, _system_update_response, TradingSwitch).                 *)
OnlyConfirmed ==
  /\ switch.paused => "stop" \in meant
  /\ switch.restart => "restart" \in meant \/ installed
  /\ updating \/ installed => "update" \in meant
  /\ trading => "trade_on" \in meant /\ allowed

(* A stop of scanning is told once, by whichever of the paths that cross it  *)
(* ends: a command, a restart, a signal, a failure (notify_scanner_stopped,  *)
(* _observe_scanner_state, Application.shutdown).                            *)
StopToldOnce == notices <= 1 /\ (phase = "down" => notices = 1)

(* Both: what stops the program was meant, and it is told.                   *)
StopsAreMeantAndTold == OnlyConfirmed /\ StopToldOnce
=============================================================================
