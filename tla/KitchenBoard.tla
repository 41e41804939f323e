--------------------------- MODULE KitchenBoard -----------------------------
(***************************************************************************)
(* The kitchen's screen (apps/admin/src/pages/Kitchen.tsx): the board of   *)
(* orders, which is loaded every five seconds and after what the cook      *)
(* does, the sound for new orders, and the buttons on a card.              *)
(*                                                                         *)
(* No load is ever cancelled, so answers arrive in any order, and a button *)
(* acts on the status that is shown.  The server is the kitchen of Holds,  *)
(* which other screens and the office move on as well; its late write of   *)
(* `submitted` is the matter of Orders and KitchenRequests.                *)
(***************************************************************************)
EXTENDS Naturals, FiniteSets

CONSTANTS
  Order,
  None,
  MaxLoads,  \* bound: loads of the board under way
  MaxTaps    \* bound: requests of buttons under way

BoardAssumption == MaxLoads \in Nat \ {0} /\ MaxTaps \in Nat \ {0}

VARIABLES
  status, held,  \* the server's orders
  aged,          \* orders ready for longer than the settings show them
  config,        \* the server's setting kds_enabled; kds_sound_alert is on
  settings,      \* settingsRef
  shown,         \* what the card of an order says
  known,         \* knownIds
  loads,         \* loads of the board whose answers are on their way
  taps,          \* requests of buttons
  done,          \* answers to those that succeeded
  alerts         \* history: how often the sound was for an order

server == <<status, held, aged, config>>
board == <<settings, shown, known, alerts>>
requests == <<loads, taps, done>>
vars == <<server, board, requests>>

Kitchen == INSTANCE Holds

Statuses == Kitchen!Statuses

Config == {"off", "on"}

\* A card: "held" is in the kitchen with an active hold.
Card == {"absent", "submitted", "in_kitchen", "held", "ready"}

Kind == {"status", "hold", "resume"}

TypeOK ==
  /\ status \in [Order -> Statuses]
  /\ held \in [Order -> BOOLEAN]
  /\ aged \subseteq Order
  /\ config \in Config
  /\ settings \in Config \cup {None}
  /\ shown \in [Order -> Card]
  /\ known \subseteq Order
  /\ loads \subseteq [why : {"poll", "open", "tap"}, view : [Order -> Card]]
  /\ taps \subseteq [kind : Kind, order : Order, seen : Card]
  /\ done \in 0..MaxTaps
  /\ alerts \in [Order -> 0..2]

Init ==
  /\ status \in [Order -> {"draft", "submitted"}]
  /\ held = [o \in Order |-> FALSE]
  /\ aged = {}
  /\ config \in Config
  /\ settings = None
  /\ shown = [o \in Order |-> "absent"]
  /\ known = {}
  /\ loads = {}
  /\ taps = {}
  /\ done = 0
  /\ alerts = [o \in Order |-> 0]

-----------------------------------------------------------------------------
(* The server.                                                             *)

\* GET /kitchen/orders.
View ==
  [o \in Order |->
     IF status[o] = "in_kitchen" /\ held[o] THEN "held"
     ELSE IF status[o] \in {"submitted", "in_kitchen", "ready"} THEN status[o]
     ELSE "absent"]

\* A till submits an order, the office or another screen of the kitchen moves it.
Elsewhere(o) ==
  /\ \/ \E to \in Statuses : Kitchen!Advance(o, to)
     \/ Kitchen!Hold(o)
     \/ Kitchen!Resume(o)
  /\ UNCHANGED <<aged, config, board, requests>>

\* kds_hide_ready_after_minutes have passed since the order was ready.
Age(o) ==
  /\ status[o] = "ready"
  /\ aged' = aged \cup {o}
  /\ UNCHANGED <<status, held, config, board, requests>>

Configure(c) ==
  /\ config' = c
  /\ UNCHANGED <<status, held, aged, board, requests>>

-----------------------------------------------------------------------------
(* Loads.                                                                  *)

Off(s) == s \in {None, "off"}

NoCards == [o \in Order |-> "absent"]

\* loadOrders up to its await, with settings s: nothing is asked for while they
\* are not there or say that the board is off.
StartLoad(why, s) ==
  IF Off(s)
    THEN /\ shown' = NoCards
         /\ UNCHANGED loads
    ELSE /\ Cardinality(loads) < MaxLoads
         /\ loads' = loads \cup {[why |-> why, view |-> View]}
         /\ UNCHANGED shown

\* Every five seconds.
Poll ==
  /\ StartLoad("poll", settings)
  /\ UNCHANGED <<server, settings, known, alerts, taps, done>>

\* What the answer shows: not the orders that have been ready for too long.
Visible(view) ==
  {o \in Order : view[o] # "absent" /\ ~(view[o] = "ready" /\ o \in aged)}

\* Bug: only what is on the board counts as known.
KnownIsShown(visible) == visible

\* knownIds only grows.
KnownAfter(visible) == known \cup visible

\* Bug: an order stays on the board once it was there.
ShownAndBefore(view) ==
  [o \in Order |-> IF o \in Visible(view) THEN view[o] ELSE shown[o]]

\* setOrders replaces the whole board.
ShownAfter(view) ==
  [o \in Order |-> IF o \in Visible(view) THEN view[o] ELSE "absent"]

\* The answer to a load, whichever it is: the sound is for orders not seen before,
\* unless the load followed the opening of the board or one of its buttons.
LoadAnswer(l) ==
  LET fresh == Visible(l.view) \ known
  IN /\ loads' = loads \ {l}
     /\ shown' = ShownAfter(l.view)
     /\ known' = KnownAfter(Visible(l.view))
     /\ alerts' = [o \in Order |->
                     IF l.why = "poll" /\ o \in fresh /\ alerts[o] < 2
                       THEN alerts[o] + 1 ELSE alerts[o]]
     /\ UNCHANGED <<server, settings, taps, done>>

LoadFails ==
  /\ \E l \in loads : loads' = loads \ {l}
  /\ UNCHANGED <<server, board, taps, done>>

\* The answer to refreshSettings, on opening and every thirty seconds.  A board that
\* was off loads its orders at once, without a sound.  Bound: one such answer at a
\* time, so that it might as well be what the settings are now.
SettingsAnswer ==
  /\ settings' = config
  /\ IF Off(config) \/ Off(settings)
       THEN StartLoad("open", config)
       ELSE UNCHANGED <<shown, loads>>
  /\ UNCHANGED <<server, known, alerts, taps, done>>

-----------------------------------------------------------------------------
(* Buttons.                                                                *)

\* Bug: the first button takes an order straight to ready.
NEXT_SKIPPING == [submitted |-> "ready", in_kitchen |-> "ready", ready |-> "completed"]

NEXT == [submitted |-> "in_kitchen", in_kitchen |-> "ready", ready |-> "completed"]

\* The next status, but for a held card; hold and resume of what is in the
\* kitchen.  The dialog of a hold only delays the request.
Buttons(card) ==
  (IF card \in DOMAIN NEXT THEN {"status"} ELSE {})
    \cup (IF card = "in_kitchen" THEN {"hold"} ELSE {})
    \cup (IF card = "held" THEN {"resume"} ELSE {})

Tap(o, kind) ==
  /\ kind \in Buttons(shown[o])
  /\ Cardinality(taps) + done < MaxTaps
  /\ taps' = taps \cup {[kind |-> kind, order |-> o, seen |-> shown[o]]}
  /\ UNCHANGED <<server, board, loads, done>>

\* The server does what the request says if the order as it is now allows it, or
\* refuses; or the request is lost.
Serve(t) ==
  /\ taps' = taps \ {t}
  /\ \/ /\ \/ t.kind = "status" /\ Kitchen!Advance(t.order, NEXT[t.seen])
           \/ t.kind = "hold" /\ Kitchen!Hold(t.order)
           \/ t.kind = "resume" /\ Kitchen!Resume(t.order)
        /\ done' = done + 1
     \/ UNCHANGED <<status, held, done>>
  /\ UNCHANGED <<aged, config, board, loads>>

\* The answer loads the board again; a lost one shows an error.
TapAnswer(lost) ==
  /\ done > 0
  /\ done' = done - 1
  /\ IF lost THEN UNCHANGED <<shown, loads>> ELSE StartLoad("tap", settings)
  /\ UNCHANGED <<server, settings, known, alerts, taps>>

-----------------------------------------------------------------------------

Next ==
  \/ \E o \in Order : Elsewhere(o) \/ Age(o)
  \/ \E c \in Config : Configure(c)
  \/ Poll \/ \E l \in loads : LoadAnswer(l)
  \/ SettingsAnswer \/ LoadFails
  \/ \E o \in Order, kind \in Kind : Tap(o, kind)
  \/ \E t \in taps : Serve(t)
  \/ \E lost \in BOOLEAN : TapAnswer(lost)

\* Timers run, and not every load fails for ever.
Fairness ==
  /\ WF_vars(Poll)
  /\ WF_vars(SettingsAnswer)
  /\ SF_vars(\E l \in loads : LoadAnswer(l))

Spec == Init /\ [][Next]_vars /\ Fairness

-----------------------------------------------------------------------------

\* The sound is never made twice for an order, although late answers take orders
\* off the board and put them back, and the board is switched off and on.
SoundsOnce == \A o \in Order : alerts[o] < 2

\* A button moves an order on only from the stage that its card showed, however old
\* the card is and whoever else moved the order meanwhile: two cooks who both tap
\* the same card take it one stage further and not two.
MovesAsShown ==
  [][\A t \in taps \ taps' :
       t.kind = "status" /\ status'[t.order] # status[t.order] => status[t.order] = t.seen]_vars

\* Once the orders stay as they are, the board comes to show them as they are, also
\* if the last answers arrive out of order: FR-060, an order appears on the screen
\* without anyone refreshing it.
BoardSettles ==
  <>[][UNCHANGED server]_vars =>
    <>[](shown = IF config = "off" THEN NoCards
                 ELSE [o \in Order |-> IF o \in Visible(View) THEN View[o] ELSE "absent"])

\* The settings page calls kds_sound_alert the sound alert for a new order
\* (SettingsLayout.tsx:174): an order that comes onto an open board is announced.
NewOrderSounds ==
  [][\A o \in known' \ known :
       \A l \in loads \ loads' : l.why # "open" => alerts'[o] = 1]_vars
=============================================================================
