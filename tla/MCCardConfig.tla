---------------------------- MODULE MCCardConfig ----------------------------
(***************************************************************************)
(* The databases of the runs: two cards with digital devices and inputs on *)
(* either card or on one that is not there, two analog devices of every    *)
(* layout, channels that are beyond the layout or beyond the buffer, and   *)
(* databases with every single thing missing, unknown or dangling.         *)
(***************************************************************************)
EXTENDS CardConfig

MCCards == {1, 2}
MCDigital == {1, 2}
MCAnalog == {3, 4}
MCInputs == {5, 6}
NoCard == 3

MCArea == [channel |-> 2, class |-> 8, integrator |-> 4]
MCRoom == [channel |-> 3, class |-> 10, integrator |-> 5]

(* Two digital devices, a card that is full and one that is free. *)
Plain ==
  [number |-> <<1, 2>>, channelCount |-> <<2, 2>>,
   card |-> <<1, 2, None, None>>, evaluation |-> <<"fast", "slow", "fast", "slow">>,
   integrators |-> [d \in MCAnalog |-> 1],
   device |-> [i \in MCInputs |-> i - 4],
   channel |-> [x \in MCInputs \cup MCAnalog |-> [card |-> 1, number |-> 0]],
   nodes |-> Tables \cup {"LinkNode"}, odd |-> {}, dangling |-> {}]

Channels == [card : MCCards \cup {NoCard}, number : {0, 1}]

DigitalDatabases ==
  {[Plain EXCEPT !.number = <<n, m>>, !.card[2] = c, !.evaluation[1] = e,
                 !.evaluation[2] = f, !.device[6] = d, !.channel[5] = x,
                 !.channel[6] = y]
   : n \in {1, 2, NoCard}, m \in {1, 2}, c \in MCCards \cup {None}, e \in {"fast", "slow"},
     f \in {"fast", "none"}, d \in MCDigital, x \in Channels, y \in Channels}

AnalogDatabases ==
  {[Plain EXCEPT !.card = <<None, None, 1, c>>, !.channelCount[1] = n,
                 !.evaluation[4] = e, !.integrators[3] = i, !.integrators[4] = j,
                 !.channel[3].number = x, !.channel[4].number = y]
   : c \in MCCards, n \in {0, 1, 2}, e \in {"fast", "slow"}, i \in {1, 2}, j \in {1, 2},
     x \in {0, 1}, y \in {0, 1, 2, 3}}

FaultyDatabases ==
  LET good == {Plain, [Plain EXCEPT !.card = <<2, None, 1, 1>>, !.channel[4].number = 1]}
  IN  {[g EXCEPT !.dangling = {r}] : g \in good, r \in References}
      \cup {[g EXCEPT !.odd = {o}, !.card[2] = None, !.nodes = @ \cup {o.node}] : g \in good, o \in Oddities}
      \cup {[g EXCEPT !.nodes = @ \ {t}] : g \in good, t \in Tables}
      \cup {[g EXCEPT !.nodes = @ \cup {n}] : g \in good, n \in Known \cup {"Unknown"}}
      \cup {[g EXCEPT !.card[1] = c] : g \in good, c \in MCCards}

(* One channel beyond the others, on the card of its device or elsewhere. *)
RemoteDatabases ==
  {[Plain EXCEPT !.evaluation[1] = e, !.channel[5] = [card |-> c, number |-> n]]
   : e \in {"fast", "slow"}, c \in MCCards \cup {NoCard}, n \in {2, 3}}

MCDatabases == RemoteDatabases \cup DigitalDatabases \cup AnalogDatabases \cup FaultyDatabases
=============================================================================
