--------------------------- MODULE FanAttributes ---------------------------
(***************************************************************************)
(* What the driver's fan attributes promise: each behaves like a register  *)
(* of its own.  A store changes the one cell of the table it names, or the *)
(* one switch; the table it makes is the table that runs now, with that    *)
(* cell replaced, and it comes to run at once or when the EC takes it up.  *)
(* Three things are excused: attributes the driver gives one address,      *)
(* auto_points_size, which sets the last temperatures of a shorter curve,  *)
(* and a store made from a copy of the table that is out of date.          *)
(***************************************************************************)
EXTENDS Integers

CONSTANTS Points, MaxTemps

VARIABLES
  running,         \* the table that runs, by cell
  asked,           \* the table that is to run
  switches,        \* what each switch shows
  shared,          \* attributes of the model that share an address
  stocks,          \* tables its firmware may load
  locked,          \* the fan controller is locked against stores
  stale            \* the driver's copy of the table is out of date

attrVars == <<running, asked, switches>>

Touches(x) == IF x \in shared THEN shared ELSE {x}
Changed(f, g) == {x \in DOMAIN f : f[x] # g[x]}

\* Each cell of the table runs as before, or as asked from now on.
ByCells == \A c \in Changed(running, running') : running'[c] = asked'[c]

AttrInit ==
  /\ \E t \in stocks : \A c \in DOMAIN running : running[c] = t[c]
  /\ asked = running

\* A store of one cell, perhaps with the effect it has on a switch it shares.
SetCell ==
  /\ ~locked
  /\ ByCells
  /\ \E changes \in {Changed(running, asked') \cup Changed(switches, switches')} :
       changes = {} \/ \E c \in changes : c \in DOMAIN running /\ changes \subseteq Touches(c)

\* A store of auto_points_size: what was point k becomes the last.
Shorten ==
  /\ ~locked
  /\ switches' = switches
  /\ ByCells
  /\ \E k \in Points : \A c \in DOMAIN running :
       asked'[c] = IF c[2] = k /\ c[1] \in MaxTemps THEN 127 ELSE running[c]

SetSwitch ==
  \E changes \in {Changed(switches, switches') \cup Changed(running, running') \cup Changed(asked, asked')} :
    \E s \in DOMAIN switches : changes \subseteq Touches(s)

\* The EC takes up the table it was given, or refuses it.
TakeUp == running' = asked /\ asked' = asked /\ switches' = switches
Refuse == running' = running /\ asked' = running /\ switches' = switches

\* The firmware loads a table of its own.
Load ==
  /\ \E t \in stocks : \A c \in DOMAIN running : running'[c] = t[c]
  /\ \A c \in DOMAIN running : asked'[c] \in {asked[c], running'[c]}
  /\ Changed(switches, switches') \subseteq shared

\* A store made from an old copy of the table.
StaleStore == stale /\ running' = asked' /\ switches' = switches

AttrNext == SetCell \/ SetSwitch \/ Shorten \/ Load \/ TakeUp \/ Refuse \/ StaleStore

AttrSpec == AttrInit /\ [][AttrNext]_attrVars
=============================================================================
