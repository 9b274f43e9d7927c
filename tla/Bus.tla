--------------------------------- MODULE Bus ---------------------------------
(***************************************************************************)
(* The topic buses: TypedBus (src/typed_bus.rs) and Photon (src/bus.rs),   *)
(* which is a TypedBus with one message type.  Every call holds the mutex  *)
(* of the topic map from beginning to end and is one step; a call that     *)
(* panics, or try_publisher when it returns None, changes nothing.         *)
(* Publishers, factories and subscribers live on outside the map.          *)
(***************************************************************************)
EXTENDS Broadcast

CONSTANTS
  Topics,    \* topic names
  Types      \* message types

VARIABLES
  entries,     \* topic -> its entry in the map, or NoEntry
  made,        \* rings that make_slot has created, with their type
  publishers,  \* the Publisher handles that were given out and still live
  issued,      \* ring -> how many Publishers of it were ever given out (history)
  factories,   \* the Subscribable handles that were given out
  label        \* reader -> the topic and type it was asked for with

busVars == <<entries, made, publishers, issued, factories, label>>

NoEntry == [ring |-> "none", type |-> "none", publisher |-> FALSE]
Entry   == [ring : Rings \cup {"none"}, type : Types \cup {"none"},
            publisher : BOOLEAN]
NoLabel == [topic |-> "none", type |-> "none"]

BusInit ==
  /\ entries = [t \in Topics |-> NoEntry]
  /\ made = {}
  /\ publishers = {}
  /\ issued = [r \in Rings |-> 0]
  /\ factories = {}
  /\ label = [s \in Readers |-> NoLabel]

----------------------------------------------------------------------------

\* make_slot, make_entry: a ring nobody has, and its publisher.
Unused == {r \in Rings : \A x \in made : x[1] # r}
MakeSlot(ty) == [ring |-> CHOOSE r \in Unused : TRUE, type |-> ty, publisher |-> TRUE]

\* entry_ref(topic).or_insert_with(...).
EntryFor(t, ty) == IF entries[t] = NoEntry THEN MakeSlot(ty) ELSE entries[t]

\* Bound: a topic can be added as long as there are rings.
CanEnter(t) == entries[t] = NoEntry => Unused # {}

\* The entry that a call leaves behind for topic t.
Put(t, e) ==
  /\ entries' = [entries EXCEPT ![t] = e]
  /\ made' = made \cup {<<e.ring, e.type>>}

\* Mutant of Fits: the TypeId is not compared.
FitsAlways(e, ty) == TRUE

\* downcast_mut does not panic.
Fits(e, ty) == e.type = ty

\* Option::take.
Take(e) == [e EXCEPT !.publisher = FALSE]

\* publisher, and try_publisher when it returns one.
TakePublisher(t, ty) ==
  LET e == EntryFor(t, ty)
  IN  /\ CanEnter(t)
      /\ Fits(e, ty)
      /\ e.publisher
      /\ Put(t, Take(e))
      /\ publishers' = publishers \cup {[topic |-> t, type |-> ty, ring |-> e.ring]}
      /\ issued' = [issued EXCEPT ![e.ring] = @ + 1]
      /\ UNCHANGED <<broadcastVars, factories, label>>

\* subscribable.
GetSubscribable(t, ty) ==
  LET e == EntryFor(t, ty)
  IN  /\ CanEnter(t)
      /\ Fits(e, ty)
      /\ Put(t, e)
      /\ factories' = factories \cup {[topic |-> t, type |-> ty, ring |-> e.ring]}
      /\ UNCHANGED <<broadcastVars, publishers, issued, label>>

Label(s, t, ty) == label' = [label EXCEPT ![s] = [topic |-> t, type |-> ty]]

\* subscribe of the bus.
BusSubscribe(s, t, ty) ==
  LET e == EntryFor(t, ty)
  IN  /\ CanEnter(t)
      /\ Fits(e, ty)
      /\ Put(t, e)
      /\ JoinHead(s, e.ring, FALSE)
      /\ Label(s, t, ty)
      /\ UNCHANGED <<publishers, issued, factories>>

\* subscribe of a factory, for which the bus is not needed.
FactorySubscribe(s) ==
  /\ \E f \in factories :
        /\ JoinHead(s, f.ring, FALSE)
        /\ Label(s, f.topic, f.type)
  /\ UNCHANGED <<entries, made, publishers, issued, factories>>

\* Publisher::publish.
BusPublish ==
  /\ \E p \in publishers : Publish(p.ring)
  /\ UNCHANGED busVars

BusShow ==
  /\ \E p \in publishers : Show(p.ring)
  /\ UNCHANGED busVars

\* Mutant of DropPublisher: the topic can be asked for its publisher again.
DropReturns ==
  /\ \E p \in publishers :
        /\ shown[p.ring] = head[p.ring]
        /\ publishers' = publishers \ {p}
        /\ entries' = [entries EXCEPT ![p.topic].publisher = TRUE]
  /\ UNCHANGED <<broadcastVars, made, issued, factories, label>>

\* A publisher is dropped, which no later call can make up for.
DropPublisher ==
  /\ \E p \in publishers :
        /\ shown[p.ring] = head[p.ring]
        /\ publishers' = publishers \ {p}
  /\ UNCHANGED <<broadcastVars, entries, made, issued, factories, label>>

BusNext ==
  \/ \E t \in Topics, ty \in Types :
        \/ TakePublisher(t, ty)
        \/ GetSubscribable(t, ty)
        \/ \E s \in Readers : BusSubscribe(s, t, ty)
  \/ \E s \in Readers : FactorySubscribe(s)
  \/ BusPublish
  \/ BusShow
  \/ DropPublisher

----------------------------------------------------------------------------
(* Properties.                                                             *)

\* A ring never gets a second Publisher, not even after the first was dropped:
\* what was ever given out for it and what a topic's entry still holds are one
\* at most, and nobody holds a Publisher that was not given out
\* (publisher, try_publisher).
OnePublisherPerRing ==
  /\ \A r \in Rings : issued[r] <= 1
  /\ \A t \in Topics : entries[t].publisher => issued[entries[t].ring] = 0
  /\ \A p \in publishers : issued[p.ring] = 1

\* Whoever asked for a topic got the topic's one ring, read and written as the
\* one type it was made with, whichever call came first (or_insert_with,
\* downcast_mut).
TopicIsOneRing ==
  LET Right(t, ty, r) == /\ entries[t].ring = r
                         /\ <<r, ty>> \in made
                         /\ \A x \in made : x[1] = r => x[2] = ty
  IN  /\ \A h \in publishers \cup factories : Right(h.topic, h.type, h.ring)
      /\ \A s \in Readers :
            on[s] # "none" => Right(label[s].topic, label[s].type, on[s])
=============================================================================
