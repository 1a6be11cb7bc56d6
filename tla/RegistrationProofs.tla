--------------------------- MODULE RegistrationProofs ---------------------------
(***************************************************************************)
(* The safety properties of Registration for any classes, assemblies and      *)
(* sequences of calls.                                                       *)
(*                                                                          *)
(* What is registered depends on what the running call has still to           *)
(* register, so the invariant speaks of both: every sequence of registrations  *)
(* is Sound, and the rest of a sound one stays so.                           *)
(***************************************************************************)
EXTENDS Registration, SequenceFacts

OnceServices == Of(SingleHandled) \cup FirstServices

\* A registration agrees with its class, checks what must be checked, and a class
\* itself and a notification are always added.
Item(r) ==
  /\ Serves(r.class, r.service)
  /\ r.service \in OnceServices => r.how # "add"
  /\ r.service \in Of(Handled) => r.how # "try"
  /\ r.how = "unique" => r.class \in Types
  /\ r.service = Self(r.class) => r.how = "add"

Proper(t, rs) ==
  /\ rs \in Seq(Registrations)
  /\ \A i \in 1..Len(rs) : rs[i].class = t /\ Item(rs[i])

\* With a handler comes its class.
Complete(t, rs) ==
  \A i \in 1..Len(rs) : rs[i].service \in Of(Handled) =>
    \E k \in 1..Len(rs) : rs[k].service = Self(t)

Marker == Service("INotificationHandler", NoArgument)
Notifications(t) == Implements[t]["INotificationHandler<>"]
Notification(t, k) ==
  Registration("add", Service("INotificationHandler<>", Notifications(t)[k]), t)

\* Behind the marker of a notification handler come all its notifications, and
\* nothing that may throw in between.
Follows(rs, i, r) ==
  \E j \in i + 1..Len(rs) : rs[j] = r /\ \A m \in i..j : rs[m].how # "unique"

Ordered(t, rs) ==
  \A i \in 1..Len(rs) : rs[i].service = Marker =>
    \A k \in DOMAIN Notifications(t) : Follows(rs, i, Notification(t, k))

\* Before what is enumerated comes its class.
Early(t, rs) ==
  \A i \in 1..Len(rs) : rs[i].service \in Enumerated =>
    \E k \in 1..i - 1 : rs[k].service = Self(t)

Sound(t, rs) == Proper(t, rs) /\ Complete(t, rs) /\ Ordered(t, rs) /\ Early(t, rs)
-----------------------------------------------------------------------------
(* Sequences of registrations.                                              *)

\* Two sequences one behind the other, position by position.
LEMMA ConcatFacts ==
  ASSUME NEW S, NEW r \in Seq(S), NEW s \in Seq(S)
  PROVE  /\ r \o s \in Seq(S) /\ Len(r) \in Nat /\ Len(s) \in Nat
         /\ Len(r \o s) = Len(r) + Len(s)
         /\ \A i \in 1..Len(r) : (r \o s)[i] = r[i]
         /\ \A i \in 1..Len(s) : (r \o s)[Len(r) + i] = s[i]
         /\ \A i \in 1..Len(r) + Len(s) :
              i \in 1..Len(r) \/ (i - Len(r) \in 1..Len(s) /\ (r \o s)[i] = s[i - Len(r)])
<1>1. /\ r \o s \in Seq(S) /\ Len(r) \in Nat /\ Len(s) \in Nat
      /\ Len(r \o s) = Len(r) + Len(s)
      /\ \A i \in 1..Len(r) + Len(s) :
           (r \o s)[i] = IF i <= Len(r) THEN r[i] ELSE s[i - Len(r)]
  BY ConcatProperties, LenProperties
<1> QED
  BY <1>1

\* Each names the interfaces of one generic definition, in order.
LEMMA EachFacts ==
  ASSUME NEW t \in Types, NEW g \in Generic, NEW how \in {"unique", "try", "add"},
         g \in SingleHandled => how = "unique",
         g = "INotificationHandler<>" => how = "add",
         g = "IExceptionHandler<>" => how = "try"
  PROVE  /\ Proper(t, Each(how, t, g))
         /\ Len(Each(how, t, g)) = Len(Implements[t][g])
         /\ DOMAIN Implements[t][g] = 1..Len(Implements[t][g])
         /\ \A i \in 1..Len(Implements[t][g]) :
              /\ Each(how, t, g)[i] = Registration(how, Service(g, Implements[t][g][i]), t)
              /\ Implements[t][g][i] \in Arguments
<1> DEFINE args == Implements[t][g]
<1> DEFINE rs == Each(how, t, g)
<1>1. args \in Seq(Arguments)
  BY TypesAssumption
<1>2. Len(args) \in Nat /\ DOMAIN args = 1..Len(args)
      /\ \A i \in 1..Len(args) : args[i] \in Arguments
  BY <1>1, ElementOfSeq, LenProperties
<1>3. ASSUME NEW i \in 1..Len(args)
      PROVE  /\ Registration(how, Service(g, args[i]), t) \in Registrations
             /\ Item(Registration(how, Service(g, args[i]), t))
  <2> DEFINE s == Service(g, args[i])
  <2>1. args[i] \in Arguments /\ args[i] # NoArgument
    BY <1>2, <1>3, TypesAssumption
  <2>2. s.interface = g /\ s.argument = args[i] /\ s \in Of(Generic) /\ s \in Services
    BY <2>1 DEF Service, Of, Services, Interfaces
  <2>3. Registration(how, s, t) \in Registrations
    BY <2>2 DEF Registration, Registrations, Classes
  <2>4. Serves(t, s)
    BY <1>2, <2>2 DEF Serves
  <2>5. g # "class"
    BY DEF Generic, Handled, SingleHandled
  <2>6. s # Self(t)
    BY <2>2, <2>5 DEF Self, Service
  <2>7. how = "unique" \/ how = "try" \/ g = "INotificationHandler<>"
    BY DEF Generic, Handled
  <2>8. g = "INotificationHandler<>" => s \notin OnceServices
    BY <2>1, <2>2 DEF OnceServices, FirstServices, Of, Unbound, SingleHandled
  <2>9. g = "IExceptionHandler<>" => s \notin Of(Handled)
    BY <2>2 DEF Of, Handled, SingleHandled
  <2>10. s \in OnceServices => how # "add"
    BY <2>8, <2>7 DEF Generic, Handled
  <2>11. s \in Of(Handled) => how # "try"
    BY <2>9 DEF Generic, Handled, SingleHandled
  <2>12. /\ Registration(how, s, t).how = how /\ Registration(how, s, t).service = s
         /\ Registration(how, s, t).class = t
    BY DEF Registration
  <2>13. Item(Registration(how, s, t))
    BY <2>4, <2>6, <2>10, <2>11, <2>12 DEF Item
  <2> QED
    BY <2>3, <2>13
<1>4. /\ rs = [i \in 1..Len(args) |-> Registration(how, Service(g, args[i]), t)]
      /\ rs \in [1..Len(args) -> Registrations]
  BY <1>2, <1>3 DEF Each
<1>5. rs \in Seq(Registrations) /\ Len(rs) = Len(args)
  BY <1>2, <1>4
<1>6. \A i \in 1..Len(rs) : rs[i].class = t
  BY <1>4, <1>5 DEF Registration
<1> QED
  BY <1>2, <1>3, <1>4, <1>5, <1>6 DEF Proper

\* What holds of the registrations of one class holds of two parts in a row.
LEMMA ConcatProper ==
  ASSUME NEW t, NEW r, NEW s, Proper(t, r), Proper(t, s)
  PROVE  Proper(t, r \o s)
  BY ConcatFacts DEF Proper

\* What is sound for a class, made after what is, is sound.
LEMMA ConcatSound ==
  ASSUME NEW t, NEW r, NEW s, Sound(t, r), Sound(t, s)
  PROVE  Sound(t, r \o s)
<1> DEFINE rs == r \o s
<1>1. /\ r \in Seq(Registrations) /\ s \in Seq(Registrations)
      /\ Proper(t, rs)
  BY ConcatProper DEF Sound, Proper
<1>2. /\ Len(r) \in Nat /\ Len(s) \in Nat /\ Len(rs) = Len(r) + Len(s)
      /\ \A i \in 1..Len(r) : rs[i] = r[i]
      /\ \A i \in 1..Len(s) : rs[Len(r) + i] = s[i]
      /\ \A i \in 1..Len(r) + Len(s) :
           i \in 1..Len(r) \/ (i - Len(r) \in 1..Len(s) /\ rs[i] = s[i - Len(r)])
  BY <1>1, ConcatFacts
<1> HIDE DEF rs
<1>3. Complete(t, rs)
  <2> SUFFICES ASSUME NEW i \in 1..Len(rs), rs[i].service \in Of(Handled)
               PROVE  \E k \in 1..Len(rs) : rs[k].service = Self(t)
    BY DEF Complete
  <2>1. CASE i \in 1..Len(r)
    <3>1. PICK k \in 1..Len(r) : r[k].service = Self(t)
      BY <2>1, <1>2 DEF Sound, Complete
    <3> QED
      BY <3>1, <1>2
  <2>2. CASE i \notin 1..Len(r)
    <3>1. PICK k \in 1..Len(s) : s[k].service = Self(t)
      BY <2>2, <1>2 DEF Sound, Complete
    <3>2. Len(r) + k \in 1..Len(rs) /\ rs[Len(r) + k] = s[k]
      BY <3>1, <1>2
    <3> QED
      BY <3>1, <3>2
  <2> QED
    BY <2>1, <2>2
<1>4. Ordered(t, rs)
  <2> SUFFICES ASSUME NEW i \in 1..Len(rs), rs[i].service = Marker,
                      NEW k \in DOMAIN Notifications(t)
               PROVE  Follows(rs, i, Notification(t, k))
    BY DEF Ordered
  <2>1. CASE i \in 1..Len(r)
    <3>1. Follows(r, i, Notification(t, k))
      BY <2>1, <1>2 DEF Sound, Ordered
    <3>2. PICK j \in i + 1..Len(r) :
            r[j] = Notification(t, k) /\ \A m \in i..j : r[m].how # "unique"
      BY <3>1 DEF Follows
    <3> QED
      BY <2>1, <3>2, <1>2 DEF Follows
  <2>2. CASE i \notin 1..Len(r)
    <3> DEFINE n == i - Len(r)
    <3>1. Follows(s, n, Notification(t, k))
      BY <2>2, <1>2 DEF Sound, Ordered
    <3>2. PICK j \in n + 1..Len(s) :
            s[j] = Notification(t, k) /\ \A m \in n..j : s[m].how # "unique"
      BY <3>1 DEF Follows
    <3>3. n \in 1..Len(s) /\ n \in Int /\ j \in Int /\ j \in 1..Len(s)
      BY <2>2, <1>2
    <3>4. Len(r) + j \in i + 1..Len(rs) /\ rs[Len(r) + j] = s[j]
      BY <3>3, <1>2
    <3>5. ASSUME NEW m \in i..Len(r) + j PROVE rs[m].how # "unique"
      <4>1. m - Len(r) \in n..j /\ m \in 1..Len(r) + Len(s) /\ m \notin 1..Len(r)
        BY <3>3, <2>2, <1>2
      <4> QED
        BY <4>1, <3>2, <1>2
    <3> QED
      BY <3>2, <3>4, <3>5 DEF Follows
  <2> QED
    BY <2>1, <2>2
<1>5. Early(t, rs)
  <2> SUFFICES ASSUME NEW i \in 1..Len(rs), rs[i].service \in Enumerated
               PROVE  \E k \in 1..i - 1 : rs[k].service = Self(t)
    BY DEF Early
  <2>1. CASE i \in 1..Len(r)
    <3>1. PICK k \in 1..i - 1 : r[k].service = Self(t)
      BY <2>1, <1>2 DEF Sound, Early
    <3>2. k \in 1..Len(r)
      BY <2>1, <1>2
    <3> QED
      BY <3>1, <3>2, <1>2
  <2>2. CASE i \notin 1..Len(r)
    <3>1. i - Len(r) \in 1..Len(s) /\ s[i - Len(r)].service \in Enumerated
      BY <2>2, <1>2
    <3>2. PICK k \in 1..(i - Len(r)) - 1 : s[k].service = Self(t)
      BY <3>1 DEF Sound, Early
    <3>3. k \in 1..Len(s) /\ Len(r) + k \in 1..i - 1
      BY <3>1, <1>2
    <3> QED
      BY <3>2, <3>3, <1>2
  <2> QED
    BY <2>1, <2>2
<1> QED
  BY <1>1, <1>3, <1>4, <1>5 DEF Sound, rs

\* A branch not taken registers nothing.
LEMMA EmptySound ==
  ASSUME NEW t
  PROVE  Sound(t, <<>>)
  BY EmptySeq DEF Sound, Proper, Complete, Ordered, Early

\* A conditional registration is sound whether or not the condition holds.
LEMMA WhenSound ==
  ASSUME NEW t, NEW condition, NEW rs, condition => Sound(t, rs)
  PROVE  Sound(t, When(condition, rs))
  BY EmptySound DEF When

\* Without what is enumerated there is nothing to come early.
LEMMA UnenumeratedEarly ==
  ASSUME NEW t, NEW rs, \A i \in 1..Len(rs) : rs[i].service \notin Enumerated
  PROVE  Early(t, rs)
  BY DEF Early

\* Without the marker of notification handlers there is nothing to order.
LEMMA UnmarkedOrdered ==
  ASSUME NEW t, NEW rs, \A i \in 1..Len(rs) : rs[i].service # Marker
  PROVE  Ordered(t, rs)
  BY DEF Ordered

\* The library's interfaces, and that none of them is a handler's.
LEMMA LibraryFacts ==
  /\ LibraryInterfaces = {"IMediator", "IRequestSender", "ICommandSender", "INotificationSender",
                          "IRequestPipeline", "ICommandPipeline", "INotificationPipeline",
                          "ICommandsChannel", "CommandsBackgroundService"}
  /\ LibraryInterfaces \cap (Generic \cup PlainInterfaces \cup {"class"}) = {}
<1>1. DOMAIN MediatorServices = 1..7 /\ DOMAIN BackgroundServices = 1..2
  BY DEF MediatorServices, BackgroundServices
<1>2. {MediatorServices[i] : i \in DOMAIN MediatorServices} =
        {"IMediator", "IRequestSender", "ICommandSender", "INotificationSender",
         "IRequestPipeline", "ICommandPipeline", "INotificationPipeline"}
  BY <1>1 DEF MediatorServices
<1>3. {BackgroundServices[i] : i \in DOMAIN BackgroundServices} =
        {"ICommandsChannel", "CommandsBackgroundService"}
  BY <1>1 DEF BackgroundServices
<1>4. LibraryInterfaces = {"IMediator", "IRequestSender", "ICommandSender", "INotificationSender",
                           "IRequestPipeline", "ICommandPipeline", "INotificationPipeline",
                           "ICommandsChannel", "CommandsBackgroundService"}
  BY <1>2, <1>3 DEF LibraryInterfaces
<1> QED
  BY <1>4 DEF Generic, Handled, SingleHandled, PlainInterfaces

\* An interface without argument, of a class that implements it.
LEMMA OnlyFacts ==
  ASSUME NEW t \in Types, NEW interface \in Generic \cup PlainInterfaces, NEW how,
         how = IF interface \in {"IExceptionHandler", "IExceptionHandler<>"} THEN "try" ELSE "add",
         \/ interface \in Plain[t]
         \/ interface \in Generic /\ ImplementsOpenGeneric(t, interface)
  PROVE  /\ Proper(t, Only(how, interface, t))
         /\ Complete(t, Only(how, interface, t))
         /\ Only(how, interface, t) = <<Registration(how, Service(interface, NoArgument), t)>>
         /\ interface \notin {"IRequestHandler", "ICommandHandler", "INotificationHandler"} =>
              Sound(t, Only(how, interface, t))
<1> DEFINE s == Service(interface, NoArgument)
<1> DEFINE r == Registration(how, s, t)
<1>1. /\ s.interface = interface /\ s.argument = NoArgument /\ s \in Services
      /\ NoArgument \notin Arguments
  BY TypesAssumption DEF Service, Services, Interfaces
<1>2. r.how = how /\ r.service = s /\ r.class = t /\ r \in Registrations
  BY <1>1 DEF Registration, Registrations, Classes
<1>3. Serves(t, s)
  <2>1. CASE interface \in Plain[t]
    <3>1. interface \in PlainInterfaces
      BY <2>1, TypesAssumption
    <3> QED
      BY <2>1, <3>1, <1>1 DEF Serves, Service, Unbound
  <2>2. CASE interface \notin Plain[t]
    BY <2>2, <1>1 DEF ImplementsOpenGeneric, Serves, Service, Unbound
  <2> QED
    BY <2>1, <2>2
<1>4. s \notin Of(Handled) /\ s \notin Of(SingleHandled) /\ s \notin Of({"IExceptionHandler<>"})
  BY <1>1 DEF Of
<1>5. s \in OnceServices => how # "add"
  BY <1>1, <1>4, LibraryFacts DEF OnceServices, FirstServices, Unbound
<1>6. s # Self(t)
  <2>1. interface # "class"
    BY DEF Generic, Handled, SingleHandled, PlainInterfaces
  <2> QED
    BY <2>1, <1>1 DEF Self, Service
<1>7. Item(r)
  BY <1>2, <1>3, <1>4, <1>5, <1>6 DEF Item
<1> HIDE DEF r
<1>8. /\ Only(how, interface, t) = <<r>>
      /\ <<r>> \in Seq(Registrations) /\ Len(<<r>>) = 1 /\ <<r>>[1] = r
  BY <1>2 DEF Only, r
<1>9. Proper(t, <<r>>) /\ Complete(t, <<r>>)
  BY <1>2, <1>4, <1>7, <1>8 DEF Proper, Complete
<1>10. ASSUME interface \notin {"IRequestHandler", "ICommandHandler", "INotificationHandler"}
       PROVE  Ordered(t, <<r>>) /\ Early(t, <<r>>)
  <2>1. s # Marker
    BY <1>1, <1>10 DEF Marker, Service
  <2>2. s \notin Enumerated
    BY <1>1, <1>10 DEF Enumerated, Of, Unbound
  <2> QED
    BY <2>1, <2>2, <1>2, <1>8, UnmarkedOrdered, UnenumeratedEarly
<1> QED
  BY <1>8, <1>9, <1>10 DEF Sound, r

\* A class and its marker.
LEMMA SelfAndMarkerFacts ==
  ASSUME NEW t \in Types, NEW marker \in {"IRequestHandler", "ICommandHandler", "INotificationHandler"},
         marker \in Plain[t]
  PROVE  LET rs == SelfAndMarker(t, marker) IN
           /\ Proper(t, rs) /\ Len(rs) = 2
           /\ rs[1].service = Self(t) /\ rs[2].service = Service(marker, NoArgument)
           /\ rs[1].how = "add" /\ rs[2].how = "add"
<1> DEFINE self == Registration("add", Self(t), t)
<1> DEFINE only == Only("add", marker, t)
<1>1. marker \in PlainInterfaces /\ marker \notin {"IExceptionHandler", "IExceptionHandler<>"}
  BY DEF PlainInterfaces
<1>2. Proper(t, only) /\ only = <<Registration("add", Service(marker, NoArgument), t)>>
  BY <1>1, OnlyFacts
<1>3. self.how = "add" /\ self.service = Self(t) /\ self.class = t
  BY DEF Registration
<1>4. self \in Registrations
  BY DEF Registration, Registrations, Classes, Self, Service, Services, Interfaces
<1>5. Self(t).interface = "class"
  BY DEF Self, Service
<1>6. Self(t) \notin OnceServices /\ Self(t) \notin Of(Handled)
  BY <1>5, LibraryFacts
     DEF OnceServices, FirstServices, Of, Unbound, Handled, SingleHandled
<1>7. Item(self)
  BY <1>3, <1>6 DEF Item, Serves
<1> HIDE DEF self
<1>8. <<self>> \in Seq(Registrations) /\ Len(<<self>>) = 1 /\ <<self>>[1] = self
  BY <1>4
<1>9. Proper(t, <<self>>)
  BY <1>3, <1>7, <1>8 DEF Proper
<1>10. Proper(t, <<self>> \o only)
  BY <1>2, <1>9, ConcatProper
<1>11. Len(only) = 1 /\ only[1].service = Service(marker, NoArgument) /\ only[1].how = "add"
  BY <1>2 DEF Registration
<1>12. /\ Len(<<self>> \o only) = 2 /\ (<<self>> \o only)[1] = self
       /\ (<<self>> \o only)[2] = only[1]
  <2> HIDE DEF only
  <2>1. only \in Seq(Registrations)
    BY <1>2 DEF Proper
  <2> QED
    BY <2>1, <1>8, <1>11, ConcatFacts
<1>13. SelfAndMarker(t, marker) = <<self>> \o only
  BY DEF SelfAndMarker, self
<1> HIDE DEF only
<1> QED
  BY <1>3, <1>10, <1>11, <1>12, <1>13

\* A class is not an interface.
LEMMA SelfNotEnumerated ==
  ASSUME NEW t
  PROVE  Self(t) \notin Enumerated
<1>1. Self(t).interface = "class"
  BY DEF Self, Service
<1> QED
  BY <1>1 DEF Enumerated, Of, Unbound

\* The interfaces of a handler for a request or command, then the class.
LEMMA SingleCoreSound ==
  ASSUME NEW t \in Types, NEW marker \in {"IRequestHandler", "ICommandHandler"}, marker \in Plain[t],
         NEW rs, Proper(t, rs), \A i \in 1..Len(rs) : rs[i].service \in Of(SingleHandled)
  PROVE  Sound(t, rs \o SelfAndMarker(t, marker))
<1> DEFINE core == rs \o SelfAndMarker(t, marker)
<1>1. /\ Proper(t, SelfAndMarker(t, marker)) /\ Len(SelfAndMarker(t, marker)) = 2
      /\ SelfAndMarker(t, marker)[1].service = Self(t)
      /\ SelfAndMarker(t, marker)[2].service = Service(marker, NoArgument)
  BY SelfAndMarkerFacts
<1>2. Proper(t, core)
  BY <1>1, ConcatProper
<1>3. /\ Len(rs) \in Nat /\ Len(core) = Len(rs) + 2
      /\ core[Len(rs) + 1].service = Self(t)
      /\ core[Len(rs) + 2].service = Service(marker, NoArgument)
      /\ \A i \in 1..Len(rs) : core[i] = rs[i]
  <2>1. rs \in Seq(Registrations) /\ SelfAndMarker(t, marker) \in Seq(Registrations)
    BY <1>1 DEF Proper
  <2> QED
    BY <1>1, <2>1, ConcatFacts
<1> HIDE DEF core
<1>4. Complete(t, core)
  <2>1. Len(rs) + 1 \in 1..Len(core)
    BY <1>3
  <2> QED
    BY <1>3, <2>1 DEF Complete
<1>5. ASSUME NEW i \in 1..Len(core) PROVE core[i].service # Marker
  <2>1. CASE i \in 1..Len(rs)
    BY <2>1, <1>3, TypesAssumption DEF Of, Marker, Service
  <2>2. CASE i = Len(rs) + 1
    BY <2>2, <1>3 DEF Self, Marker, Service
  <2>3. CASE i = Len(rs) + 2
    BY <2>3, <1>3 DEF Marker, Service
  <2> QED
    BY <2>1, <2>2, <2>3, <1>3
<1>6. Ordered(t, core)
  BY <1>5, UnmarkedOrdered
<1>7. Early(t, core)
  <2> SUFFICES ASSUME NEW i \in 1..Len(core), core[i].service \in Enumerated
               PROVE  \E k \in 1..i - 1 : core[k].service = Self(t)
    BY DEF Early
  <2>1. i \notin 1..Len(rs)
    <3>1. Of(SingleHandled) \cap Enumerated = {}
      BY TypesAssumption DEF Enumerated, Of, Unbound, SingleHandled
    <3> QED
      BY <3>1, <1>3
  <2>2. i # Len(rs) + 1
    BY <1>3, SelfNotEnumerated
  <2>3. Len(rs) + 1 \in 1..i - 1
    BY <2>1, <2>2, <1>3
  <2> QED
    BY <2>3, <1>3
<1> QED
  BY <1>2, <1>4, <1>6, <1>7 DEF Sound, core

\* What Each makes of a request's or command's interface.
LEMMA EachSingle ==
  ASSUME NEW t \in Types, NEW g \in SingleHandled
  PROVE  /\ Proper(t, Each("unique", t, g))
         /\ \A i \in 1..Len(Each("unique", t, g)) :
              Each("unique", t, g)[i].service \in Of(SingleHandled)
<1>1. g \in Generic /\ g # "INotificationHandler<>" /\ g # "IExceptionHandler<>"
  BY DEF Generic, Handled, SingleHandled
<1>2. /\ Proper(t, Each("unique", t, g))
      /\ Len(Each("unique", t, g)) = Len(Implements[t][g])
      /\ \A i \in 1..Len(Implements[t][g]) :
           /\ Each("unique", t, g)[i] = Registration("unique", Service(g, Implements[t][g][i]), t)
           /\ Implements[t][g][i] \in Arguments
  BY <1>1, EachFacts
<1>3. \A a \in Arguments : Registration("unique", Service(g, a), t).service \in Of(SingleHandled)
  BY DEF Registration, Service, Of
<1> QED
  BY <1>2, <1>3

\* What RegisterRequestHandlerCore registers is sound.
LEMMA RequestCoreSound ==
  ASSUME NEW t \in Types, "IRequestHandler" \in Plain[t]
  PROVE  Sound(t, RegisterRequestHandlerCore(t))
<1>1. "IRequestHandler<,>" \in SingleHandled
  BY DEF SingleHandled
<1> QED
  BY <1>1, EachSingle, SingleCoreSound DEF RegisterRequestHandlerCore

\* What RegisterCommandHandlerCore registers is sound.
LEMMA CommandCoreSound ==
  ASSUME NEW t \in Types, "ICommandHandler" \in Plain[t]
  PROVE  Sound(t, RegisterCommandHandlerCore(t))
<1> DEFINE r == Each("unique", t, "ICommandHandler<,>")
<1> DEFINE s == Each("unique", t, "ICommandHandler<>")
<1>1. "ICommandHandler<,>" \in SingleHandled /\ "ICommandHandler<>" \in SingleHandled
  BY DEF SingleHandled
<1>2. /\ Proper(t, r) /\ Proper(t, s)
      /\ \A i \in 1..Len(r) : r[i].service \in Of(SingleHandled)
      /\ \A i \in 1..Len(s) : s[i].service \in Of(SingleHandled)
  BY <1>1, EachSingle
<1>3. RegisterCommandHandlerCore(t) = (r \o s) \o SelfAndMarker(t, "ICommandHandler")
  BY DEF RegisterCommandHandlerCore
<1> HIDE DEF r, s
<1>4. Proper(t, r \o s)
  BY <1>2, ConcatProper
<1>5. \A i \in 1..Len(r \o s) : (r \o s)[i].service \in Of(SingleHandled)
  <2>1. r \in Seq(Registrations) /\ s \in Seq(Registrations)
    BY <1>2 DEF Proper
  <2> QED
    BY <1>2, <2>1, ConcatFacts
<1> QED
  BY <1>3, <1>4, <1>5, SingleCoreSound

\* What RegisterNotificationHandlerCore registers is sound: the marker, then each notification.
LEMMA NotificationCoreSound ==
  ASSUME NEW t \in Types, "INotificationHandler" \in Plain[t]
  PROVE  Sound(t, RegisterNotificationHandlerCore(t))
<1> DEFINE r == SelfAndMarker(t, "INotificationHandler")
<1> DEFINE s == Each("add", t, "INotificationHandler<>")
<1> DEFINE core == r \o s
<1>1. /\ Proper(t, r) /\ Len(r) = 2 /\ r[1].service = Self(t) /\ r[2].service = Marker
      /\ r[2].how = "add"
  BY SelfAndMarkerFacts DEF Marker
<1>2. /\ Proper(t, s) /\ Len(s) = Len(Notifications(t))
      /\ DOMAIN Notifications(t) = 1..Len(s)
      /\ \A k \in 1..Len(s) : s[k] = Notification(t, k) /\ Notifications(t)[k] \in Arguments
  <2>1. "INotificationHandler<>" \in Generic /\ "INotificationHandler<>" \notin SingleHandled
    BY DEF Generic, Handled, SingleHandled
  <2> QED
    BY <2>1, EachFacts DEF Notifications, Notification
<1>3. Proper(t, core)
  BY <1>1, <1>2, ConcatProper
<1>4. /\ Len(s) \in Nat /\ Len(core) = 2 + Len(s)
      /\ core[1] = r[1] /\ core[2] = r[2]
      /\ \A k \in 1..Len(s) : core[2 + k] = s[k]
  <2>1. r \in Seq(Registrations) /\ s \in Seq(Registrations)
    BY <1>1, <1>2 DEF Proper
  <2> QED
    BY <1>1, <2>1, ConcatFacts
<1>5. RegisterNotificationHandlerCore(t) = core
  BY DEF RegisterNotificationHandlerCore
<1> HIDE DEF core, r, s
<1>6. Complete(t, core)
  BY <1>1, <1>4 DEF Complete
<1>7. \A k \in 1..Len(s) : s[k].how = "add" /\ s[k].service # Marker
  <2>1. \A k : Notification(t, k).how = "add" /\ Notification(t, k).service # Marker
    BY DEF Notification, Registration, Marker, Service
  <2> QED
    BY <1>2, <2>1
<1>8. ASSUME NEW i \in 1..Len(core), core[i].service = Marker, NEW k \in DOMAIN Notifications(t)
      PROVE  Follows(core, i, Notification(t, k))
  <2>1. i = 2
    <3>1. Self(t) # Marker
      BY DEF Self, Marker, Service
    <3>2. i = 1 \/ i = 2 \/ i - 2 \in 1..Len(s)
      BY <1>4
    <3>3. ASSUME i - 2 \in 1..Len(s) PROVE FALSE
      <4>1. core[2 + (i - 2)] = s[i - 2] /\ 2 + (i - 2) = i
        BY <3>3, <1>4
      <4> QED
        BY <3>3, <4>1, <1>7, <1>8
    <3> QED
      BY <3>1, <3>2, <3>3, <1>1, <1>4, <1>8
  <2>2. k \in 1..Len(s) /\ 2 + k \in i + 1..Len(core) /\ core[2 + k] = Notification(t, k)
    BY <2>1, <1>2, <1>4
  <2>3. ASSUME NEW m \in i..2 + k PROVE core[m].how # "unique"
    <3>1. CASE m = 2
      BY <3>1, <1>1, <1>4
    <3>2. CASE m # 2
      <4>1. m - 2 \in 1..Len(s) /\ 2 + (m - 2) = m
        BY <3>2, <2>1, <2>2, <1>4
      <4>2. core[m] = s[m - 2]
        BY <4>1, <1>4
      <4> QED
        BY <4>1, <4>2, <1>7
    <3> QED
      BY <3>1, <3>2
  <2> QED
    BY <2>2, <2>3 DEF Follows
<1>9. Early(t, core)
  <2> SUFFICES ASSUME NEW i \in 1..Len(core), core[i].service \in Enumerated
               PROVE  \E k \in 1..i - 1 : core[k].service = Self(t)
    BY DEF Early
  <2>1. i # 1
    BY <1>1, <1>4, SelfNotEnumerated
  <2> QED
    BY <2>1, <1>1, <1>4
<1> QED
  BY <1>3, <1>5, <1>6, <1>8, <1>9 DEF Sound, Ordered

\* Registrations for exceptions only.
LEMMA ExceptionsSound ==
  ASSUME NEW t \in Types
  PROVE  /\ Sound(t, RegisterTypedExceptionHandlerInterfaces(t))
         /\ \A i \in DOMAIN Implements[t]["IExceptionHandler<>"] :
              Sound(t, <<Each("try", t, "IExceptionHandler<>")[i]>>)
<1> DEFINE rs == Each("try", t, "IExceptionHandler<>")
<1> DEFINE args == Implements[t]["IExceptionHandler<>"]
<1>1. /\ "IExceptionHandler<>" \in Generic /\ "IExceptionHandler<>" \notin SingleHandled
      /\ "IExceptionHandler<>" \notin Handled
  BY DEF Generic, Handled, SingleHandled
<1>2. /\ Proper(t, rs) /\ Len(rs) = Len(args) /\ DOMAIN args = 1..Len(args)
      /\ \A i \in 1..Len(args) :
           rs[i] = Registration("try", Service("IExceptionHandler<>", args[i]), t)
  BY <1>1, EachFacts
<1>3. \A i \in 1..Len(args) :
        /\ rs[i].service # Marker /\ rs[i].service \notin Of(Handled)
        /\ rs[i].service \notin Enumerated
  <2>1. \A a : LET service == Registration("try", Service("IExceptionHandler<>", a), t).service IN
          service # Marker /\ service \notin Of(Handled) /\ service \notin Enumerated
    BY <1>1 DEF Registration, Service, Marker, Of, Enumerated, Unbound
  <2> QED
    BY <1>2, <2>1
<1>4. RegisterTypedExceptionHandlerInterfaces(t) = rs
  BY DEF RegisterTypedExceptionHandlerInterfaces
<1> HIDE DEF rs
<1>5. Sound(t, rs)
  BY <1>2, <1>3, UnmarkedOrdered, UnenumeratedEarly DEF Sound, Complete
<1>6. ASSUME NEW i \in DOMAIN args PROVE Sound(t, <<rs[i]>>)
  <2>1. i \in 1..Len(rs) /\ rs[i] \in Registrations /\ Item(rs[i]) /\ rs[i].class = t
    BY <1>2, ElementOfSeq DEF Proper
  <2>2. <<rs[i]>> \in Seq(Registrations) /\ Len(<<rs[i]>>) = 1 /\ <<rs[i]>>[1] = rs[i]
    BY <2>1
  <2>3. Ordered(t, <<rs[i]>>) /\ Early(t, <<rs[i]>>)
    BY <2>1, <2>2, <1>2, <1>3, UnmarkedOrdered, UnenumeratedEarly
  <2>4. Proper(t, <<rs[i]>>) /\ Complete(t, <<rs[i]>>)
    BY <2>1, <2>2, <1>2, <1>3 DEF Proper, Complete
  <2> QED
    BY <2>3, <2>4 DEF Sound
<1> QED
  BY <1>4, <1>5, <1>6 DEF rs

\* Whatever class a scan comes to.
LEMMA OpenSound ==
  ASSUME NEW t \in Types
  PROVE  Sound(t, RegisterOpenGenericIfApplicable(t))
<1> DEFINE Part(how, g) == When(ImplementsOpenGeneric(t, g), Only(how, g, t))
<1>1. /\ Sound(t, Part("add", "IRequestHandler<,>"))
      /\ Sound(t, Part("add", "ICommandHandler<>"))
      /\ Sound(t, Part("add", "INotificationHandler<>"))
      /\ Sound(t, Part("try", "IExceptionHandler<>"))
  BY OnlyFacts, WhenSound DEF Generic, Handled, SingleHandled
<1>2. Sound(t, IF ImplementsOpenGeneric(t, "ICommandHandler<,>")
               THEN Only("add", "ICommandHandler<,>", t)
               ELSE Part("add", "ICommandHandler<>"))
  BY <1>1, OnlyFacts DEF Generic, Handled, SingleHandled
<1> QED
  BY <1>1, <1>2, ConcatSound DEF RegisterOpenGenericIfApplicable

\* What a scan registers of a class is sound.
LEMMA RolesSound ==
  ASSUME NEW t \in Types
  PROVE  Sound(t, RegisterRoles(t))
<1>1. /\ Sound(t, When("IRequestHandler" \in Plain[t], RegisterRequestHandlerCore(t)))
      /\ Sound(t, When("ICommandHandler" \in Plain[t], RegisterCommandHandlerCore(t)))
      /\ Sound(t, When("INotificationHandler" \in Plain[t], RegisterNotificationHandlerCore(t)))
  BY RequestCoreSound, CommandCoreSound, NotificationCoreSound, WhenSound
<1>2. Sound(t, When("IExceptionHandler" \in Plain[t], Only("try", "IExceptionHandler", t)))
  BY OnlyFacts, WhenSound DEF PlainInterfaces
<1> QED
  BY <1>1, <1>2, ExceptionsSound, ConcatSound DEF RegisterRoles
-----------------------------------------------------------------------------
(* The invariant.                                                           *)

\* What a call has still to register belongs to one class.
Pending == \E t \in Classes : Proper(t, todo) /\ Ordered(t, todo)

\* A handler about to be registered has its class registered before or behind it.
SelfToCome ==
  \A i \in 1..Len(todo) :
    LET t == todo[i].class IN
      todo[i].service \in Of(Handled) => Has(t, Self(t)) \/ WillHave(t, Self(t))

\* A registration that nothing can prevent any more.
Assured(r) ==
  \E j \in 1..Len(todo) : todo[j] = r /\ \A m \in 1..j : todo[m].how # "unique"

MarkersServed ==
  \A i \in DOMAIN services : services[i].service = Marker =>
    LET t == services[i].class IN
      \A k \in DOMAIN Notifications(t) :
        \/ \E j \in DOMAIN services : j > i /\ services[j] = Descriptor(Notification(t, k))
        \/ Assured(Notification(t, k))

\* Before what is enumerated its class is registered or comes first.
ClassesComeFirst ==
  \A i \in 1..Len(todo) :
    LET t == todo[i].class IN
      todo[i].service \in Enumerated =>
        Has(t, Self(t))
          \/ \E k \in 1..i - 1 : todo[k].class = t /\ todo[k].service = Self(t)

\* What is registered with TryAdd is there once.
FirstOnce == Once(FirstServices)

Core ==
  /\ SingleHandler /\ FirstOnce
  /\ HandlersResolvable /\ SelfToCome
  /\ Pending /\ MarkersServed
  /\ EnumerationsResolve /\ ClassesComeFirst

Inv == TypeOK /\ Core /\ ScanFindsAllRoles
-----------------------------------------------------------------------------
(* Steps of the three kinds: a method begins, a service is registered, a call  *)
(* throws.                                                                   *)

\* What is registered, and what is to be, is typed.
LEMMA Shape ==
  ASSUME TypeOK
  PROVE  /\ services \in Seq([service : Services, class : Classes])
         /\ DOMAIN services = 1..Len(services) /\ Len(services) \in Nat
         /\ todo \in Seq(Registrations)
         /\ DOMAIN todo = 1..Len(todo) /\ Len(todo) \in Nat
<1>1. services \in Seq([service : Services, class : Classes]) /\ todo \in Seq(Registrations)
  BY DEF TypeOK
<1> QED
  BY <1>1, LenProperties

\* While nothing is to be registered a method may set out to register what it likes,
\* if it is sound.
LEMMA BeginKeepsCore ==
  ASSUME TypeOK, Core, todo = <<>>, services' = services, broken' = broken,
         NEW t \in Classes, Sound(t, todo')
  PROVE  Core' /\ \A i \in DOMAIN todo' : Serves(todo'[i].class, todo'[i].service)
<1>1. Len(todo) = 0 /\ DOMAIN todo' = 1..Len(todo') /\ DOMAIN todo = {}
  BY LenProperties, EmptySeq DEF Sound, Proper
<1>2. \A i \in DOMAIN todo' : todo'[i].class = t /\ Serves(t, todo'[i].service)
  BY <1>1 DEF Sound, Proper, Item
<1>3. SingleHandler' /\ FirstOnce'
  BY DEF Core, SingleHandler, FirstOnce, Once
<1>4. \A u, s : ~WillHave(u, s)
  BY <1>1 DEF WillHave
<1>5. HandlersResolvable'
  BY <1>4 DEF Core, HandlersResolvable, Has, WillHave
<1>6. SelfToCome'
  BY <1>1, <1>2 DEF SelfToCome, WillHave, Sound, Complete
<1>7. Pending'
  BY DEF Pending, Sound
<1>8. MarkersServed'
  <2>1. \A r : ~Assured(r)
    BY <1>1 DEF Assured
  <2> QED
    BY <2>1 DEF Core, MarkersServed
<1>9. EnumerationsResolve'
  BY DEF Core, EnumerationsResolve, Has
<1>10. ClassesComeFirst'
  <2> SUFFICES ASSUME NEW i \in 1..Len(todo'), todo'[i].service \in Enumerated
               PROVE  \E k \in 1..i - 1 : todo'[k].class = t /\ todo'[k].service = Self(t)
    BY <1>1, <1>2 DEF ClassesComeFirst, Has
  <2>1. PICK k \in 1..i - 1 : todo'[k].service = Self(t)
    BY DEF Sound, Early
  <2>2. k \in 1..Len(todo')
    OBVIOUS
  <2> QED
    BY <2>1, <2>2, <1>1, <1>2
<1> QED
  BY <1>2, <1>3, <1>5, <1>6, <1>7, <1>8, <1>9, <1>10 DEF Core

\* One registration less to make.
LEMMA Advance ==
  ASSUME TypeOK, Pending, todo # <<>>, todo' = Tail(todo)
  PROVE  /\ DOMAIN todo = 1..Len(todo) /\ Len(todo) \in Nat \ {0}
         /\ todo' \in Seq(Registrations)
         /\ DOMAIN todo' = 1..Len(todo') /\ Len(todo') = Len(todo) - 1
         /\ \A i \in 1..Len(todo) - 1 : todo'[i] = todo[i + 1]
         /\ Head(todo) = todo[1] /\ todo[1] \in Registrations /\ Item(todo[1])
         /\ Pending'
<1>1. /\ todo' \in Seq(Registrations) /\ Len(todo') = Len(todo) - 1
      /\ \A i \in 1..Len(todo) - 1 : todo'[i] = todo[i + 1]
      /\ Head(todo) = todo[1] /\ todo[1] \in Registrations
      /\ Len(todo) \in Nat \ {0} /\ DOMAIN todo = 1..Len(todo)
  BY Shape, TailFacts
<1>2. DOMAIN todo' = 1..Len(todo')
  BY <1>1, LenProperties
<1>3. PICK t \in Classes : Proper(t, todo) /\ Ordered(t, todo)
  BY DEF Pending
<1>4. Proper(t, todo') /\ Item(todo[1])
  <2>1. \A i \in 1..Len(todo') : i + 1 \in 1..Len(todo) /\ todo'[i] = todo[i + 1]
    BY <1>1
  <2> QED
    BY <1>1, <1>3, <2>1 DEF Proper
<1>5. Ordered(t, todo')
  <2> SUFFICES ASSUME NEW i \in 1..Len(todo'), todo'[i].service = Marker,
                      NEW k \in DOMAIN Notifications(t)
               PROVE  Follows(todo', i, Notification(t, k))
    BY DEF Ordered
  <2>1. i + 1 \in 1..Len(todo) /\ todo[i + 1].service = Marker
    BY <1>1
  <2>2. Follows(todo, i + 1, Notification(t, k))
    BY <2>1, <1>3 DEF Ordered
  <2>3. PICK j \in (i + 1) + 1..Len(todo) :
          todo[j] = Notification(t, k) /\ \A m \in i + 1..j : todo[m].how # "unique"
    BY <2>2 DEF Follows
  <2>4. j - 1 \in i + 1..Len(todo') /\ todo'[j - 1] = todo[j]
    BY <1>1, <2>3
  <2>5. ASSUME NEW m \in i..j - 1 PROVE todo'[m].how # "unique"
    <3>1. m + 1 \in i + 1..j /\ todo'[m] = todo[m + 1]
      BY <1>1, <2>3
    <3> QED
      BY <2>3, <3>1
  <2> QED
    BY <2>3, <2>4, <2>5 DEF Follows
<1> QED
  BY <1>1, <1>2, <1>3, <1>4, <1>5 DEF Pending

\* What was to come still is, except for the first.
LEMMA StillToCome ==
  ASSUME TypeOK, Pending, todo # <<>>, todo' = Tail(todo), NEW t, NEW s, WillHave(t, s)
  PROVE  WillHave(t, s)' \/ (todo[1].class = t /\ todo[1].service = s)
<1>1. PICK i \in DOMAIN todo : todo[i].class = t /\ todo[i].service = s
  BY DEF WillHave
<1>2. CASE i = 1
  BY <1>1, <1>2
<1>3. CASE i # 1
  <2>1. i - 1 \in DOMAIN todo' /\ todo'[i - 1] = todo[i]
    BY <1>1, <1>3, Advance
  <2> QED
    BY <1>1, <2>1 DEF WillHave
<1> QED
  BY <1>2, <1>3

\* A class that comes first still does, or has come.
LEMMA StillFirst ==
  ASSUME TypeOK, Pending, ClassesComeFirst, todo # <<>>, todo' = Tail(todo),
         \A t, s : Has(t, s) => Has(t, s)',
         \A t : todo[1].class = t /\ todo[1].service = Self(t) => Has(t, Self(t))'
  PROVE  ClassesComeFirst'
<1> SUFFICES ASSUME NEW i \in 1..Len(todo'), todo'[i].service \in Enumerated,
                    NEW t, t = todo'[i].class
             PROVE  \/ Has(t, Self(t))'
                    \/ \E k \in 1..i - 1 : todo'[k].class = t /\ todo'[k].service = Self(t)
  BY DEF ClassesComeFirst, Has, Self
<1>1. i + 1 \in 1..Len(todo) /\ todo'[i] = todo[i + 1] /\ i \in Nat
  BY Advance
<1>2. CASE Has(t, Self(t))
  BY <1>2
<1>3. CASE ~Has(t, Self(t))
  <2>1. PICK k \in 1..(i + 1) - 1 : todo[k].class = t /\ todo[k].service = Self(t)
    BY <1>1, <1>3 DEF ClassesComeFirst
  <2>2. CASE k = 1
    BY <2>1, <2>2
  <2>3. CASE k # 1
    <3>1. k - 1 \in 1..i - 1 /\ k - 1 \in 1..Len(todo) - 1 /\ (k - 1) + 1 = k
      BY <2>3, <1>1, Advance
    <3>2. todo'[k - 1] = todo[k]
      BY <3>1, Advance
    <3> QED
      BY <2>1, <3>1, <3>2
  <2> QED
    BY <2>2, <2>3
<1> QED
  BY <1>2, <1>3

\* What nothing can prevent stays so until it is made itself.
LEMMA StillAssured ==
  ASSUME TypeOK, Pending, todo # <<>>, todo' = Tail(todo), NEW r, Assured(r)
  PROVE  Assured(r)' \/ todo[1] = r
<1>1. PICK j \in 1..Len(todo) : todo[j] = r /\ \A m \in 1..j : todo[m].how # "unique"
  BY DEF Assured
<1>2. CASE j = 1
  BY <1>1, <1>2
<1>3. CASE j # 1
  <2>1. j - 1 \in 1..Len(todo') /\ todo'[j - 1] = todo[j]
    BY <1>1, <1>3, Advance
  <2>2. ASSUME NEW m \in 1..j - 1 PROVE todo'[m].how # "unique"
    <3>1. m + 1 \in 1..j /\ todo'[m] = todo[m + 1]
      BY <1>1, <1>3, Advance
    <3> QED
      BY <1>1, <3>1
  <2> QED
    BY <1>1, <2>1, <2>2 DEF Assured
<1> QED
  BY <1>2, <1>3

\* A descriptor more, behind the others.
LEMMA Grown ==
  ASSUME TypeOK, Pending, Add
  PROVE  /\ todo # <<>> /\ todo' = Tail(todo)
         /\ services' \in Seq([service : Services, class : Classes])
         /\ DOMAIN services = 1..Len(services) /\ Len(services) \in Nat
         /\ DOMAIN services' = 1..Len(services) + 1
         /\ \A i \in 1..Len(services) : services'[i] = services[i]
         /\ services'[Len(services) + 1] = Descriptor(todo[1])
         /\ Descriptor(todo[1]).service = todo[1].service
         /\ Descriptor(todo[1]).class = todo[1].class
         /\ todo[1].how = "add" \/ ~Registered(todo[1].service)
<1>1. /\ todo # <<>> /\ todo' = Tail(todo)
      /\ services' = Append(services, Descriptor(Head(todo)))
      /\ Head(todo).how = "add" \/ ~Registered(Head(todo).service)
  BY DEF Add
<1>2. Head(todo) = todo[1] /\ todo[1] \in Registrations
  BY <1>1, Advance
<1>3. /\ Descriptor(todo[1]) \in [service : Services, class : Classes]
      /\ Descriptor(todo[1]).service = todo[1].service
      /\ Descriptor(todo[1]).class = todo[1].class
  BY <1>2 DEF Descriptor, Registrations
<1>4. services \in Seq([service : Services, class : Classes])
  BY Shape
<1>5. /\ services' \in Seq([service : Services, class : Classes])
      /\ Len(services') = Len(services) + 1 /\ Len(services) \in Nat
      /\ \A i \in 1..Len(services) : services'[i] = services[i]
      /\ services'[Len(services) + 1] = Descriptor(todo[1])
  BY <1>1, <1>2, <1>3, <1>4, AppendFacts
<1>6. DOMAIN services' = 1..Len(services') /\ DOMAIN services = 1..Len(services)
  BY <1>4, <1>5, LenProperties
<1> QED
  BY <1>1, <1>2, <1>3, <1>5, <1>6

\* Only what is not yet there, or may be there twice, is added.
LEMMA AddKeepsOnce ==
  ASSUME TypeOK, Pending, Add, NEW S, S \subseteq OnceServices, Once(S)
  PROVE  Once(S)'
<1> SUFFICES ASSUME NEW i \in DOMAIN services', NEW j \in DOMAIN services',
                    services'[i].service = services'[j].service, services'[i].service \in S
             PROVE  i = j
  BY DEF Once
<1> DEFINE n == Len(services)
<1>1. Item(todo[1])
  BY Grown, Advance
<1>2. ASSUME todo[1].service \in S PROVE ~Registered(todo[1].service)
  BY <1>1, <1>2, Grown DEF Item
<1>3. CASE i \in 1..n /\ j \in 1..n
  BY <1>3, Grown DEF Once
<1>4. CASE i = n + 1 /\ j \in 1..n
  BY <1>2, <1>4, Grown DEF Registered
<1>5. CASE i \in 1..n /\ j = n + 1
  BY <1>2, <1>5, Grown DEF Registered
<1>6. CASE i = n + 1 /\ j = n + 1
  BY <1>6
<1> QED
  BY <1>3, <1>4, <1>5, <1>6, Grown

\* What is registered stays; what comes first is registered.
LEMMA AddKeepsHas ==
  ASSUME TypeOK, Pending, Add
  PROVE  /\ \A t, s : Has(t, s) => Has(t, s)'
         /\ \A s : Registered(s) => Registered(s)'
         /\ \A t, s : WillHave(t, s) => WillHave(t, s)' \/ Has(t, s)'
         /\ \A t, s : WillHave(t, s) => WillHave(t, s)' \/ Registered(s)'
<1>1. \A t, s : todo[1].class = t /\ todo[1].service = s => Has(t, s)' /\ Registered(s)'
  BY Grown DEF Has, Registered, Descriptor
<1>2. \A t, s : Has(t, s) => Has(t, s)'
  BY Grown DEF Has
<1>3. \A s : Registered(s) => Registered(s)'
  BY Grown DEF Registered
<1>4. \A t, s : WillHave(t, s) => WillHave(t, s)' \/ (todo[1].class = t /\ todo[1].service = s)
  BY Grown, StillToCome
<1> QED
  BY <1>1, <1>2, <1>3, <1>4

\* A registration that is made keeps the core of the invariant.
LEMMA AddKeepsCore ==
  ASSUME TypeOK, Core, Add
  PROVE  Core'
<1> DEFINE n == Len(services)
<1>1. Pending /\ todo # <<>> /\ todo' = Tail(todo) /\ broken' = broken
  BY Grown DEF Core, Add
<1>2. SingleHandler' /\ FirstOnce'
  <2>1. Of(SingleHandled) \subseteq OnceServices /\ FirstServices \subseteq OnceServices
    BY DEF OnceServices
  <2> QED
    BY <1>1, <2>1, AddKeepsOnce DEF Core, SingleHandler, FirstOnce
<1>3. \A t, s : Has(t, s) \/ WillHave(t, s) => Has(t, s)' \/ WillHave(t, s)'
  BY <1>1, AddKeepsHas
<1>4. HandlersResolvable'
  <2> SUFFICES ASSUME NEW i \in DOMAIN services', services'[i].service \in Of(Handled),
                      NEW t, t = services'[i].class
               PROVE  Has(t, Self(t))' \/ WillHave(t, Self(t))' \/ t \in broken
    BY <1>1 DEF HandlersResolvable, Has, WillHave, Self
  <2>1. CASE i \in 1..n
    <3>1. i \in DOMAIN services /\ services'[i] = services[i]
      BY <1>1, <2>1, Grown
    <3>2. Has(t, Self(t)) \/ WillHave(t, Self(t)) \/ t \in broken
      BY <3>1 DEF Core, HandlersResolvable
    <3> QED
      BY <3>2, <1>3
  <2>2. CASE i = n + 1
    <3>1. services'[i].service = todo[1].service /\ services'[i].class = todo[1].class
      BY <1>1, <2>2, Grown
    <3>2. 1 \in 1..Len(todo)
      BY <1>1, Advance
    <3>3. Has(t, Self(t)) \/ WillHave(t, Self(t))
      BY <3>1, <3>2 DEF Core, SelfToCome
    <3> QED
      BY <3>3, <1>3
  <2> QED
    BY <1>1, <2>1, <2>2, Grown
<1>5. SelfToCome'
  <2> SUFFICES ASSUME NEW i \in 1..Len(todo'), todo'[i].service \in Of(Handled),
                      NEW t, t = todo'[i].class
               PROVE  Has(t, Self(t))' \/ WillHave(t, Self(t))'
    BY DEF SelfToCome, Has, WillHave, Self
  <2>1. i + 1 \in 1..Len(todo) /\ todo'[i] = todo[i + 1]
    BY <1>1, Advance
  <2>2. Has(t, Self(t)) \/ WillHave(t, Self(t))
    BY <2>1 DEF Core, SelfToCome
  <2> QED
    BY <2>2, <1>3
<1>6. MarkersServed'
  <2> SUFFICES ASSUME NEW i \in DOMAIN services', services'[i].service = Marker,
                      NEW k \in DOMAIN Notifications(services'[i].class),
                      NEW r, r = Notification(services'[i].class, k)
               PROVE  \/ \E j \in DOMAIN services' : j > i /\ services'[j] = Descriptor(r)
                      \/ Assured(r)'
    BY DEF MarkersServed, Assured
  <2>1. CASE i \in 1..n
    <3>1. i \in DOMAIN services /\ services'[i] = services[i]
      BY <1>1, <2>1, Grown
    <3>2. CASE \E j \in DOMAIN services : j > i /\ services[j] = Descriptor(r)
      BY <1>1, <3>2, Grown
    <3>3. CASE Assured(r)
      <4>1. Assured(r)' \/ todo[1] = r
        BY <1>1, <3>3, StillAssured
      <4>2. n + 1 > i /\ n + 1 \in DOMAIN services' /\ services'[n + 1] = Descriptor(todo[1])
        BY <1>1, <2>1, Grown
      <4> QED
        BY <4>1, <4>2
    <3> QED
      BY <3>1, <3>2, <3>3 DEF Core, MarkersServed
  <2>2. CASE i = n + 1
    <3>1. services'[i].service = todo[1].service /\ services'[i].class = todo[1].class
      BY <1>1, <2>2, Grown
    <3>2. PICK t \in Classes : Proper(t, todo) /\ Ordered(t, todo)
      BY <1>1 DEF Pending
    <3>3. 1 \in 1..Len(todo) /\ todo[1].class = t /\ Len(todo) \in Nat
      BY <1>1, <3>2, Advance DEF Proper
    <3>4. Follows(todo, 1, r)
      BY <3>1, <3>2, <3>3 DEF Ordered
    <3>5. PICK j \in 1 + 1..Len(todo) : todo[j] = r /\ \A m \in 1..j : todo[m].how # "unique"
      BY <3>4 DEF Follows
    <3>6. Assured(r)
      <4>1. j \in 1..Len(todo)
        BY <3>3, <3>5
      <4> QED
        BY <4>1, <3>5 DEF Assured
    <3>7. todo[1] # r
      BY <3>1 DEF Notification, Registration, Marker, Service
    <3> QED
      BY <1>1, <3>6, <3>7, StillAssured
  <2> QED
    BY <1>1, <2>1, <2>2, Grown
<1>7. Pending'
  BY <1>1, Advance
<1>8. EnumerationsResolve'
  <2> SUFFICES ASSUME NEW i \in DOMAIN services', services'[i].service \in Enumerated,
                      NEW t, t = services'[i].class
               PROVE  Has(t, Self(t))'
    BY DEF EnumerationsResolve, Has, Self
  <2>1. CASE i \in 1..n
    <3>1. i \in DOMAIN services /\ services'[i] = services[i]
      BY <1>1, <2>1, Grown
    <3>2. Has(t, Self(t))
      BY <3>1 DEF Core, EnumerationsResolve
    <3> QED
      BY <3>2, <1>1, AddKeepsHas
  <2>2. CASE i = n + 1
    <3>1. services'[i].service = todo[1].service /\ services'[i].class = todo[1].class
      BY <1>1, <2>2, Grown
    <3>2. 1 \in 1..Len(todo) /\ 1..1 - 1 = {}
      BY <1>1, Advance
    <3>3. Has(t, Self(t))
      BY <3>1, <3>2 DEF Core, ClassesComeFirst
    <3> QED
      BY <3>3, <1>1, AddKeepsHas
  <2> QED
    BY <1>1, <2>1, <2>2, Grown
<1>9. ClassesComeFirst'
  <2>1. ASSUME NEW t, todo[1].class = t, todo[1].service = Self(t) PROVE Has(t, Self(t))'
    BY <1>1, <2>1, Grown DEF Has, Descriptor
  <2>2. \A t, s : Has(t, s) => Has(t, s)'
    BY <1>1, AddKeepsHas
  <2> QED
    BY <1>1, <2>1, <2>2, StillFirst DEF Core
<1> QED
  BY <1>2, <1>4, <1>5, <1>6, <1>7, <1>8, <1>9 DEF Core

\* A service is there already: the class itself and notifications are never tried.
LEMMA TryAddKeepsCore ==
  ASSUME TypeOK, Core, TryAddFinds
  PROVE  /\ Core'
         /\ \A t, s : WillHave(t, s) => WillHave(t, s)' \/ (Registered(s) /\ s \notin Of(Handled))
<1>1. /\ Pending /\ todo # <<>> /\ todo' = Tail(todo) /\ broken' = broken
      /\ services' = services
  BY DEF Core, TryAddFinds
<1>2. /\ todo[1].how = "try" /\ Registered(todo[1].service)
      /\ Item(todo[1]) /\ Len(todo) \in Nat \ {0}
  BY <1>1, Advance DEF TryAddFinds
<1>3. todo[1].service \notin Of(Handled) /\ todo[1].service # Self(todo[1].class)
  BY <1>2, Advance DEF Item
<1>4. \A t, s : WillHave(t, s) => WillHave(t, s)' \/ (Registered(s) /\ s \notin Of(Handled))
  BY <1>1, <1>2, <1>3, StillToCome
<1>5. \A t : WillHave(t, Self(t)) => WillHave(t, Self(t))'
  BY <1>1, <1>3, StillToCome
<1>6. \A t, s : Has(t, s)' <=> Has(t, s)
  BY <1>1 DEF Has
<1>7. SingleHandler' /\ FirstOnce'
  BY <1>1 DEF Core, SingleHandler, FirstOnce, Once
<1>8. HandlersResolvable'
  <2> SUFFICES ASSUME NEW i \in DOMAIN services, services[i].service \in Of(Handled),
                      NEW t, t = services[i].class
               PROVE  Has(t, Self(t))' \/ WillHave(t, Self(t))' \/ t \in broken
    BY <1>1 DEF HandlersResolvable, Has, WillHave, Self
  <2> QED
    BY <1>5, <1>6 DEF Core, HandlersResolvable
<1>9. SelfToCome'
  <2> SUFFICES ASSUME NEW i \in 1..Len(todo'), todo'[i].service \in Of(Handled),
                      NEW t, t = todo'[i].class
               PROVE  Has(t, Self(t))' \/ WillHave(t, Self(t))'
    BY DEF SelfToCome, Has, WillHave, Self
  <2>1. i + 1 \in 1..Len(todo) /\ todo'[i] = todo[i + 1]
    BY <1>1, Advance
  <2>2. Has(t, Self(t)) \/ WillHave(t, Self(t))
    BY <2>1 DEF Core, SelfToCome
  <2> QED
    BY <2>2, <1>5, <1>6
<1>10. MarkersServed'
  <2> SUFFICES ASSUME NEW i \in DOMAIN services', services'[i].service = Marker,
                      NEW k \in DOMAIN Notifications(services'[i].class),
                      NEW r, r = Notification(services'[i].class, k)
               PROVE  \/ \E j \in DOMAIN services' : j > i /\ services'[j] = Descriptor(r)
                      \/ Assured(r)'
    BY DEF MarkersServed, Assured
  <2>1. todo[1] # r
    BY <1>2 DEF Notification, Registration
  <2> QED
    BY <1>1, <2>1, StillAssured DEF Core, MarkersServed
<1>11. Pending'
  BY <1>1, Advance
<1>12. EnumerationsResolve'
  BY <1>1 DEF Core, EnumerationsResolve, Has
<1>13. ClassesComeFirst'
  BY <1>1, <1>3, <1>6, StillFirst DEF Core
<1> QED
  BY <1>4, <1>7, <1>8, <1>9, <1>10, <1>11, <1>12, <1>13 DEF Core

\* What a throw cuts off belongs to the class that is broken now.
LEMMA DuplicateKeepsCore ==
  ASSUME TypeOK, Core, Duplicate
  PROVE  Core' /\ broken' \subseteq Types
<1>1. /\ todo # <<>> /\ todo' = <<>> /\ services' = services
      /\ Head(todo).how = "unique" /\ broken' = broken \cup {Head(todo).class}
  BY DEF Duplicate, Throw
<1>2. PICK t \in Classes : Proper(t, todo) /\ Ordered(t, todo)
  BY DEF Core, Pending
<1>3. /\ Head(todo) = todo[1] /\ Len(todo) \in Nat \ {0} /\ DOMAIN todo = 1..Len(todo)
      /\ 1 \in 1..Len(todo)
  <2>1. todo \in Seq(Registrations)
    BY Shape
  <2> QED
    BY <1>1, <2>1, TailFacts, LenProperties
<1>4. todo[1].class = t /\ t \in Types /\ \A i \in 1..Len(todo) : todo[i].class = t
  BY <1>1, <1>2, <1>3 DEF Proper, Item
<1>5. broken' \subseteq Types
  BY <1>1, <1>3, <1>4 DEF TypeOK
<1>6. Len(todo') = 0 /\ DOMAIN todo' = {}
  BY <1>1, EmptySeq
<1>7. SingleHandler' /\ FirstOnce'
  BY <1>1 DEF Core, SingleHandler, FirstOnce, Once
<1>8. HandlersResolvable'
  <2> SUFFICES ASSUME NEW i \in DOMAIN services, services[i].service \in Of(Handled),
                      NEW u, u = services[i].class
               PROVE  Has(u, Self(u))' \/ u \in broken'
    BY <1>1 DEF HandlersResolvable, Has, Self
  <2>1. Has(u, Self(u)) \/ WillHave(u, Self(u)) \/ u \in broken
    BY DEF Core, HandlersResolvable
  <2>2. WillHave(u, Self(u)) => u = t
    BY <1>3, <1>4 DEF WillHave
  <2>3. Has(u, Self(u)) => Has(u, Self(u))'
    BY <1>1 DEF Has
  <2> QED
    BY <2>1, <2>2, <2>3, <1>1, <1>3, <1>4
<1>9. SelfToCome'
  BY <1>6 DEF SelfToCome
<1>10. MarkersServed'
  <2>1. \A r : ~Assured(r)
    BY <1>1, <1>3 DEF Assured
  <2> QED
    BY <1>1, <2>1 DEF Core, MarkersServed
<1>11. Pending'
  BY <1>1, EmptySound DEF Pending, Sound, Classes
<1>12. EnumerationsResolve' /\ ClassesComeFirst'
  BY <1>1, <1>6 DEF Core, EnumerationsResolve, ClassesComeFirst, Has
<1> QED
  BY <1>5, <1>7, <1>8, <1>9, <1>10, <1>11, <1>12 DEF Core
-----------------------------------------------------------------------------
(* Scans.                                                                   *)

\* A registration of service s is among rs.
Provides(rs, s) == \E i \in 1..Len(rs) : rs[i].service = s

\* A concatenation provides what its parts provide.
LEMMA ConcatContains ==
  ASSUME NEW r \in Seq(Registrations), NEW s \in Seq(Registrations), NEW service,
         Provides(r, service) \/ Provides(s, service)
  PROVE  Provides(r \o s, service)
<1>1. CASE Provides(r, service)
  BY <1>1, ConcatFacts DEF Provides
<1>2. CASE Provides(s, service)
  <2>1. PICK i \in 1..Len(s) : s[i].service = service
    BY <1>2 DEF Provides
  <2>2. Len(r) + i \in 1..Len(r \o s) /\ (r \o s)[Len(r) + i] = s[i]
    BY ConcatFacts
  <2> QED
    BY <2>1, <2>2 DEF Provides
<1> QED
  BY <1>1, <1>2

\* A class serves a generic interface only if it implements it.
LEMMA ServesGeneric ==
  ASSUME NEW t \in Types, NEW g \in Generic, NEW a \in Arguments, Serves(t, Service(g, a))
  PROVE  \E i \in DOMAIN Implements[t][g] : Implements[t][g][i] = a
<1> DEFINE s == Service(g, a)
<1>1. s.interface = g /\ s.argument = a /\ a # NoArgument /\ t # Library
  BY TypesAssumption DEF Service
<1>2. s # Self(t)
  BY <1>1 DEF Self, Service, Generic, Handled, SingleHandled
<1>3. \A interfaces : s \notin Unbound(interfaces)
  BY <1>1 DEF Unbound
<1> HIDE DEF s
<1>4. Serves(t, s)
  BY DEF s
<1> QED
  BY <1>1, <1>2, <1>3, <1>4 DEF Serves

\* Each names all of them.
LEMMA EachContains ==
  ASSUME NEW t \in Types, NEW g \in Generic, NEW a \in Arguments, Serves(t, Service(g, a)),
         NEW how \in {"unique", "try", "add"},
         g \in SingleHandled => how = "unique",
         g = "INotificationHandler<>" => how = "add",
         g = "IExceptionHandler<>" => how = "try"
  PROVE  Provides(Each(how, t, g), Service(g, a))
<1>1. PICK i \in DOMAIN Implements[t][g] : Implements[t][g][i] = a
  BY ServesGeneric
<1>2. /\ i \in 1..Len(Each(how, t, g))
      /\ Each(how, t, g)[i] = Registration(how, Service(g, a), t)
  BY <1>1, EachFacts
<1> QED
  BY <1>2 DEF Provides, Registration

\* A scan plans to register a class for all it implements.
LEMMA RolesContain ==
  ASSUME NEW t \in Types
  PROVE  /\ \A g \in Generic, a \in Arguments :
              Serves(t, Service(g, a)) => Provides(RegisterRoles(t), Service(g, a))
         /\ "IExceptionHandler" \in Plain[t] =>
              Provides(RegisterRoles(t), Service("IExceptionHandler", NoArgument))
<1> DEFINE W1 == When("IRequestHandler" \in Plain[t], RegisterRequestHandlerCore(t))
<1> DEFINE W2 == When("ICommandHandler" \in Plain[t], RegisterCommandHandlerCore(t))
<1> DEFINE W3 == When("INotificationHandler" \in Plain[t], RegisterNotificationHandlerCore(t))
<1> DEFINE W4 == When("IExceptionHandler" \in Plain[t], Only("try", "IExceptionHandler", t))
<1> DEFINE W5 == RegisterTypedExceptionHandlerInterfaces(t)
<1>1. Sound(t, W1) /\ Sound(t, W2) /\ Sound(t, W3)
  BY RequestCoreSound, CommandCoreSound, NotificationCoreSound, WhenSound
<1>2. Sound(t, W4) /\ Sound(t, W5)
  BY OnlyFacts, WhenSound, ExceptionsSound DEF PlainInterfaces
<1>3. RegisterRoles(t) = (((W1 \o W2) \o W3) \o W4) \o W5
  BY DEF RegisterRoles
<1>4. \A s : Provides(W1, s) \/ Provides(W2, s) \/ Provides(W3, s) \/ Provides(W4, s)
               \/ Provides(W5, s) => Provides(RegisterRoles(t), s)
  <2> HIDE DEF W1, W2, W3, W4, W5
  <2>1. /\ W1 \in Seq(Registrations) /\ W2 \in Seq(Registrations) /\ W3 \in Seq(Registrations)
        /\ W4 \in Seq(Registrations) /\ W5 \in Seq(Registrations)
    BY <1>1, <1>2 DEF Sound, Proper
  <2>2. /\ W1 \o W2 \in Seq(Registrations)
        /\ (W1 \o W2) \o W3 \in Seq(Registrations)
        /\ ((W1 \o W2) \o W3) \o W4 \in Seq(Registrations)
    BY <2>1, ConcatProperties
  <2> QED
    BY <1>3, <2>1, <2>2, ConcatContains
<1>5. \A g \in Handled : \A a \in Arguments :
        Serves(t, Service(g, a)) => Base[g] \in Plain[t] /\ g \in Generic
  <2> SUFFICES ASSUME NEW g \in Handled, NEW a \in Arguments, Serves(t, Service(g, a))
               PROVE  Base[g] \in Plain[t] /\ g \in Generic
    OBVIOUS
  <2>1. g \in Generic
    BY DEF Generic
  <2>2. PICK i \in DOMAIN Implements[t][g] : Implements[t][g][i] = a
    BY <2>1, ServesGeneric
  <2>3. Implements[t][g] # <<>>
    BY <2>2
  <2> QED
    BY <2>1, <2>3, TypesAssumption
<1>6. /\ Base["IRequestHandler<,>"] = "IRequestHandler"
      /\ Base["ICommandHandler<,>"] = "ICommandHandler"
      /\ Base["ICommandHandler<>"] = "ICommandHandler"
      /\ Base["INotificationHandler<>"] = "INotificationHandler"
  BY DEF Base, Handled, SingleHandled
<1>7. ASSUME NEW a \in Arguments, Serves(t, Service("IRequestHandler<,>", a))
      PROVE  Provides(RegisterRoles(t), Service("IRequestHandler<,>", a))
  <2>1. "IRequestHandler<,>" \in Handled /\ "IRequestHandler<,>" \in SingleHandled
        /\ "IRequestHandler<,>" \in Generic
    BY DEF Generic, Handled, SingleHandled
  <2>2. "IRequestHandler" \in Plain[t]
    BY <1>5, <1>6, <1>7, <2>1
  <2>3. Provides(Each("unique", t, "IRequestHandler<,>"), Service("IRequestHandler<,>", a))
    BY <1>7, <2>1, EachContains
  <2>4. /\ Each("unique", t, "IRequestHandler<,>") \in Seq(Registrations)
        /\ SelfAndMarker(t, "IRequestHandler") \in Seq(Registrations)
    BY <2>1, <2>2, EachSingle, SelfAndMarkerFacts DEF Proper
  <2>5. Provides(RegisterRequestHandlerCore(t), Service("IRequestHandler<,>", a))
    BY <2>3, <2>4, ConcatContains DEF RegisterRequestHandlerCore
  <2> QED
    BY <2>2, <2>5, <1>4 DEF When
<1>8. ASSUME NEW g \in {"ICommandHandler<,>", "ICommandHandler<>"}, NEW a \in Arguments,
             Serves(t, Service(g, a))
      PROVE  Provides(RegisterRoles(t), Service(g, a))
  <2> DEFINE r == Each("unique", t, "ICommandHandler<,>")
  <2> DEFINE s == Each("unique", t, "ICommandHandler<>")
  <2>1. /\ g \in Handled /\ g \in SingleHandled /\ g \in Generic
        /\ "ICommandHandler<,>" \in SingleHandled /\ "ICommandHandler<>" \in SingleHandled
    BY DEF Generic, Handled, SingleHandled
  <2>2. "ICommandHandler" \in Plain[t]
    BY <1>5, <1>6, <1>8, <2>1
  <2>3. g # "INotificationHandler<>" /\ g # "IExceptionHandler<>"
    OBVIOUS
  <2>4. Provides(Each("unique", t, g), Service(g, a))
    BY <1>8, <2>1, <2>3, EachContains
  <2>5. /\ r \in Seq(Registrations) /\ s \in Seq(Registrations)
        /\ SelfAndMarker(t, "ICommandHandler") \in Seq(Registrations)
    BY <2>1, <2>2, EachSingle, SelfAndMarkerFacts DEF Proper
  <2>6. Provides(r, Service(g, a)) \/ Provides(s, Service(g, a))
    BY <2>4
  <2>7. RegisterCommandHandlerCore(t) = (r \o s) \o SelfAndMarker(t, "ICommandHandler")
    BY DEF RegisterCommandHandlerCore
  <2> HIDE DEF r, s
  <2>8. r \o s \in Seq(Registrations)
    BY <2>5, ConcatProperties
  <2>9. Provides(r \o s, Service(g, a))
    BY <2>5, <2>6, ConcatContains
  <2>10. Provides(RegisterCommandHandlerCore(t), Service(g, a))
    BY <2>5, <2>7, <2>8, <2>9, ConcatContains
  <2> QED
    BY <2>2, <2>10, <1>4 DEF When
<1>9. ASSUME NEW a \in Arguments, Serves(t, Service("INotificationHandler<>", a))
      PROVE  Provides(RegisterRoles(t), Service("INotificationHandler<>", a))
  <2> DEFINE g == "INotificationHandler<>"
  <2>1. g \in Handled /\ g \notin SingleHandled /\ g \in Generic
    BY DEF Generic, Handled, SingleHandled
  <2>2. "INotificationHandler" \in Plain[t]
    BY <1>5, <1>6, <1>9, <2>1
  <2>3. Provides(Each("add", t, g), Service(g, a))
    BY <1>9, <2>1, EachContains
  <2>4. /\ Each("add", t, g) \in Seq(Registrations)
        /\ SelfAndMarker(t, "INotificationHandler") \in Seq(Registrations)
    BY <2>1, <2>2, EachFacts, SelfAndMarkerFacts DEF Proper
  <2>5. Provides(RegisterNotificationHandlerCore(t), Service(g, a))
    BY <2>3, <2>4, ConcatContains DEF RegisterNotificationHandlerCore
  <2> QED
    BY <2>2, <2>5, <1>4 DEF When
<1>10. ASSUME NEW a \in Arguments, Serves(t, Service("IExceptionHandler<>", a))
       PROVE  Provides(RegisterRoles(t), Service("IExceptionHandler<>", a))
  <2>1. "IExceptionHandler<>" \in Generic /\ "IExceptionHandler<>" \notin SingleHandled
    BY DEF Generic, Handled, SingleHandled
  <2>2. Provides(W5, Service("IExceptionHandler<>", a))
    BY <1>10, <2>1, EachContains DEF RegisterTypedExceptionHandlerInterfaces
  <2> QED
    BY <2>2, <1>4
<1>11. ASSUME "IExceptionHandler" \in Plain[t]
       PROVE  Provides(RegisterRoles(t), Service("IExceptionHandler", NoArgument))
  <2>1. Only("try", "IExceptionHandler", t) =
          <<Registration("try", Service("IExceptionHandler", NoArgument), t)>>
    BY DEF Only
  <2>2. Provides(Only("try", "IExceptionHandler", t), Service("IExceptionHandler", NoArgument))
    BY <2>1 DEF Provides, Registration
  <2> QED
    BY <2>2, <1>4, <1>11 DEF When
<1>12. Generic = {"IRequestHandler<,>", "ICommandHandler<,>", "ICommandHandler<>",
                  "INotificationHandler<>", "IExceptionHandler<>"}
  BY DEF Generic, Handled, SingleHandled
<1>13. \A g \in Generic : \A a \in Arguments :
         Serves(t, Service(g, a)) => Provides(RegisterRoles(t), Service(g, a))
  BY <1>7, <1>8, <1>9, <1>10, <1>12
<1> QED
  BY <1>11, <1>13

\* A class stays found while what is registered stays and what is to come comes.
LEMMA CoveredKept ==
  ASSUME NEW t \in Types, Covered(t),
         \A u, s : Has(u, s) => Has(u, s)',
         \A s : Registered(s) => Registered(s)',
         \A u, s : WillHave(u, s) => WillHave(u, s)' \/ Registered(s)',
         \A u, s : WillHave(u, s) /\ s \in Of(Handled) => WillHave(u, s)' \/ Has(u, s)'
  PROVE  Covered(t)'
<1>1. \A g \in Handled : \A a \in Arguments : Service(g, a) \in Of(Handled)
  BY DEF Service, Of
<1>2. \A g \in Handled : \A a \in Arguments :
        Serves(t, Service(g, a)) => Has(t, Service(g, a))' \/ WillHave(t, Service(g, a))'
  BY <1>1 DEF Covered
<1>3. \A a \in Arguments :
        Serves(t, Service("IExceptionHandler<>", a)) =>
          Registered(Service("IExceptionHandler<>", a))'
            \/ WillHave(t, Service("IExceptionHandler<>", a))'
  BY DEF Covered
<1>4. "IExceptionHandler" \in Plain[t] =>
        Registered(Service("IExceptionHandler", NoArgument))'
          \/ WillHave(t, Service("IExceptionHandler", NoArgument))'
  BY DEF Covered
<1> QED
  BY <1>2, <1>3, <1>4 DEF Covered

\* Registering and finding registered keep what a scan has passed.
LEMMA StepKeepsScan ==
  ASSUME Inv, Add \/ TryAddFinds
  PROVE  ScanFindsAllRoles'
<1>1. scan' = scan /\ Pending
  BY DEF Add, TryAddFinds, Inv, Core
<1>2. /\ \A u, s : Has(u, s) => Has(u, s)'
      /\ \A s : Registered(s) => Registered(s)'
      /\ \A u, s : WillHave(u, s) => WillHave(u, s)' \/ Registered(s)'
      /\ \A u, s : WillHave(u, s) /\ s \in Of(Handled) => WillHave(u, s)' \/ Has(u, s)'
  <2>1. CASE Add
    BY <2>1, <1>1, AddKeepsHas DEF Inv
  <2>2. CASE TryAddFinds
    <3>1. services' = services
      BY <2>2 DEF TryAddFinds
    <3>2. (\A u, s : Has(u, s)' <=> Has(u, s)) /\ (\A s : Registered(s)' <=> Registered(s))
      BY <3>1 DEF Has, Registered
    <3> QED
      BY <2>2, <3>2, TryAddKeepsCore DEF Inv
  <2> QED
    BY <2>1, <2>2
<1> SUFFICES ASSUME NEW i \in 1..scan.next - 1, NEW t, t = scan.types[i],
                    Selected(t), t \notin Open
             PROVE  Covered(t)'
  BY <1>1 DEF ScanFindsAllRoles, Selected, Covered, Has, WillHave, Registered
<1>3. t \in Types
  <2>1. scan.types \in Seq(Types) /\ scan.next \in 1..Len(scan.types) + 1
    BY DEF Inv, TypeOK
  <2>2. i \in 1..Len(scan.types)
    BY <2>1
  <2> QED
    BY <2>1, <2>2, ElementOfSeq
<1>4. Covered(t)
  BY DEF Inv, ScanFindsAllRoles
<1> QED
  BY <1>2, <1>3, <1>4, CoveredKept

\* A scan comes to the next class.
LEMMA NextKeepsScan ==
  ASSUME Inv, ScanNext
  PROVE  /\ ScanFindsAllRoles'
         /\ todo = <<>> /\ services' = services /\ broken' = broken
         /\ \E t \in Classes : Sound(t, todo')
         /\ scan' \in [types : Seq(Types), accepted : Filters \cup {{}}, next : Nat \ {0}]
         /\ scan'.next \in 1..Len(scan'.types) + 1
         /\ UNCHANGED <<options, config, pc, calls>> /\ pc = "scan"
<1> DEFINE n == scan.next
<1> DEFINE t == scan.types[n]
<1>1. /\ scan \in [types : Seq(Types), accepted : Filters \cup {{}}, next : Nat \ {0}]
      /\ todo = <<>> /\ pc = "scan" /\ n \in DOMAIN scan.types
      /\ todo' = When(Selected(t), IF t \in Open THEN RegisterOpenGenericIfApplicable(t)
                                   ELSE RegisterRoles(t))
      /\ scan' = [scan EXCEPT !.next = @ + 1]
      /\ UNCHANGED <<services, options, config, pc, broken, calls>>
  BY DEF Inv, TypeOK, ScanNext
<1>2. scan.types \in Seq(Types) /\ DOMAIN scan.types = 1..Len(scan.types) /\ n \in Nat
      /\ Len(scan.types) \in Nat
  BY <1>1, LenProperties
<1>3. /\ scan'.next = n + 1 /\ scan'.types = scan.types /\ scan'.accepted = scan.accepted
      /\ scan' \in [types : Seq(Types), accepted : Filters \cup {{}}, next : Nat \ {0}]
      /\ scan'.next \in 1..Len(scan'.types) + 1
  BY <1>1, <1>2
<1>4. t \in Types
  BY <1>1, <1>2, ElementOfSeq
<1>5. Sound(t, todo')
  BY <1>1, <1>4, OpenSound, RolesSound, EmptySound DEF When
<1>6. \A i \in 1..Len(todo') : todo'[i].class = t
  BY <1>5 DEF Sound, Proper
<1>7. DOMAIN todo' = 1..Len(todo')
  BY <1>5, LenProperties DEF Sound, Proper
<1>8. ScanFindsAllRoles'
  <2> SUFFICES ASSUME NEW i \in 1..n, NEW u, u = scan.types[i], Selected(u), u \notin Open
               PROVE  Covered(u)'
    BY <1>2, <1>3 DEF ScanFindsAllRoles, Selected, Covered, Has, WillHave, Registered
  <2>1. CASE i = n
    <3>1. u = t /\ todo' = RegisterRoles(u) /\ u \in Types
      BY <2>1, <1>1, <1>4 DEF When
    <3>2. \A s : Provides(RegisterRoles(u), s) => WillHave(u, s)'
      BY <3>1, <1>6, <1>7 DEF Provides, WillHave
    <3>3. \A g \in Handled : g \in Generic
      BY DEF Generic
    <3>4. "IExceptionHandler<>" \in Generic
      BY DEF Generic
    <3>5. \A g \in Generic : \A a \in Arguments :
            Serves(u, Service(g, a)) => WillHave(u, Service(g, a))'
      BY <3>1, <3>2, RolesContain
    <3>6. "IExceptionHandler" \in Plain[u] =>
            WillHave(u, Service("IExceptionHandler", NoArgument))'
      BY <3>1, <3>2, RolesContain
    <3> QED
      BY <3>3, <3>4, <3>5, <3>6 DEF Covered
  <2>2. CASE i # n
    <3>1. i \in 1..scan.next - 1 /\ i \in 1..Len(scan.types)
      BY <2>2, <1>1, <1>2
    <3>2. Covered(u) /\ u \in Types
      BY <3>1, <1>2, ElementOfSeq DEF Inv, ScanFindsAllRoles
    <3>3. \A v, s : ~WillHave(v, s)
      BY <1>1, EmptySeq DEF WillHave
    <3>4. (\A v, s : Has(v, s)' <=> Has(v, s)) /\ (\A s : Registered(s)' <=> Registered(s))
      BY <1>1 DEF Has, Registered
    <3> QED
      BY <3>2, <3>3, <3>4, CoveredKept
  <2> QED
    BY <2>1, <2>2
<1>9. t \in Classes
  BY <1>4 DEF Classes
<1> QED
  BY <1>1, <1>3, <1>5, <1>8, <1>9
-----------------------------------------------------------------------------
(* Methods that begin or end.                                               *)

\* The library's own services are sound.
LEMMA LibrarySound ==
  /\ Sound(Library, LibraryServices(MediatorServices))
  /\ Sound(Library, LibraryServices(BackgroundServices))
<1>1. ASSUME NEW interfaces, NEW n \in Nat, DOMAIN interfaces = 1..n,
             \A i \in 1..n : interfaces[i] \in LibraryInterfaces
      PROVE  Sound(Library, LibraryServices(interfaces))
  <2> DEFINE rs == LibraryServices(interfaces)
  <2> DEFINE Plan(x) == Registration("try", Service(x, NoArgument), Library)
  <2>1. ASSUME NEW x \in LibraryInterfaces
        PROVE  /\ Plan(x) \in Registrations /\ Plan(x).class = Library
               /\ Item(Plan(x)) /\ Plan(x).service \notin Of(Handled) /\ Plan(x).service # Marker
               /\ Plan(x).service \notin Enumerated
    <3> DEFINE s == Service(x, NoArgument)
    <3>1. /\ s.interface = x /\ s.argument = NoArgument
          /\ s \in Services /\ s \in Unbound(LibraryInterfaces)
      BY DEF Service, Services, Interfaces, Unbound
    <3>2. Plan(x).how = "try" /\ Plan(x).service = s /\ Plan(x).class = Library
      BY DEF Registration
    <3>3. Plan(x) \in Registrations
      BY <3>1 DEF Registration, Registrations, Classes
    <3>4. s \notin Of(Handled) /\ s \notin Of(SingleHandled)
      BY <3>1, TypesAssumption DEF Of
    <3>5. x # "class"
          /\ x \notin {"IRequestHandler", "ICommandHandler", "INotificationHandler"}
      BY LibraryFacts
    <3>6. s # Self(Library) /\ s # Marker /\ s \notin Enumerated
      BY <3>1, <3>5, TypesAssumption DEF Self, Marker, Service, Enumerated, Of, Unbound
    <3>7. Serves(Library, s)
      BY <3>1 DEF Serves
    <3> HIDE DEF Plan
    <3>8. Item(Plan(x))
      BY <3>2, <3>4, <3>6, <3>7 DEF Item
    <3> QED
      BY <3>2, <3>3, <3>4, <3>6, <3>8
  <2>2. rs = [i \in 1..n |-> Plan(interfaces[i])]
    BY <1>1 DEF LibraryServices
  <2> HIDE DEF Plan, rs
  <2>3. rs \in [1..n -> Registrations] /\ \A i \in 1..n : rs[i] = Plan(interfaces[i])
    BY <1>1, <2>1, <2>2
  <2>4. rs \in Seq(Registrations) /\ Len(rs) = n
    BY <2>3
  <2>5. Proper(Library, rs) /\ Complete(Library, rs)
    BY <1>1, <2>1, <2>3, <2>4 DEF Proper, Complete
  <2>6. \A i \in 1..Len(rs) : rs[i].service # Marker /\ rs[i].service \notin Enumerated
    BY <1>1, <2>1, <2>3, <2>4
  <2> QED
    BY <2>5, <2>6, UnmarkedOrdered, UnenumeratedEarly DEF Sound, rs
<1>2. DOMAIN MediatorServices = 1..7 /\ DOMAIN BackgroundServices = 1..2
  BY DEF MediatorServices, BackgroundServices
<1>3. /\ \A i \in 1..7 : MediatorServices[i] \in LibraryInterfaces
      /\ \A i \in 1..2 : BackgroundServices[i] \in LibraryInterfaces
  BY <1>2 DEF LibraryInterfaces
<1> QED
  BY <1>1, <1>2, <1>3

\* The methods that register set out with a sound plan, or refuse.
LEMMA HandlerCall ==
  ASSUME NEW t \in Types, AddHandler(t)
  PROVE  /\ Call
         /\ Refuse \/ \E rs : Sound(t, rs) /\ Register(rs)
<1>1. CASE AddRequestHandler(t)
  <2>1. ASSUME ImplementsOpenGeneric(t, "IRequestHandler<,>")
        PROVE  Sound(t, Only("add", "IRequestHandler<,>", t))
    BY <2>1, OnlyFacts DEF Generic, Handled, SingleHandled
  <2> QED
    BY <1>1, <2>1, RequestCoreSound DEF AddRequestHandler
<1>2. CASE AddCommandHandler(t)
  <2>1. ASSUME ImplementsOpenGeneric(t, "ICommandHandler<,>")
        PROVE  Sound(t, Only("add", "ICommandHandler<,>", t))
    BY <2>1, OnlyFacts DEF Generic, Handled, SingleHandled
  <2>2. ASSUME ImplementsOpenGeneric(t, "ICommandHandler<>")
        PROVE  Sound(t, Only("add", "ICommandHandler<>", t))
    BY <2>2, OnlyFacts DEF Generic, Handled, SingleHandled
  <2> QED
    BY <1>2, <2>1, <2>2, CommandCoreSound DEF AddCommandHandler, AddOpenCommandHandler
<1>3. CASE AddNotificationHandler(t)
  <2>1. ASSUME ImplementsOpenGeneric(t, "INotificationHandler<>")
        PROVE  Sound(t, Only("add", "INotificationHandler<>", t))
    BY <2>1, OnlyFacts DEF Generic, Handled, SingleHandled
  <2> QED
    BY <1>3, <2>1, NotificationCoreSound DEF AddNotificationHandler
<1>4. CASE AddExceptionHandler(t)
  <2>1. ASSUME "IExceptionHandler" \in Plain[t]
        PROVE  Sound(t, Only("try", "IExceptionHandler", t))
    BY <2>1, OnlyFacts DEF PlainInterfaces
  <2> QED
    BY <1>4, <2>1, ExceptionsSound DEF AddExceptionHandler
<1> QED
  BY <1>1, <1>2, <1>3, <1>4 DEF AddHandler

\* The state of the methods apart from what they register.
Control ==
  /\ options \in Strategies /\ config \in Strategies
  /\ pc \in {"outside", "configure", "mediator", "register", "scan"}
  /\ pc \in {"outside", "configure"} => todo = <<>>
  /\ pc # "scan" => scan = NoScan
  /\ scan \in [types : Seq(Types), accepted : Filters \cup {{}}, next : Nat \ {0}]
  /\ scan.next \in 1..(Len(scan.types) + 1)
  /\ calls \in 0..MaxCalls

\* Without a scan there are no types to pass.
LEMMA NoScanFacts ==
  /\ NoScan \in [types : Seq(Types), accepted : Filters \cup {{}}, next : Nat \ {0}]
  /\ NoScan.next = 1 /\ NoScan.types = <<>> /\ 1 \in 1..(Len(NoScan.types) + 1)
  BY EmptySeq DEF NoScan

\* All of them find nothing to be registered, and leave something sound.
LEMMA MethodStep ==
  ASSUME Inv,
         \/ AddMediator \/ SetDefaultStrategy \/ ConfigureReturns \/ MediatorAdded
         \/ \E t \in Types : AddHandler(t)
         \/ AddBackgroundCommandProcessing
         \/ \E types \in Assemblies, accepted \in Filters :
              AddHandlersFromAssembly(types, accepted)
         \/ Return
  PROVE  /\ todo = <<>> /\ services' = services /\ broken' = broken
         /\ \E t \in Classes : Sound(t, todo')
         /\ Control' /\ ScanFindsAllRoles'
<1> USE DEF Inv, TypeOK
<1>1. ASSUME scan' = NoScan \/ scan'.next = 1 PROVE ScanFindsAllRoles'
  <2>1. scan'.next = 1
    BY <1>1, NoScanFacts
  <2> QED
    BY <2>1 DEF ScanFindsAllRoles
<1>2. Library \in Classes /\ Sound(Library, <<>>) /\ Types \subseteq Classes
  BY EmptySound DEF Classes
<1>3. CASE AddMediator
  BY <1>1, <1>2, <1>3, CallsAssumption DEF AddMediator, Control
<1>4. CASE SetDefaultStrategy
  BY <1>1, <1>2, <1>4 DEF SetDefaultStrategy, Control
<1>5. CASE ConfigureReturns
  BY <1>1, <1>2, <1>5, LibrarySound DEF ConfigureReturns, Control
<1>6. CASE MediatorAdded
  BY <1>1, <1>2, <1>6 DEF MediatorAdded, Control
<1>7. ASSUME Call PROVE calls' \in 0..MaxCalls /\ pc = "configure"
  BY <1>7, CallsAssumption DEF Call
<1>8. ASSUME NEW t \in Classes, NEW rs, Sound(t, rs), Call, Register(rs)
      PROVE  /\ todo = <<>> /\ services' = services /\ broken' = broken
             /\ Sound(t, todo') /\ Control' /\ ScanFindsAllRoles'
  BY <1>1, <1>7, <1>8 DEF Register, Control
<1>9. CASE \E t \in Types : AddHandler(t)
  <2>1. PICK t \in Types : AddHandler(t)
    BY <1>9
  <2>2. CASE Refuse
    BY <1>1, <1>2, <1>7, <2>1, <2>2, HandlerCall, NoScanFacts DEF Refuse, Throw, Control
  <2>3. CASE \E rs : Sound(t, rs) /\ Register(rs)
    BY <1>2, <1>8, <2>1, <2>3, HandlerCall
  <2> QED
    BY <2>1, <2>2, <2>3, HandlerCall
<1>10. CASE AddBackgroundCommandProcessing
  BY <1>2, <1>8, <1>10, LibrarySound DEF AddBackgroundCommandProcessing
<1>11. CASE \E types \in Assemblies, accepted \in Filters :
              AddHandlersFromAssembly(types, accepted)
  <2>1. PICK types \in Assemblies, accepted \in Filters :
          AddHandlersFromAssembly(types, accepted)
    BY <1>11
  <2>2. types \in Seq(Types) /\ Len(types) \in Nat
    BY CallsAssumption, LenProperties
  <2>3. /\ Call /\ pc' = "scan"
        /\ scan' = [types |-> types, accepted |-> accepted, next |-> 1]
        /\ UNCHANGED <<services, options, config, todo, broken>>
    BY <2>1 DEF AddHandlersFromAssembly
  <2>4. /\ scan'.types = types /\ scan'.next = 1
        /\ scan' \in [types : Seq(Types), accepted : Filters \cup {{}}, next : Nat \ {0}]
    BY <2>2, <2>3
  <2> QED
    BY <1>1, <1>2, <1>7, <2>2, <2>3, <2>4 DEF Control
<1>12. CASE Return
  BY <1>1, <1>2, <1>12, NoScanFacts DEF Return, Control
<1> QED
  BY <1>3, <1>4, <1>5, <1>6, <1>9, <1>10, <1>11, <1>12
-----------------------------------------------------------------------------
\* The two halves of the type invariant.
LEMMA TypeParts ==
  ASSUME Control, broken \subseteq Types,
         services \in Seq([service : Services, class : Classes]),
         \A i \in DOMAIN services : Serves(services[i].class, services[i].service),
         todo \in Seq(Registrations),
         \A i \in DOMAIN todo : Serves(todo[i].class, todo[i].service)
  PROVE  TypeOK
  BY DEF TypeOK, Control

\* An empty service collection satisfies the invariant.
LEMMA InitEstablishes == Init => Inv
<1> SUFFICES ASSUME Init PROVE Inv
  OBVIOUS
<1>1. /\ services = <<>> /\ todo = <<>> /\ scan = NoScan /\ DOMAIN services = {}
      /\ DOMAIN todo = {} /\ Len(todo) = 0
  BY EmptySeq DEF Init
<1>2. TypeOK
  BY <1>1, CallsAssumption, NoScanFacts, EmptySeq DEF Init, TypeOK
<1>3. SingleHandler /\ FirstOnce
  BY <1>1 DEF SingleHandler, FirstOnce, Once
<1>4. /\ HandlersResolvable /\ SelfToCome /\ MarkersServed
      /\ EnumerationsResolve /\ ClassesComeFirst
  BY <1>1 DEF HandlersResolvable, SelfToCome, MarkersServed, EnumerationsResolve,
     ClassesComeFirst
<1>5. Pending
  BY <1>1, EmptySound DEF Pending, Sound, Classes
<1>6. ScanFindsAllRoles
  BY <1>1, NoScanFacts DEF ScanFindsAllRoles
<1> QED
  BY <1>2, <1>3, <1>4, <1>5, <1>6 DEF Inv, Core

\* A method that begins or ends, or a scan that comes to its next class.
LEMMA QuietPreserves ==
  ASSUME Inv, todo = <<>>, services' = services, broken' = broken,
         NEW t \in Classes, Sound(t, todo'), Control', ScanFindsAllRoles'
  PROVE  Inv'
<1>1. Core' /\ \A i \in DOMAIN todo' : Serves(todo'[i].class, todo'[i].service)
  BY BeginKeepsCore DEF Inv
<1>2. todo' \in Seq(Registrations)
  BY DEF Sound, Proper
<1>3. TypeOK'
  BY <1>1, <1>2, TypeParts DEF Inv, TypeOK, Control
<1> QED
  BY <1>1, <1>3 DEF Inv

\* A registration that is made keeps the invariant.
LEMMA AddPreserves ==
  ASSUME Inv, Add
  PROVE  Inv'
<1>1. TypeOK /\ Core /\ Pending
  BY DEF Inv, Core
<1>2. Core' /\ ScanFindsAllRoles'
  BY <1>1, AddKeepsCore, StepKeepsScan
<1>3. /\ services' \in Seq([service : Services, class : Classes])
      /\ \A i \in DOMAIN services' : Serves(services'[i].class, services'[i].service)
  <2>1. Serves(todo[1].class, todo[1].service)
    BY <1>1, Grown, Advance DEF Item
  <2>2. \A i \in DOMAIN services : Serves(services[i].class, services[i].service)
    BY <1>1 DEF TypeOK
  <2>3. ASSUME NEW i \in DOMAIN services'
        PROVE  Serves(services'[i].class, services'[i].service)
    <3>1. CASE i \in 1..Len(services)
      <4>1. i \in DOMAIN services /\ services'[i] = services[i]
        BY <1>1, <3>1, Grown
      <4> QED
        BY <2>2, <4>1
    <3>2. CASE i = Len(services) + 1
      <4>1. /\ services'[i].class = todo[1].class
            /\ services'[i].service = todo[1].service
        BY <1>1, <3>2, Grown
      <4> QED
        BY <2>1, <4>1
    <3>3. i \in 1..Len(services) + 1 /\ Len(services) \in Nat
      BY <1>1, Grown
    <3> QED
      BY <3>1, <3>2, <3>3
  <2> QED
    BY <1>1, <2>3, Grown
<1>4. /\ todo' \in Seq(Registrations)
      /\ \A i \in DOMAIN todo' : Serves(todo'[i].class, todo'[i].service)
  <2>1. PICK t \in Classes : Proper(t, todo')
    BY <1>2 DEF Core, Pending
  <2>2. DOMAIN todo' = 1..Len(todo') /\ todo' \in Seq(Registrations)
    BY <2>1, LenProperties DEF Proper
  <2> QED
    BY <2>1, <2>2 DEF Proper, Item
<1>5. todo # <<>> /\ UNCHANGED <<options, config, pc, scan, broken, calls>>
  BY DEF Add
<1>6. Control' /\ broken' \subseteq Types
  BY <1>1, <1>5 DEF TypeOK, Control
<1>7. TypeOK'
  BY <1>3, <1>4, <1>6 DEF TypeOK, Control
<1> QED
  BY <1>2, <1>7 DEF Inv

\* A registration that TryAdd leaves out keeps the invariant.
LEMMA TryAddPreserves ==
  ASSUME Inv, TryAddFinds
  PROVE  Inv'
<1>1. TypeOK /\ Core
  BY DEF Inv
<1>2. Core' /\ ScanFindsAllRoles'
  BY <1>1, TryAddKeepsCore, StepKeepsScan
<1>3. /\ todo' \in Seq(Registrations)
      /\ \A i \in DOMAIN todo' : Serves(todo'[i].class, todo'[i].service)
  <2>1. PICK t \in Classes : Proper(t, todo')
    BY <1>2 DEF Core, Pending
  <2>2. DOMAIN todo' = 1..Len(todo') /\ todo' \in Seq(Registrations)
    BY <2>1, LenProperties DEF Proper
  <2> QED
    BY <2>1, <2>2 DEF Proper, Item
<1>4. todo # <<>> /\ UNCHANGED <<services, options, config, pc, scan, broken, calls>>
  BY DEF TryAddFinds
<1>5. TypeOK'
  BY <1>1, <1>3, <1>4 DEF TypeOK
<1> QED
  BY <1>2, <1>5 DEF Inv

\* A DuplicateHandlerException keeps the invariant.
LEMMA DuplicatePreserves ==
  ASSUME Inv, Duplicate
  PROVE  Inv'
<1>1. TypeOK /\ Core
  BY DEF Inv
<1>2. Core' /\ broken' \subseteq Types
  BY <1>1, DuplicateKeepsCore
<1>3. /\ todo' = <<>> /\ scan' = NoScan /\ pc' \in {"configure", "outside"}
      /\ UNCHANGED <<services, options, config, calls>>
  BY DEF Duplicate, Throw
<1>4. ScanFindsAllRoles'
  BY <1>3, NoScanFacts DEF ScanFindsAllRoles
<1>5. todo' \in Seq(Registrations) /\ DOMAIN todo' = {}
  BY <1>3, EmptySeq
<1>6. TypeOK'
  BY <1>1, <1>2, <1>3, <1>5, NoScanFacts DEF TypeOK
<1> QED
  BY <1>2, <1>4, <1>6 DEF Inv

\* Inv is inductive: whatever is called and whatever throws.
THEOREM Invariance == Spec => []Inv
<1>1. Init => Inv
  BY InitEstablishes
<1>2. Inv /\ [Next]_vars => Inv'
  <2> SUFFICES ASSUME Inv, [Next]_vars PROVE Inv'
    OBVIOUS
  <2>1. CASE \/ AddMediator \/ SetDefaultStrategy \/ ConfigureReturns \/ MediatorAdded
             \/ \E t \in Types : AddHandler(t)
             \/ AddBackgroundCommandProcessing
             \/ \E types \in Assemblies, accepted \in Filters :
                  AddHandlersFromAssembly(types, accepted)
             \/ Return
    BY <2>1, MethodStep, QuietPreserves
  <2>2. CASE ScanNext
    <3>1. Control'
      BY <2>2, NextKeepsScan DEF Inv, TypeOK, Control
    <3> QED
      BY <2>2, <3>1, NextKeepsScan, QuietPreserves
  <2>3. CASE Add
    BY <2>3, AddPreserves
  <2>4. CASE TryAddFinds
    BY <2>4, TryAddPreserves
  <2>5. CASE Duplicate
    BY <2>5, DuplicatePreserves
  <2>6. CASE UNCHANGED vars
    BY <2>6 DEF vars, Inv, TypeOK, Core, SingleHandler, FirstOnce, Once, HandlersResolvable,
       SelfToCome, Pending, MarkersServed, Assured, EnumerationsResolve, ClassesComeFirst,
       ScanFindsAllRoles, Selected, Covered, Has,
       WillHave, Registered
  <2> QED
    BY <2>1, <2>2, <2>3, <2>4, <2>5, <2>6 DEF Next
<1> QED
  BY <1>1, <1>2, PTL DEF Spec

\* What is registered is registered for what it implements.
THEOREM TypeCorrect == Spec => []TypeOK
  BY Invariance, PTL DEF Inv

\* No sequence of calls and scans gives a request or command a second closed handler.
THEOREM OneHandler == Spec => []SingleHandler
<1>1. Inv => SingleHandler
  BY DEF Inv, Core
<1> QED
  BY <1>1, Invariance, PTL

\* What is registered with TryAdd is never registered twice.
THEOREM FirstIsOnly == Spec => []FirstOnce
<1>1. Inv => FirstOnce
  BY DEF Inv, Core
<1> QED
  BY <1>1, Invariance, PTL

\* Only Add changes what is registered.
LEMMA OthersKeepServices ==
  ASSUME Next \/ UNCHANGED vars
  PROVE  Add \/ services' = services
<1>1. ASSUME NEW t \in Types, AddHandler(t) PROVE services' = services
  BY <1>1 DEF AddHandler, AddRequestHandler, AddCommandHandler, AddOpenCommandHandler,
     AddNotificationHandler, AddExceptionHandler, Register, Refuse, Throw
<1>2. ASSUME NEW types \in Assemblies, NEW accepted \in Filters,
             AddHandlersFromAssembly(types, accepted)
      PROVE  services' = services
  BY <1>2 DEF AddHandlersFromAssembly
<1>3. CASE AddMediator \/ SetDefaultStrategy \/ ConfigureReturns \/ MediatorAdded \/
           AddBackgroundCommandProcessing \/ ScanNext \/ Return \/ TryAddFinds \/ Duplicate
  BY <1>3 DEF AddMediator, SetDefaultStrategy, ConfigureReturns, MediatorAdded,
     AddBackgroundCommandProcessing, Register, ScanNext, Return, TryAddFinds, Duplicate, Throw
<1>4. CASE UNCHANGED vars
  BY <1>4 DEF vars
<1> QED
  BY <1>1, <1>2, <1>3, <1>4 DEF Next

\* What is registered with TryAdd is there to stay: Add comes for another service, or
\* for one that is not there yet.
THEOREM FirstRegistrationStays == Spec => FirstStays
<1> DEFINE Stays == \A s \in FirstServices : Registered(s) => Held(s)' = Held(s)
<1>1. Inv /\ [Next]_vars => [Stays]_vars
  <2> SUFFICES ASSUME Inv, Next, NEW s \in FirstServices, Registered(s)
               PROVE  Held(s)' = Held(s)
    BY DEF Held, Registered, vars
  <2>1. CASE services' = services
    BY <2>1 DEF Held
  <2>2. CASE Add
    <3>1. TypeOK /\ Pending /\ s \in OnceServices
      BY DEF Inv, Core, OnceServices
    <3>2. Item(todo[1]) /\ (todo[1].how = "add" \/ ~Registered(todo[1].service))
      BY <2>2, <3>1, Grown, Advance
    <3>3. todo[1].service # s
      BY <3>1, <3>2 DEF Item
    <3> DEFINE places == {j \in DOMAIN services : services[j].service = s}
    <3>4. {j \in DOMAIN services' : services'[j].service = s} = places
      BY <2>2, <3>1, <3>3, Grown
    <3>5. \A i \in places : services'[i] = services[i]
      BY <2>2, <3>1, Grown
    <3> HIDE DEF places
    <3>6. {<<i, services'[i]>> : i \in places} = {<<i, services[i]>> : i \in places}
      BY <3>5
    <3> QED
      BY <3>4, <3>6 DEF Held, places
  <2> QED
    BY <2>1, <2>2, OthersKeepServices
<1> QED
  BY <1>1, Invariance, PTL DEF Spec, FirstStays

\* A registered handler has its class registered, unless that registration threw.
THEOREM Resolvable == Spec => []HandlersResolvable
<1>1. Inv => HandlersResolvable
  BY DEF Inv, Core
<1> QED
  BY <1>1, Invariance, PTL

\* Whatever threw before, what is enumerated has its class registered.
THEOREM Enumerable == Spec => []EnumerationsResolve
<1>1. Inv => EnumerationsResolve
  BY DEF Inv, Core
<1> QED
  BY <1>1, Invariance, PTL

\* A notification handler is registered whole, every time.
THEOREM NotificationsArrive == Spec => []NotificationsReachHandlers
<1>1. ASSUME Inv PROVE NotificationsReachHandlers
  <2> SUFFICES ASSUME NEW i \in DOMAIN services, services[i].service = Marker,
                      NEW t, t = services[i].class,
                      NEW k \in DOMAIN Notifications(t),
                      NEW service,
                      service = Service("INotificationHandler<>", Notifications(t)[k])
               PROVE  \/ \E j \in DOMAIN services :
                           j > i /\ services[j] = [service |-> service, class |-> t]
                      \/ WillHave(t, service)
    BY DEF NotificationsReachHandlers, Marker, Notifications
  <2>1. /\ Notification(t, k).class = t /\ Notification(t, k).service = service
        /\ Descriptor(Notification(t, k)) = [service |-> service, class |-> t]
    BY DEF Notification, Descriptor, Registration
  <2>2. Assured(Notification(t, k)) => WillHave(t, service)
    BY <1>1, <2>1, Shape DEF Inv, Assured, WillHave
  <2>3. \/ \E j \in DOMAIN services : j > i /\ services[j] = Descriptor(Notification(t, k))
        \/ Assured(Notification(t, k))
    BY <1>1 DEF Inv, Core, MarkersServed
  <2> QED
    BY <2>1, <2>2, <2>3
<1>2. Inv => NotificationsReachHandlers
  BY <1>1
<1> QED
  BY <1>2, Invariance, PTL

\* A scan registers each class it passes for all of its roles.
THEOREM ScansAreComplete == Spec => []ScanFindsAllRoles
<1>1. Inv => ScanFindsAllRoles
  BY DEF Inv
<1> QED
  BY <1>1, Invariance, PTL
=============================================================================
