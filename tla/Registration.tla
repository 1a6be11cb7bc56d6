------------------------------ MODULE Registration ------------------------------
(***************************************************************************)
(* What the application registers at start-up: calls of AddMediator, and of   *)
(* MediatorConfiguration inside its configure delegate, on one                *)
(* IServiceCollection.  A call that registers a class is unfolded to its       *)
(* single registrations, because any of them may throw and what precedes it    *)
(* stays.                                                                    *)
(*                                                                          *)
(* Reflection is data: what a class implements is given by Implements and      *)
(* Plain.                                                                    *)
(***************************************************************************)
EXTENDS Integers, Sequences

CONSTANTS
  Types,        \* the classes an application has
  Open,         \* those that are generic type definitions
  Abstract,     \* those that are abstract
  Arguments,    \* type arguments of handler interfaces: a message, with its result
  Implements,   \* per class and generic interface: the arguments it is implemented for
  Plain,        \* per class: the interfaces without arguments it implements
  Assemblies,   \* what GetTypes returns, in order
  Filters,      \* what the filter of a scan may accept
  Strategies, DefaultStrategy,   \* the default strategies one can configure
  NoArgument,   \* in place of an argument: an open or plain interface
  Library,      \* in place of a class: the library's own services
  MaxCalls      \* bound: registering calls in a behaviour

SingleHandled == {"IRequestHandler<,>", "ICommandHandler<,>", "ICommandHandler<>"}
Handled == SingleHandled \cup {"INotificationHandler<>"}
Generic == Handled \cup {"IExceptionHandler<>"}
PlainInterfaces ==
  {"IRequestHandler", "ICommandHandler", "INotificationHandler", "IExceptionHandler"}
MediatorServices ==
  <<"IMediator", "IRequestSender", "ICommandSender", "INotificationSender",
    "IRequestPipeline", "ICommandPipeline", "INotificationPipeline">>
BackgroundServices == <<"ICommandsChannel", "CommandsBackgroundService">>

\* The interface without arguments that a generic handler interface extends.
Base ==
  [g \in Handled |->
     CASE g = "IRequestHandler<,>" -> "IRequestHandler"
       [] g \in {"ICommandHandler<,>", "ICommandHandler<>"} -> "ICommandHandler"
       [] g = "INotificationHandler<>" -> "INotificationHandler"]

ASSUME TypesAssumption ==
  /\ Implements \in [Types -> [Generic -> Seq(Arguments)]]
  /\ Plain \in [Types -> SUBSET PlainInterfaces]
  /\ \A t \in Types, g \in Generic : \A i, j \in DOMAIN Implements[t][g] :
       Implements[t][g][i] = Implements[t][g][j] => i = j
  /\ \A t \in Types, g \in Handled : Implements[t][g] # <<>> => Base[g] \in Plain[t]
  /\ NoArgument \notin Arguments
  /\ Open \subseteq Types /\ Library \notin Types

ASSUME CallsAssumption ==
  /\ Assemblies \subseteq Seq(Types)
  /\ DefaultStrategy \in Strategies
  /\ MaxCalls \in Nat

VARIABLES
  services,   \* the descriptors of the IServiceCollection
  options,    \* the strategy that the last services.Configure sets
  config,     \* that of the current MediatorConfiguration
  pc,         \* which method is running
  todo,       \* the registrations its current class has still to make
  scan,       \* a scan's types, the filter's choice and the next type
  broken,     \* classes whose registration threw (history)
  calls       \* registering calls so far

vars == <<services, options, config, pc, todo, scan, broken, calls>>

NoScan == [types |-> <<>>, accepted |-> {}, next |-> 1]

Init ==
  /\ services = <<>>
  /\ options = DefaultStrategy
  /\ config = DefaultStrategy
  /\ pc = "outside"
  /\ todo = <<>>
  /\ scan = NoScan
  /\ broken = {}
  /\ calls = 0
-----------------------------------------------------------------------------
(* Services, and the registrations a class needs.                           *)

Service(interface, argument) == [interface |-> interface, argument |-> argument]
Self(t) == Service("class", t)

\* how: "unique" throws if the service is there, "try" then does nothing.
Registration(how, service, t) == [how |-> how, service |-> service, class |-> t]

Each(how, t, generic) ==
  [i \in DOMAIN Implements[t][generic] |->
     Registration(how, Service(generic, Implements[t][generic][i]), t)]

Only(how, interface, t) == <<Registration(how, Service(interface, NoArgument), t)>>

SelfAndMarker(t, marker) == <<Registration("add", Self(t), t)>> \o Only("add", marker, t)

When(condition, registrations) == IF condition THEN registrations ELSE <<>>

\* Fault: the class itself is not registered.
MarkerOnly(t) ==
  Each("unique", t, "IRequestHandler<,>") \o Only("add", "IRequestHandler", t)

\* Fault: the marker comes before what may throw.
MarkerBeforeClass(t) ==
  Only("add", "IRequestHandler", t) \o Each("unique", t, "IRequestHandler<,>")
    \o <<Registration("add", Self(t), t)>>

RegisterRequestHandlerCore(t) ==
  Each("unique", t, "IRequestHandler<,>") \o SelfAndMarker(t, "IRequestHandler")

\* Fault: the second loop lacks the check of the first.
UncheckedSecondLoop(t) ==
  Each("unique", t, "ICommandHandler<,>") \o Each("add", t, "ICommandHandler<>")
    \o SelfAndMarker(t, "ICommandHandler")

RegisterCommandHandlerCore(t) ==
  Each("unique", t, "ICommandHandler<,>") \o Each("unique", t, "ICommandHandler<>")
    \o SelfAndMarker(t, "ICommandHandler")

\* Fault: a notification that has a handler gets no other.
TriesNotifications(t) ==
  SelfAndMarker(t, "INotificationHandler") \o Each("try", t, "INotificationHandler<>")

RegisterNotificationHandlerCore(t) ==
  SelfAndMarker(t, "INotificationHandler") \o Each("add", t, "INotificationHandler<>")

\* Fault: exception handlers are added like others.
AddsTypedExceptionHandlers(t) == Each("add", t, "IExceptionHandler<>")

RegisterTypedExceptionHandlerInterfaces(t) == Each("try", t, "IExceptionHandler<>")

\* Fault: any generic type definition will do.
AnyOpenGeneric(t, generic) == t \in Open

ImplementsOpenGeneric(t, generic) == t \in Open /\ Implements[t][generic] # <<>>

RegisterOpenGenericIfApplicable(t) ==
  When(ImplementsOpenGeneric(t, "IRequestHandler<,>"), Only("add", "IRequestHandler<,>", t))
    \o (IF ImplementsOpenGeneric(t, "ICommandHandler<,>")
        THEN Only("add", "ICommandHandler<,>", t)
        ELSE When(ImplementsOpenGeneric(t, "ICommandHandler<>"),
                  Only("add", "ICommandHandler<>", t)))
    \o When(ImplementsOpenGeneric(t, "INotificationHandler<>"),
            Only("add", "INotificationHandler<>", t))
    \o When(ImplementsOpenGeneric(t, "IExceptionHandler<>"),
            Only("try", "IExceptionHandler<>", t))

\* Fault: a class plays one role only.
FirstRole(t) ==
  IF "IRequestHandler" \in Plain[t] THEN RegisterRequestHandlerCore(t)
  ELSE IF "ICommandHandler" \in Plain[t] THEN RegisterCommandHandlerCore(t)
  ELSE When("INotificationHandler" \in Plain[t], RegisterNotificationHandlerCore(t))

\* What a scan registers of a class that is not a generic type definition.
RegisterRoles(t) ==
  When("IRequestHandler" \in Plain[t], RegisterRequestHandlerCore(t))
    \o When("ICommandHandler" \in Plain[t], RegisterCommandHandlerCore(t))
    \o When("INotificationHandler" \in Plain[t], RegisterNotificationHandlerCore(t))
    \o When("IExceptionHandler" \in Plain[t], Only("try", "IExceptionHandler", t))
    \o RegisterTypedExceptionHandlerInterfaces(t)
-----------------------------------------------------------------------------
(* AddMediator and its configure delegate.                                  *)

AddMediator ==
  /\ pc = "outside"
  /\ pc' = "configure"
  /\ config' = DefaultStrategy
  /\ UNCHANGED <<services, options, todo, scan, broken, calls>>

SetDefaultStrategy ==
  /\ pc = "configure"
  /\ config' \in Strategies
  /\ UNCHANGED <<services, options, pc, todo, scan, broken, calls>>

LibraryServices(interfaces) ==
  [i \in DOMAIN interfaces |-> Registration("try", Service(interfaces[i], NoArgument), Library)]

\* The delegate returns: AddMediator registers the options and its own services.
ConfigureReturns ==
  /\ pc = "configure"
  /\ pc' = "mediator"
  /\ options' = config
  /\ todo' = LibraryServices(MediatorServices)
  /\ UNCHANGED <<services, config, scan, broken, calls>>

MediatorAdded ==
  /\ pc = "mediator" /\ todo = <<>>
  /\ pc' = "outside"
  /\ UNCHANGED <<services, options, config, todo, scan, broken, calls>>

\* An exception ends the method; the delegate catches it, or AddMediator ends too.
Throw ==
  /\ pc' \in {"configure", "outside"}
  /\ todo' = <<>>
  /\ scan' = NoScan
  /\ UNCHANGED <<services, options, config>>
-----------------------------------------------------------------------------
(* The methods of MediatorConfiguration that register.                      *)

Call == pc = "configure" /\ calls < MaxCalls /\ calls' = calls + 1

Register(registrations) ==
  /\ pc' = "register"
  /\ todo' = registrations
  /\ UNCHANGED <<services, options, config, scan, broken>>

\* An ArgumentException: no class is left half registered.
Refuse == Throw /\ UNCHANGED broken

AddRequestHandler(t) ==
  /\ Call
  /\ \/ /\ ImplementsOpenGeneric(t, "IRequestHandler<,>")
        /\ Register(Only("add", "IRequestHandler<,>", t))
     \/ t \in Open /\ ~ImplementsOpenGeneric(t, "IRequestHandler<,>") /\ Refuse
     \/ /\ t \notin Open /\ "IRequestHandler" \in Plain[t]
        /\ Register(RegisterRequestHandlerCore(t))
     \/ t \notin Open /\ "IRequestHandler" \notin Plain[t] /\ Refuse

AddOpenCommandHandler(t) ==
  \/ /\ ImplementsOpenGeneric(t, "ICommandHandler<,>")
     /\ Register(Only("add", "ICommandHandler<,>", t))
  \/ /\ ~ImplementsOpenGeneric(t, "ICommandHandler<,>")
     /\ IF ImplementsOpenGeneric(t, "ICommandHandler<>")
        THEN Register(Only("add", "ICommandHandler<>", t)) ELSE Refuse

AddCommandHandler(t) ==
  /\ Call
  /\ \/ t \in Open /\ AddOpenCommandHandler(t)
     \/ /\ t \notin Open /\ "ICommandHandler" \in Plain[t]
        /\ Register(RegisterCommandHandlerCore(t))
     \/ t \notin Open /\ "ICommandHandler" \notin Plain[t] /\ Refuse

AddNotificationHandler(t) ==
  /\ Call
  /\ \/ /\ ImplementsOpenGeneric(t, "INotificationHandler<>")
        /\ Register(Only("add", "INotificationHandler<>", t))
     \/ t \in Open /\ ~ImplementsOpenGeneric(t, "INotificationHandler<>") /\ Refuse
     \/ /\ t \notin Open /\ "INotificationHandler" \in Plain[t]
        /\ Register(RegisterNotificationHandlerCore(t))
     \/ t \notin Open /\ "INotificationHandler" \notin Plain[t] /\ Refuse

\* The type parameters of both overloads admit implementations only.
AddExceptionHandler(t) ==
  /\ Call /\ t \notin Open
  /\ \/ "IExceptionHandler" \in Plain[t] /\ Register(Only("try", "IExceptionHandler", t))
     \/ \E i \in DOMAIN Implements[t]["IExceptionHandler<>"] :
          Register(<<Each("try", t, "IExceptionHandler<>")[i]>>)

\* AddHostedService adds a service class at most once.
AddBackgroundCommandProcessing ==
  /\ Call
  /\ Register(LibraryServices(BackgroundServices))

AddHandlersFromAssembly(types, accepted) ==
  /\ Call
  /\ pc' = "scan"
  /\ scan' = [types |-> types, accepted |-> accepted, next |-> 1]
  /\ UNCHANGED <<services, options, config, todo, broken>>

Selected(t) == t \notin Abstract /\ t \in scan.accepted

ScanNext ==
  /\ pc = "scan" /\ todo = <<>> /\ scan.next \in DOMAIN scan.types
  /\ LET t == scan.types[scan.next] IN
       todo' = When(Selected(t), IF t \in Open THEN RegisterOpenGenericIfApplicable(t)
                                 ELSE RegisterRoles(t))
  /\ scan' = [scan EXCEPT !.next = @ + 1]
  /\ UNCHANGED <<services, options, config, pc, broken, calls>>

Return ==
  /\ pc \in {"register", "scan"} /\ todo = <<>>
  /\ scan.next \notin DOMAIN scan.types
  /\ pc' = "configure"
  /\ scan' = NoScan
  /\ UNCHANGED <<services, options, config, todo, broken, calls>>
-----------------------------------------------------------------------------
(* One registration.                                                        *)

Registered(service) == \E i \in DOMAIN services : services[i].service = service

Descriptor(r) == [service |-> r.service, class |-> r.class]

Add ==
  /\ todo # <<>>
  /\ Head(todo).how = "add" \/ ~Registered(Head(todo).service)
  /\ services' = Append(services, Descriptor(Head(todo)))
  /\ todo' = Tail(todo)
  /\ UNCHANGED <<options, config, pc, scan, broken, calls>>

TryAddFinds ==
  /\ todo # <<>>
  /\ Head(todo).how = "try" /\ Registered(Head(todo).service)
  /\ todo' = Tail(todo)
  /\ UNCHANGED <<services, options, config, pc, scan, broken, calls>>

\* A DuplicateHandlerException.
Duplicate ==
  /\ todo # <<>>
  /\ Head(todo).how = "unique" /\ Registered(Head(todo).service)
  /\ broken' = broken \cup {Head(todo).class}
  /\ Throw
  /\ UNCHANGED calls
-----------------------------------------------------------------------------
AddHandler(t) ==
  \/ AddRequestHandler(t) \/ AddCommandHandler(t) \/ AddNotificationHandler(t)
  \/ AddExceptionHandler(t)

Next ==
  \/ AddMediator \/ SetDefaultStrategy \/ ConfigureReturns \/ MediatorAdded
  \/ \E t \in Types : AddHandler(t)
  \/ AddBackgroundCommandProcessing
  \/ \E types \in Assemblies, accepted \in Filters : AddHandlersFromAssembly(types, accepted)
  \/ ScanNext \/ Return
  \/ Add \/ TryAddFinds \/ Duplicate

Spec == Init /\ [][Next]_vars
-----------------------------------------------------------------------------
(* Properties.                                                              *)

Of(interfaces) == [interface : interfaces, argument : Arguments]
Unbound(interfaces) == [interface : interfaces, argument : {NoArgument}]

LibraryInterfaces ==
  {MediatorServices[i] : i \in DOMAIN MediatorServices} \cup
  {BackgroundServices[i] : i \in DOMAIN BackgroundServices}

Interfaces == Generic \cup PlainInterfaces \cup LibraryInterfaces \cup {"class"}
Services ==
  [interface : Interfaces, argument : Arguments \cup Types \cup {NoArgument}]

Classes == Types \cup {Library}
Registrations == [how : {"unique", "try", "add"}, service : Services, class : Classes]

\* Whether class t implements what it is to be resolved for.
Serves(t, service) ==
  \/ t = Library /\ service \in Unbound(LibraryInterfaces)
  \/ t \in Types /\ service = Self(t)
  \/ t \in Types /\ service \in Unbound(PlainInterfaces) /\ service.interface \in Plain[t]
  \/ /\ t \in Types /\ service \in Of(Generic)
     /\ \E i \in DOMAIN Implements[t][service.interface] :
          Implements[t][service.interface][i] = service.argument
  \/ /\ t \in Open /\ service \in Unbound(Generic)
     /\ Implements[t][service.interface] # <<>>

\* Whatever is registered, or about to be, names a class that implements it; an
\* open class never stands for an interface it only resembles.
TypeOK ==
  /\ services \in Seq([service : Services, class : Classes])
  /\ \A i \in DOMAIN services : Serves(services[i].class, services[i].service)
  /\ todo \in Seq(Registrations)
  /\ \A i \in DOMAIN todo : Serves(todo[i].class, todo[i].service)
  /\ options \in Strategies /\ config \in Strategies
  /\ pc \in {"outside", "configure", "mediator", "register", "scan"}
  /\ pc \in {"outside", "configure"} => todo = <<>>
  /\ pc # "scan" => scan = NoScan
  /\ scan \in [types : Seq(Types), accepted : Filters \cup {{}}, next : Nat \ {0}]
  /\ scan.next \in 1..(Len(scan.types) + 1)
  /\ broken \subseteq Types
  /\ calls \in 0..MaxCalls

Once(services_) ==
  \A i, j \in DOMAIN services :
    services[i].service = services[j].service /\ services[i].service \in services_ => i = j

\* "exactly one handler": no request or command gets a second closed handler, by
\* whatever calls and scans, also where some of them threw half way.
SingleHandler == Once(Of(SingleHandled))

FirstServices ==
  Of({"IExceptionHandler<>"})
    \cup Unbound({"IExceptionHandler", "IExceptionHandler<>"} \cup LibraryInterfaces)

\* The registrations of a service, each with its place in the collection.
Held(service) ==
  {<<i, services[i]>> : i \in {j \in DOMAIN services : services[j].service = service}}

\* Once there is an exception handler for a message, a global one, a channel or a
\* pipeline, it stays the only one, and stays what it is: no call, scan or second
\* AddMediator adds another beside it or puts its own in its place.
FirstStays ==
  [][\A s \in FirstServices : Registered(s) => Held(s)' = Held(s)]_vars

Has(t, service) == \E i \in DOMAIN services : services[i] = [service |-> service, class |-> t]

WillHave(t, service) ==
  \E i \in DOMAIN todo : todo[i].class = t /\ todo[i].service = service

\* A registered handler can be resolved, which takes the class besides the
\* interface: only a DuplicateHandlerException of that class leaves it without.
HandlersResolvable ==
  \A i \in DOMAIN services :
    LET t == services[i].class IN
      services[i].service \in Of(Handled) =>
        Has(t, Self(t)) \/ WillHave(t, Self(t)) \/ t \in broken

\* What a publish enumerates, and the markers anyone may enumerate.
Enumerated ==
  Of({"INotificationHandler<>"})
    \cup Unbound({"IRequestHandler", "ICommandHandler", "INotificationHandler"})

\* A call that threw half way leaves nothing behind that an enumeration trips over:
\* GetServices resolves all of them or throws, so one handler of a notification that
\* lacks its class would end every publish of it, for the other handlers too.  What
\* is left of a class that broke are closed request and command interfaces only.
EnumerationsResolve ==
  \A i \in DOMAIN services :
    services[i].service \in Enumerated => Has(services[i].class, Self(services[i].class))

\* A notification handler that is registered is registered for all of its
\* notifications, each time, whatever other handlers and duplicates there are.
NotificationsReachHandlers ==
  \A i \in DOMAIN services :
    LET t == services[i].class IN
      services[i].service = Service("INotificationHandler", NoArgument) =>
        \A k \in DOMAIN Implements[t]["INotificationHandler<>"] :
          LET service == Service("INotificationHandler<>",
                                 Implements[t]["INotificationHandler<>"][k]) IN
            \/ \E j \in DOMAIN services :
                 j > i /\ services[j] = [service |-> service, class |-> t]
            \/ WillHave(t, service)

\* What a class that a scan accepts has been registered for.
Covered(t) ==
  /\ \A g \in Handled, a \in Arguments :
       Serves(t, Service(g, a)) => Has(t, Service(g, a)) \/ WillHave(t, Service(g, a))
  /\ \A a \in Arguments :
       LET service == Service("IExceptionHandler<>", a) IN
         Serves(t, service) => Registered(service) \/ WillHave(t, service)
  /\ "IExceptionHandler" \in Plain[t] =>
       LET service == Service("IExceptionHandler", NoArgument) IN
         Registered(service) \/ WillHave(t, service)

\* A scan gets every class it has passed into all of its roles, or has thrown: one
\* that handles requests and notifications and exceptions is found for each.
ScanFindsAllRoles ==
  \A i \in 1..(scan.next - 1) :
    LET t == scan.types[i] IN Selected(t) /\ t \notin Open => Covered(t)

\* "Exactly one handler must be registered", and a DuplicateHandlerException is
\* "thrown when more than one handler is registered for a message type that expects
\* exactly one handler": no two classes stand for the same request or command
\* interface, the open ones included.
OneClassHandles ==
  \A i, j \in DOMAIN services :
    LET service == services[i].service IN
      service = services[j].service
        /\ service \in Of(SingleHandled) \cup Unbound(SingleHandled) =>
          services[i].class = services[j].class

\* "Open generic type definitions and abstract classes are skipped automatically":
\* a scan registers no class that is a generic type definition.
ScanSkipsOpenGenerics ==
  pc = "scan" => \A i \in DOMAIN todo : todo[i].class \notin Open
=============================================================================
