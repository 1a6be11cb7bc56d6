---------------------------- MODULE MCRegistration ----------------------------
(* A small application: handlers that compete for a request and a command,     *)
(* one that plays two roles, two exception handlers, open classes and an        *)
(* abstract one.                                                                  *)
EXTENDS Registration, TLC

CONSTANTS ask, askTell, run, rerun, hear, guard, any, every, base, a, b

MCImplements ==
  LET none == [g \in Generic |-> <<>>] IN
    [t \in Types |->
       CASE t \in {ask, base} -> [none EXCEPT !["IRequestHandler<,>"] = <<a>>]
         [] t = askTell -> [none EXCEPT !["IRequestHandler<,>"] = <<b, a>>,
                                        !["INotificationHandler<>"] = <<a>>,
                                        !["IExceptionHandler<>"] = <<b>>]
         [] t = run -> [none EXCEPT !["ICommandHandler<>"] = <<a>>]
         [] t = rerun -> [none EXCEPT !["ICommandHandler<,>"] = <<b>>,
                                      !["ICommandHandler<>"] = <<a>>]
         [] t = hear -> [none EXCEPT !["INotificationHandler<>"] = <<a, b>>]
         [] t = guard -> [none EXCEPT !["IExceptionHandler<>"] = <<a, b>>]
         [] t = every -> [none EXCEPT !["IRequestHandler<,>"] = <<a>>]
         [] t = any -> [none EXCEPT !["IRequestHandler<,>"] = <<a>>,
                                    !["ICommandHandler<>"] = <<a>>,
                                    !["INotificationHandler<>"] = <<a>>,
                                    !["IExceptionHandler<>"] = <<a>>]]

MCPlain ==
  [t \in Types |->
     CASE t \in {ask, base, every} -> {"IRequestHandler"}
       [] t = any -> {"IRequestHandler", "ICommandHandler", "INotificationHandler"}
       [] t = askTell -> {"IRequestHandler", "INotificationHandler", "IExceptionHandler"}
       [] t \in {run, rerun} -> {"ICommandHandler"}
       [] t = hear -> {"INotificationHandler"}
       [] t = guard -> {"IExceptionHandler"}]

MCAssemblies == {<<ask, base, any, hear, askTell, guard>>, <<rerun, run>>}

MCFilters == {Types, {any, askTell, guard, rerun}}
=============================================================================
