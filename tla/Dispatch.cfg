CONSTANT Messages = {get, run, lost}
CONSTANT Requests = {get}
CONSTANT Unresolvable = {lost}
CONSTANT Resulting = {get, run}
CONSTANT ValueResult = {run}
CONSTANT Typed = {run, lost}
CONSTANT HasGlobal = TRUE
CONSTANT MaxDepth = 3
CONSTANT None = None
SPECIFICATION Spec
INVARIANT TypeOK
INVARIANT OnlyDeclinedExceptionsEscape
INVARIANT SwallowedInOrder
INVARIANT CancellationIsNotSwallowed
