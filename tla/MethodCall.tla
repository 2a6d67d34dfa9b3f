------------------------------ MODULE MethodCall ------------------------------
(***************************************************************************)
(* Calls across the bridge, in both directions and inside each other: a    *)
(* script calls a method of a wrapped object (XJSCallMethod), uses one of  *)
(* its properties (XJSGetPropertyImpl, XJSSetPropertyImpl), calls a        *)
(* wrapped block (XJSCallImpl) or constructs an object (XJSConstructor),   *)
(* the native code it reaches sends a message to a JS object that stands   *)
(* for an Objective-C protocol or class (XJSAdopter), the JS function runs *)
(* and calls a method in turn.  What is at stake is what a call takes      *)
(* across: the right selector, the right number, and a failure in the form *)
(* the other side knows, an exception that is pending in the JSContext     *)
(* there and an NSException here.                                          *)
(***************************************************************************)
EXTENDS SelectorSearch, Conversion

CONSTANTS
  Name,       \* names that scripts call, sequences of characters
  Selector,   \* selectors that native code sends to adopters
  MaxArgs,    \* bound: arguments of a call
  MaxDepth,   \* bound: calls inside each other
  None

ASSUME NameAssumption == Name \subseteq (Seq(Character) \ {<<>>}) /\ Selector \subseteq Name
ASSUME BoundsAssumption ==
  MaxArgs \in Nat \ {0} /\ MaxDepth \in Nat /\ \A sel \in Selector : Colons(sel) <= MaxArgs
ASSUME NoneAssumption == None # NoSelector /\ {None, NoSelector} \cap Seq(Character) = {}

VARIABLES
  outer,     \* who makes the outermost calls: "script" or "program"
  convertible, \* every object that native code hands over can become a JS value
  frames,    \* the calls in progress, outermost first
  control,   \* what the innermost code does, see below
  pending,   \* an exception is pending in the JSContext
  dropped,   \* history: while it is, somebody went on without looking at it
  mute,      \* history: the script is being left by a failure that set no exception
  number     \* a number that a script got from native code and gave back

vars == <<outer, convertible, frames, control, pending, dropped, mute, number>>

\* "script": a script runs; "unwinding": it is being left; "native": native code runs, of
\* the bridge or of the program; "raising": an NSException is in flight there;
\* "escaped": one has left the bridge into the frames of SpiderMonkey.
Control == {"script", "unwinding", "native", "raising", "escaped"}

\* Calls by scripts, and by native code ("forward").
Entered == {"method", "getter", "setter", "callable", "constructor"}
Frame == [kind  : Entered \cup {"forward"},
          phase : {"searched", "converting", "invoked", "returning"},
          name  : Seq(Character) \cup {None},    \* what the search was for, or found ...
          sel   : Seq(Character) \cup {None, NoSelector},
          argc  : 0..MaxArgs,
          left  : 0..MaxArgs]                      \* arguments not converted yet

Init ==
  /\ outer \in {"script", "program"} /\ convertible \in BOOLEAN
  /\ frames = <<>>
  /\ control = IF outer = "script" THEN "script" ELSE "native"
  /\ pending = FALSE /\ dropped = FALSE /\ mute = FALSE
  /\ number = None

Top == Last(frames)
Push(frame) == frames' = Append(frames, frame)
Pop == frames' = Front(frames)
TopIs(kinds, phase) == frames # <<>> /\ Top.kind \in kinds /\ Top.phase = phase
\* Scripts are on the stack below the innermost call.
ScriptsBelow ==
  outer = "script" \/ \E i \in 1..(Len(frames) - 1) : frames[i].kind = "forward"

\* Native code of the program runs: at the bottom or in a method that a script has called.
ProgramRuns == (frames = <<>> /\ outer = "program") \/ TopIs(Entered, "invoked")

\* JS_ReportError, JS_SetPendingException or a throw: the script is left.
FailWithException ==
  control' = "unwinding" /\ pending' = TRUE /\ UNCHANGED dropped

\* A failure that XJSCallMethod answers by JS_TRUE.
FailQuietly ==
  control' = "script" /\ pending' = TRUE /\ UNCHANGED dropped
-----------------------------------------------------------------------------
\* From JS to native code.

\* The head of XJSCallMethod.  A receiver that wraps nothing gives undefined at once and
\* changes nothing.  (A number that a script holds is followed into a setter only.)
Search(name, argc) ==
  /\ control = "script" /\ Len(frames) < MaxDepth /\ number = None
  /\ Push([kind |-> "method", phase |-> "searched", name |-> name,
           sel |-> SearchSelector(name, argc), argc |-> argc, left |-> argc])
  /\ control' = "native"
  /\ UNCHANGED <<outer, convertible, pending, dropped, mute, number>>

\* A property: a getter has no argument to convert, a setter has one.
Access(kind, argc) ==
  /\ control = "script" /\ Len(frames) < MaxDepth
  /\ kind = "setter" \/ number = None
  /\ Push([kind |-> kind, phase |-> "searched", name |-> None, sel |-> None,
           argc |-> argc, left |-> argc])
  /\ control' = "native"
  /\ UNCHANGED <<outer, convertible, pending, dropped, mute, number>>

UnfoundUnreported ==
  /\ TopIs(Entered, "searched")
  /\ control' = "unwinding" /\ Pop
  /\ number' = None
  /\ UNCHANGED <<outer, convertible, pending, dropped, mute>>

\* A call of a wrapped block or function takes its arguments as they are, and "new" of
\* a wrapped class takes none.
EnterDirectly(kind) ==
  /\ control = "script" /\ Len(frames) < MaxDepth /\ number = None
  /\ Push([kind |-> kind, phase |-> "converting", name |-> None, sel |-> None,
           argc |-> 0, left |-> 0])
  /\ control' = "native"
  /\ UNCHANGED <<outer, convertible, pending, dropped, mute, number>>

CallCallable == EnterDirectly("callable")
Construct == EnterDirectly("constructor")

\* XJSConstructor of an object that does not respond to alloc.
NotAConstructor ==
  /\ control = "script" /\ number = None
  /\ FailWithException
  /\ UNCHANGED <<outer, convertible, frames, mute, number>>

Unfound ==
  /\ TopIs(Entered, "searched")
  /\ FailWithException /\ Pop
  /\ number' = None
  /\ UNCHANGED <<outer, convertible, mute>>

\* The object responds to the selector.  (For toString without arguments that is
\* description, if need be.)
Found ==
  /\ TopIs(Entered, "searched") /\ Top.sel # NoSelector
  /\ frames' = Append(Front(frames),
       [Top EXCEPT !.phase = "converting", !.name = None, !.sel = None, !.argc = 0])
  /\ UNCHANGED <<outer, convertible, control, pending, dropped, mute, number>>

\* One argument; nil is a good enough object, whatever it was converted from.
Argument(value, class) ==
  /\ TopIs(Entered, "converting") /\ Top.left > 0
  /\ \E out \in ToType(value, class) :
       IF out.converted \/ class = "object"
       THEN /\ frames' = Append(Front(frames), [Top EXCEPT !.left = @ - 1])
            /\ pending' = (pending \/ out.failure)
            /\ dropped' = (dropped \/ out.failure)
            /\ UNCHANGED control
       ELSE FailWithException /\ Pop
  /\ number' = None
  /\ UNCHANGED <<outer, convertible, mute>>

\* The argument is the number a script has got before.
NumberArgument ==
  /\ TopIs({"setter"}, "converting") /\ Top.left = 1
  /\ number # None /\ number.got = None
  /\ number' = [number EXCEPT !.got = NumberToType(number.type, number.js)]
  /\ frames' = Append(Front(frames), [Top EXCEPT !.left = 0])
  /\ UNCHANGED <<outer, convertible, control, pending, dropped, mute>>

Invoke ==
  /\ TopIs(Entered, "converting") /\ Top.left = 0
  /\ frames' = Append(Front(frames), [Top EXCEPT !.phase = "invoked"])
  /\ number' = None
  /\ UNCHANGED <<outer, convertible, control, pending, dropped, mute>>

\* The @catch and catch clauses around the invocation.  (Where the exception itself cannot be
\* made a JS value, the outer clause reports "Unknown exception".)
CatchQuietly ==
  /\ control = "raising" /\ TopIs(Entered, "invoked")
  /\ FailQuietly /\ Pop
  /\ UNCHANGED <<outer, convertible, mute, number>>

CatchNothing ==
  /\ control = "raising" /\ TopIs(Entered, "invoked")
  /\ control' = "escaped" /\ Pop
  /\ UNCHANGED <<outer, convertible, pending, dropped, mute, number>>

Catch ==
  /\ control = "raising" /\ TopIs(Entered, "invoked")
  /\ FailWithException /\ Pop
  /\ UNCHANGED <<outer, convertible, mute, number>>

\* The result.  One that does not convert is undefined for a method, and false without an
\* exception for a getter; it is converted outside of the try block, and so is the object
\* that a constructor has made.
Result(class) ==
  /\ control = "native" /\ TopIs(Entered \ {"setter"}, "returning")
  /\ Top.kind \in {"callable", "constructor"} => class = "object"
  /\ \E out \in FromType(class, convertible) :
       \/ out.failure /\ control' = "escaped" /\ mute' = FALSE
       \/ /\ ~out.failure /\ (out.converted \/ Top.kind # "getter")
          /\ control' = "script" /\ mute' = FALSE
       \/ /\ ~out.failure /\ ~out.converted /\ Top.kind = "getter"
          /\ control' = "unwinding" /\ mute' = TRUE
  /\ number' = None
  /\ Pop
  /\ UNCHANGED <<outer, convertible, pending, dropped>>

NumberResult(type, n) ==
  /\ control = "native" /\ TopIs({"getter"}, "returning")
  /\ number' = [type |-> type, sent |-> n, js |-> NumberFromType(type, n), got |-> None]
  /\ control' = "script"
  /\ Pop
  /\ UNCHANGED <<outer, convertible, pending, dropped, mute>>

\* A method that returns nothing, and every setter.
NoResult ==
  /\ control = "native" /\ TopIs({"method", "setter"}, "returning")
  /\ control' = "script"
  /\ Pop
  /\ UNCHANGED <<outer, convertible, pending, dropped, mute, number>>
-----------------------------------------------------------------------------
\* From native code to JS: forwardInvocationImpl of the adopter.

ProgramForwards(sel, properties) ==
  /\ control = "native" /\ ProgramRuns /\ Len(frames) < MaxDepth
  /\ LET prop == SearchProperty(properties, sel) IN
       IF prop = NoSelector   \* doesNotRecognizeSelector
       THEN control' = "raising" /\ UNCHANGED frames
       ELSE /\ Push([kind |-> "forward", phase |-> "converting", name |-> prop,
                     sel |-> sel, argc |-> Colons(sel), left |-> Colons(sel)])
            /\ UNCHANGED control
  /\ UNCHANGED <<outer, convertible, pending, dropped, mute, number>>

\* "Failed to convert parameter": an exception, as is one that the conversion raises.
ForwardArgument(class) ==
  /\ control = "native" /\ TopIs({"forward"}, "converting") /\ Top.left > 0
  /\ \E out \in FromType(class, convertible) :
       IF out.converted
       THEN frames' = Append(Front(frames), [Top EXCEPT !.left = @ - 1]) /\ UNCHANGED control
       ELSE Pop /\ control' = "raising"
  /\ UNCHANGED <<outer, convertible, pending, dropped, mute, number>>

\* -invokeMethod:withArguments:
StartFunction ==
  /\ control = "native" /\ TopIs({"forward"}, "converting") /\ Top.left = 0
  /\ frames' = Append(Front(frames),
       [Top EXCEPT !.phase = "invoked", !.name = None, !.sel = None, !.argc = 0])
  /\ control' = "script"
  /\ UNCHANGED <<outer, convertible, pending, dropped, mute, number>>

\* On the way out of an outermost call into JS a pending exception becomes a report.
LeaveScripts ==
  /\ pending' = (pending /\ ScriptsBelow)
  /\ dropped' = (dropped /\ ScriptsBelow)

FunctionReturns ==
  /\ control = "script" /\ TopIs({"forward"}, "invoked")
  /\ frames' = Append(Front(frames), [Top EXCEPT !.phase = "returning"])
  /\ control' = "native" /\ number' = None
  /\ LeaveScripts
  /\ UNCHANGED <<outer, convertible, mute>>

\* The exception of the script stays pending when scripts are below, and the adopter
\* raises one of its own.
FunctionFails ==
  /\ control = "unwinding" /\ TopIs({"forward"}, "invoked")
  /\ Pop /\ control' = "raising" /\ mute' = FALSE
  /\ LeaveScripts
  /\ UNCHANGED <<outer, convertible, number>>

\* A value that is no object is nil, or the XJSValue itself, to a method that returns id.
\* Where no script is below, an exception of the conversion may stay pending or not.
ForwardResult(value, class) ==
  /\ control = "native" /\ TopIs({"forward"}, "returning")
  /\ \E out \in ToType(value, class), kept \in {ScriptsBelow, TRUE} :
       /\ control' = IF out.converted \/ class = "object" THEN "native" ELSE "raising"
       /\ pending' = (pending \/ (out.failure /\ kept))
       /\ dropped' = (dropped \/ (out.failure /\ kept))
  /\ Pop
  /\ UNCHANGED <<outer, convertible, mute, number>>

\* A method that returns nothing.
ForwardEnds ==
  /\ control = "native" /\ TopIs({"forward"}, "returning")
  /\ Pop
  /\ UNCHANGED <<outer, convertible, control, pending, dropped, mute, number>>
-----------------------------------------------------------------------------
\* The code of the program and of its scripts.

ProgramReturns ==
  /\ control = "native" /\ TopIs(Entered, "invoked")
  /\ frames' = Append(Front(frames), [Top EXCEPT !.phase = "returning"])
  /\ UNCHANGED <<outer, convertible, control, pending, dropped, mute, number>>

ProgramRaises ==
  /\ control = "native" /\ TopIs(Entered, "invoked")
  /\ control' = "raising"
  /\ UNCHANGED <<outer, convertible, frames, pending, dropped, mute, number>>

\* The program goes on after an exception; what is pending in the context stays so.
ProgramCatches ==
  /\ control = "raising" /\ ProgramRuns
  /\ control' = "native"
  /\ dropped' = (dropped \/ pending)
  /\ UNCHANGED <<outer, convertible, frames, pending, mute, number>>

ScriptThrows ==
  /\ control = "script"
  /\ FailWithException
  /\ number' = None
  /\ UNCHANGED <<outer, convertible, frames, mute>>

ScriptForgets ==
  /\ control = "script" /\ number # None /\ number' = None
  /\ UNCHANGED <<outer, convertible, frames, control, pending, dropped, mute>>

\* A catch clause takes what is pending; it is not reached without an exception.
ScriptCatches ==
  /\ control = "unwinding" /\ pending
  /\ control' = "script" /\ pending' = FALSE /\ dropped' = FALSE /\ mute' = FALSE
  /\ UNCHANGED <<outer, convertible, frames, number>>

\* The outermost script ends, one way or the other, and another one starts.
ScriptEnds ==
  /\ frames = <<>> /\ control \in {"script", "unwinding"}
  /\ control' = "script" /\ pending' = FALSE /\ dropped' = FALSE /\ mute' = FALSE
  /\ number' = None
  /\ UNCHANGED <<outer, convertible, frames>>

\* A script calls, or its call goes on.
Enter ==
  \/ \E name \in Name, argc \in 0..MaxArgs : Search(name, argc)
  \/ Access("getter", 0) \/ Access("setter", 1)
  \/ CallCallable \/ Construct \/ NotAConstructor
  \/ Unfound \/ Found
  \/ \E value \in Value, class \in TypeClass : Argument(value, class)
  \/ NumberArgument \/ Invoke \/ Catch

Return ==
  \/ \E class \in TypeClass : Result(class)
  \/ \E type \in NumberType : \E n \in NativeNumbers(type) : NumberResult(type, n)
  \/ NoResult

Forward ==
  \/ \E sel \in Selector : \E properties \in SUBSET Names(sel) : ProgramForwards(sel, properties)
  \/ \E class \in TypeClass : ForwardArgument(class)
  \/ StartFunction \/ FunctionReturns \/ FunctionFails
  \/ \E value \in Value, class \in TypeClass : ForwardResult(value, class)
  \/ ForwardEnds

Program ==
  \/ ProgramReturns \/ ProgramRaises \/ ProgramCatches
  \/ ScriptThrows \/ ScriptForgets \/ ScriptCatches \/ ScriptEnds

Next == Enter \/ Return \/ Forward \/ Program

Spec == Init /\ [][Next]_vars
-----------------------------------------------------------------------------
Crossing == [type : NumberType, sent : Int, got : Int \cup {None},
             js : [is : {"number", "boolean"}, n : Int]]

TypeOK ==
  /\ outer \in {"script", "program"} /\ convertible \in BOOLEAN
  /\ frames \in Seq(Frame)
  /\ control \in Control
  /\ pending \in BOOLEAN /\ dropped \in BOOLEAN /\ mute \in BOOLEAN
  /\ number \in Crossing \cup {None}

\* A selector that XJSSearchSelector finds takes the arguments of the call: whatever the
\* name, the invocation is never left with an argument that was not set, nor is one set
\* that it does not have.
ColonsMatchArguments ==
  \A i \in DOMAIN frames :
    LET f == frames[i] IN
      f.kind = "method" /\ f.sel \notin {None, NoSelector} => Colons(f.sel) = f.argc

\* The search keeps its promise: called by a name with underscores for its colons, all of
\* the trailing ones or none, a standard selector is what is found, with as many
\* arguments as it has colons.
StandardNamesFound ==
  \A i \in DOMAIN frames :
    LET f == frames[i] IN
      f.kind = "method" /\ f.phase = "searched" =>
        \A sel \in Selector :
          Colons(sel) = f.argc /\ f.name \in Names(sel) /\ Standard(sel) => f.sel = sel

\* The two directions agree on names: the property that an adopter finds for a standard
\* selector is one that calls that selector when the receiver is a wrapper.
ForwardedNamesCallBack ==
  \A i \in DOMAIN frames :
    LET f == frames[i] IN
      f.kind = "forward" /\ f.sel # None /\ Standard(f.sel) =>
        SearchSelector(f.name, f.argc) = f.sel

\* A number that goes to a script and back is the same, up to the size that a double
\* holds; and the script reads it as it is unless it is a char or short in the half of
\* the range where the signs differ.
NumbersSurvive ==
  number # None /\ Magnitude(number.sent) <= 2 ^ Mantissa =>
    /\ number.got # None => number.got = number.sent
    /\ number.js.n # number.sent =>
         number.type \in Narrow
         /\ number.sent \notin 0..(2 ^ (Bits(number.type) - 1) - 1)

\* A script that is stopped has an exception it could catch, whatever failed on the
\* native side, except when a getter returns what cannot be converted (then
\* XJSGetPropertyImpl returns false and says nothing).
StopsHaveAReason == control = "unwinding" /\ ~pending => mute

\* A script does not go on with an exception pending unless its conversion to a number or
\* an object threw it, or the program caught the exception of an adopter and went on.
NoStaleException == control = "script" /\ pending => dropped

\* No NSException passes through the frames of SpiderMonkey as long as native code hands
\* over only objects that can become JS values: the result of a call, and the object that
\* a constructor has made, are converted outside of the try block, where the conversion
\* raises for an object of a class that is not registered, for an XJSValue of another
\* runtime, and for any object in a context without a runtime entry object.  (Taken for
\* granted: respondsToSelector:, methodSignatureForSelector: and description of the
\* program's objects, also called outside of it, do not raise; the XJSContext of a running
\* script is there; and the value that a report of a failure names can be printed.)
RaisesStayNative == control = "escaped" => ~convertible
=============================================================================
