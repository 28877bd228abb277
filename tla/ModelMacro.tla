----------------------------- MODULE ModelMacro -----------------------------
(***************************************************************************)
(* The model attribute macro of src/macros/src/model: the methods of an    *)
(* impl block are classified one by one (parser.rs), the arguments of the  *)
(* macro and of each method are checked and routed (attr.rs, attr/), and   *)
(* code is generated that turns a call of an updater or a getter into a    *)
(* message and the message into its effect (generator.rs).                 *)
(*                                                                         *)
(* A method is what its signature, its body and its #[emyu(..)] arguments  *)
(* show the macro.  A name is its words; the name of a function keeps its  *)
(* case, which the names made from it lose.  The attributes to paste on    *)
(* generated code are known by the place they were written at, as in       *)
(* meta(base(..)); what they say, visibilities and types are left out.     *)
(***************************************************************************)
EXTENDS Naturals, SequencesExt

CONSTANTS
    Model,          \* the words of the model's name
    Methods,        \* the methods to choose from
    ModelArgs,      \* the arguments of #[emyu::model(..)] to choose from
    Unnamed,        \* no name is given
    MaxMethods      \* bound on the methods of an impl block

\* Where attributes are written: the fields of raw::MetaConfig.
Places == {"base", "updater", "getter", "message", "fns", "inner_updater", "inner_getter"}

\* raw::MethodArgs is message, names (the fields of name that are set) and meta.
ASSUME MethodsAssumption == \A m \in Methods :
    /\ m.receiver \in {"none", "self", "&self", "&mut self"}
    \* The arguments besides the receiver: all of them names, or other patterns too.
    /\ m.arguments \in {"none", "names", "patterns"}
    /\ m.returns \in {"()", "Command", "Signal"}
    /\ m.body \in BOOLEAN
    /\ m.plain \in BOOLEAN          \* not const, async, unsafe, extern, variadic; no lifetimes
    /\ m.names \subseteq {"updater", "getter"}
    /\ m.meta \subseteq Places

\* raw::ModelArgs: dispatcher or dispatcher(name(..), meta(..)); message = ".." or
\* message(name, meta(..)); frb.
ASSUME ModelArgsAssumption == \A a \in ModelArgs :
    /\ {a.dispatcher, a.message} \subseteq {"absent", "word", "list", "string"}
    /\ a.frb \in BOOLEAN
    /\ a.meta \subseteq Places
    /\ a.messageMeta \in {<<>>, <<"enum">>}

ASSUME MaxMethodsAssumption == MaxMethods \in Nat

-----------------------------------------------------------------------------
(* Classification of a method: FnKind::analyze *)

SelfTy(m) ==
    CASE m.receiver = "&self" -> "shared"
      [] m.receiver = "&mut self" -> "mutable"
      [] OTHER -> "none"
HasSignalTy(m) == m.returns = "Signal"
HasNoFnArgs(m) == m.arguments = "none"

NewName == [words |-> <<"new">>, camel |-> FALSE]

IsNew(m) ==
    /\ m.fn = NewName /\ SelfTy(m) = "none"
    /\ ~HasSignalTy(m) /\ HasNoFnArgs(m) /\ ~m.body
IsUpdater(m) == SelfTy(m) = "mutable" /\ m.body
IsGetter(m) ==
    /\ SelfTy(m) = "shared"
    /\ HasSignalTy(m) /\ HasNoFnArgs(m) /\ ~m.body

-----------------------------------------------------------------------------
(* What is refused: the validate functions of attr.rs *)

NewArgsValid(m) == m.names = {}
UpdaterArgsValid(m) ==
    m.names = {} /\ m.meta \cap {"inner_updater", "inner_getter", "getter"} = {}
GetterArgsValid(m) ==
    m.names = {} /\ m.meta \cap {"inner_updater", "inner_getter", "updater"} = {}
ModelArgsValid(a) == a.dispatcher # "absent" /\ a.meta \cap {"message", "fns"} = {}

\* What darling takes for raw::ModelArgs.  The string that MessageDef would take
\* is not tried: the field is a MessageConfig, which is a list.
ArgsParse(a) == a.dispatcher # "string" /\ a.message \in {"absent", "list"}

Accepted(m) ==
    /\ m.plain /\ m.arguments # "patterns"
    /\ \/ IsNew(m) /\ NewArgsValid(m)
       \/ IsUpdater(m) /\ UpdaterArgsValid(m)
       \/ IsGetter(m) /\ GetterArgsValid(m)

-----------------------------------------------------------------------------
(* The macro *)

VARIABLES
    args,       \* the arguments of the macro
    newFn,      \* the declarations of new, of which the last counts
    updaters,   \* ParsedFnsSecondPass.updaters
    getters,    \* ParsedFnsSecondPass.getters
    outcome     \* of the macro

vars == <<args, newFn, updaters, getters, outcome>>

TypeOK ==
    /\ args \in ModelArgs
    /\ newFn \in BoundedSeq({m \in Methods : IsNew(m)}, MaxMethods)
    /\ updaters \in BoundedSeq({m \in Methods : IsUpdater(m)}, MaxMethods)
    /\ getters \in BoundedSeq({m \in Methods : IsGetter(m)}, MaxMethods)
    /\ outcome \in {"parsing", "error", "generated"}

\* The arguments of the macro are parsed before anything else.
Init ==
    /\ args \in ModelArgs
    /\ newFn = <<>> /\ updaters = <<>> /\ getters = <<>>
    /\ outcome = IF ArgsParse(args) THEN "parsing" ELSE "error"

\* Mutant of Parse: a getter is taken for an updater as well.
ParseTwice(m) ==
    /\ outcome = "parsing"
    /\ Len(newFn) + Len(updaters) + Len(getters) < MaxMethods
    /\ outcome' = IF Accepted(m) THEN outcome ELSE "error"
    /\ newFn' = IF m.plain /\ IsNew(m) THEN Append(newFn, m) ELSE newFn
    /\ updaters' = IF m.plain /\ SelfTy(m) # "none" THEN Append(updaters, m) ELSE updaters
    /\ getters' = IF m.plain /\ IsGetter(m) THEN Append(getters, m) ELSE getters
    /\ UNCHANGED args

\* The methods are parsed in order, and the first that has no known shape or a
\* misplaced argument is reported.
Parse(m) ==
    /\ outcome = "parsing"
    /\ Len(newFn) + Len(updaters) + Len(getters) < MaxMethods
    /\ outcome' = IF Accepted(m) THEN outcome ELSE "error"
    /\ newFn' = IF m.plain /\ IsNew(m) THEN Append(newFn, m) ELSE newFn
    /\ updaters' = IF m.plain /\ IsUpdater(m) THEN Append(updaters, m) ELSE updaters
    /\ getters' = IF m.plain /\ IsGetter(m) THEN Append(getters, m) ELSE getters
    /\ UNCHANGED args

\* ModelArgs::parse comes last.
Generate ==
    /\ outcome = "parsing"
    /\ outcome' = IF ModelArgsValid(args) THEN "generated" ELSE "error"
    /\ UNCHANGED <<args, newFn, updaters, getters>>

Next == Generate \/ \E m \in Methods : Parse(m)

Spec == Init /\ [][Next]_vars

-----------------------------------------------------------------------------
(* Names *)

NameOr(given, default) == IF given = Unnamed THEN default ELSE given

\* The model's name without its last word, if that is Model.
Stem == IF Last(Model) = "model" THEN Front(Model) ELSE Model

\* resolve_name_for_message: the message of an updater or a getter.
MessageName(m) == NameOr(m.message, m.fn.words)

\* The enum and the two structs that are generated for the model.
MessageEnum == NameOr(args.messageName, Append(Stem, "message"))
UpdaterStruct == NameOr(args.updaterName, Append(Stem, "updater"))
GetterStruct == NameOr(args.getterName, Append(Stem, "getter"))

-----------------------------------------------------------------------------
(* Attributes *)

\* The attribute written at a place, if there is one.
At(meta, place) == IF place \in meta THEN <<place>> ELSE <<>>

Frb(attribute) == IF args.frb THEN <<attribute>> ELSE <<>>

\* MetaConfig: for outer structs and new, their inner values, functions, messages.
OuterMeta(meta, kind) == At(meta, "base") \o At(meta, kind)
InnerMeta(meta, kind) ==
    At(meta, [updater |-> "inner_updater", getter |-> "inner_getter"][kind])
FnMeta(m, kind) == At(m.meta, "base") \o At(m.meta, "fns") \o At(m.meta, kind)
MessageMeta(m) == At(m.meta, "base") \o At(m.meta, "message")

\* A new that was not declared is generated without attributes.
NewMeta(kind) ==
    (IF newFn = <<>> THEN <<>> ELSE OuterMeta(Last(newFn).meta, kind) \o Frb("sync"))
        \o Frb("sync")

-----------------------------------------------------------------------------
(* The generated code *)

\* What the attributes of the model, of new and of a method are pasted on.

\* Mutant of EnumItem: what is said at message(meta(..)) is forgotten.
EnumItemPlain == [on |-> "message_enum", attrs |-> Frb("opaque")]

EnumItem == [on |-> "message_enum", attrs |-> args.messageMeta \o Frb("opaque")]
UpdaterStructItems ==
    {[on |-> "updater_struct", attrs |-> OuterMeta(args.meta, "updater") \o Frb("opaque")],
     [on |-> "inner_updater", attrs |-> InnerMeta(args.meta, "updater")]}
GetterStructItems ==
    {[on |-> "getter_struct", attrs |-> OuterMeta(args.meta, "getter") \o Frb("opaque")],
     [on |-> "inner_getter", attrs |-> InnerMeta(args.meta, "getter")]}
ModelItems == {EnumItem} \cup UpdaterStructItems \cup GetterStructItems
NewItems ==
    {[on |-> "updater_new", attrs |-> NewMeta("updater")],
     [on |-> "getter_new", attrs |-> NewMeta("getter")]}
UpdaterItems(u) ==
    {[on |-> "variant", attrs |-> MessageMeta(u)],
     [on |-> "updater_fn", attrs |-> FnMeta(u, "updater")]}
GetterItems(g) ==
    {[on |-> "message_struct", attrs |-> MessageMeta(g)],
     [on |-> "getter_fn", attrs |-> FnMeta(g, "getter") \o Frb("sync_getter")]}

\* Mutant of Arm: the method is called by the name of the message.
ArmOfMessage(u) ==
    [variant |-> MessageName(u), calls |-> [words |-> MessageName(u), camel |-> FALSE]]

\* Model::update matches a variant of the enum and calls the method that holds
\* the updater's block; the updater's function sends the variant.
Arm(u) == [variant |-> MessageName(u), calls |-> u.fn]
ModelFn(i) == [name |-> updaters[i].fn, block |-> i]
Sends(u) == MessageName(u)

\* The blocks that Model::update runs for a message.
RunBy(message) ==
    {ModelFn(i).block : i \in {j \in DOMAIN updaters :
        \E a \in {Arm(updaters[k]) : k \in DOMAIN updaters} :
            a.variant = message /\ a.calls = ModelFn(j).name}}

\* A getter's function asks with its message struct, whose ModelGetterHandler
\* clones the field with the getter's name; that field is accumulated.
Gets(g) == MessageName(g)
HandlerField(g) == g.fn
AccumulatedField(g) == g.fn

FieldsOf(message) ==
    {HandlerField(getters[i]) : i \in {j \in DOMAIN getters : MessageName(getters[j]) = message}}

Accumulated == {AccumulatedField(getters[i]) : i \in DOMAIN getters}

\* The type of the method that holds an updater's block: it is declared without
\* a return type, whatever the updater returns.
ModelFnReturns(m) == "()"

\* The arm of update for an updater's message: the call of that method, or a
\* block that calls it and gives Command::none().
MatchArmType(m) == IF HasSignalTy(m) THEN ModelFnReturns(m) ELSE "Command"

\* The block gives what the updater was declared to return.
TypeChecks(m) == m.returns = ModelFnReturns(m) /\ MatchArmType(m) = "Command"

Each(s, Op(_)) == [i \in DOMAIN s |-> Op(s[i])]

\* rustc takes the generated code: the types are sound and no two variants of
\* the enum, functions of a struct or types of the module have one name.
FnName(m) == m.fn
Compiles ==
    /\ \A i \in DOMAIN updaters : TypeChecks(updaters[i])
    /\ IsInjective(Each(updaters, MessageName))
    /\ IsInjective(Append(Each(updaters, FnName), NewName))
    /\ IsInjective(Append(Each(getters, FnName), NewName))
    /\ IsInjective(Each(getters, MessageName)
                        \o <<Model, MessageEnum, UpdaterStruct, GetterStruct>>)

-----------------------------------------------------------------------------
(* Properties *)

\* What the documentation of the macro says attributes are for, by the place
\* they are written at (attr/raw/model.rs): those of the model, of its message
\* enum, of new, of an updater and of a getter.
ForModel(p) ==
    CASE p = "base" -> {"updater_struct", "getter_struct"}
      [] p = "updater" -> {"updater_struct"}
      [] p = "getter" -> {"getter_struct"}
      [] p \in {"inner_updater", "inner_getter"} -> {p}
      [] OTHER -> {}
ForEnum(p) == {"message_enum"}
ForNew(p) ==
    CASE p = "base" -> {"updater_new", "getter_new"}
      [] p = "updater" -> {"updater_new"}
      [] p = "getter" -> {"getter_new"}
      [] OTHER -> {}
ForUpdater(p) ==
    CASE p = "base" -> {"variant", "updater_fn"}
      [] p = "message" -> {"variant"}
      [] p \in {"fns", "updater"} -> {"updater_fn"}
      [] OTHER -> {}
ForGetter(p) ==
    CASE p = "base" -> {"message_struct", "getter_fn"}
      [] p = "message" -> {"message_struct"}
      [] p \in {"fns", "getter"} -> {"getter_fn"}
      [] OTHER -> {}

\* How often an attribute is among others.
Times(p, attrs) == Cardinality({i \in DOMAIN attrs : attrs[i] = p})

\* Each attribute written is pasted, once, on what it is for, and on nothing else.
Pasted(meta, items, For(_)) ==
    \A p \in meta : \A item \in items :
        Times(p, item.attrs) = IF item.on \in For(p) THEN 1 ELSE 0

\* Each attribute written is for something.
Useful(meta, For(_)) == \A p \in meta : For(p) # {}

\* On their way through the configurations, filters and chains of attr.rs, the
\* attributes of the model, of its message enum, of updaters and of getters are
\* pasted once on each thing that they are for, and never on the wrong side of the
\* updater and getter twins; those of the model, updaters and getters that are for
\* nothing are refused, so that none is lost.  The attributes of new arrive
\* likewise, but those that are for nothing there, of messages, functions and inner
\* values, are dropped and not refused (NewMethodArgs), as is all of a new that is
\* declared again (parser.rs:277).
AttributesArrive ==
    outcome = "generated" =>
        /\ Useful(args.meta, ForModel) /\ Pasted(args.meta, ModelItems, ForModel)
        /\ Pasted(ToSet(args.messageMeta), ModelItems, ForEnum)
        /\ newFn # <<>> => Pasted(Last(newFn).meta, NewItems, ForNew)
        /\ \A i \in DOMAIN updaters :
            /\ Useful(updaters[i].meta, ForUpdater)
            /\ Pasted(updaters[i].meta, UpdaterItems(updaters[i]), ForUpdater)
        /\ \A i \in DOMAIN getters :
            /\ Useful(getters[i].meta, ForGetter)
            /\ Pasted(getters[i].meta, GetterItems(getters[i]), ForGetter)

\* Whatever names are given to functions and messages, one for another even: if
\* the generated code compiles, calling an updater's function runs that
\* updater's block and no other, and a getter's function gives its own signal,
\* which the host flushes (generator.rs; host.rs, handle_message).
CallsReachTheirMethod ==
    outcome = "generated" /\ Compiles =>
        /\ \A i \in DOMAIN updaters : RunBy(Sends(updaters[i])) = {i}
        /\ \A i \in DOMAIN getters :
            FieldsOf(Gets(getters[i])) = {getters[i].fn} /\ getters[i].fn \in Accumulated

\* An updater is "fn updater(&mut self) [-> Command<Message, ForApp>] {}"
\* (model.rs:27): one that returns a command is accepted, and the code generated
\* for it compiles.
CommandsCanBeReturned ==
    outcome = "generated" =>
        \A i \in DOMAIN updaters : updaters[i].returns = "Command" => TypeChecks(updaters[i])
=============================================================================
