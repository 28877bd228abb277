---------------------------- MODULE MCModelMacro ----------------------------
(* ModelMacro on small sets of methods and arguments. *)
EXTENDS ModelMacro

UserModel == <<"user", "model">>

Fn(words) == [words |-> words, camel |-> FALSE]

\* Every shape of a method, without arguments to the macro.
MCShapes ==
    [fn : {NewName, Fn(<<"set", "name">>)},
     receiver : {"none", "self", "&self", "&mut self"},
     arguments : {"none", "names", "patterns"},
     returns : {"()", "Command", "Signal"},
     body : BOOLEAN,
     plain : BOOLEAN,
     message : {Unnamed}, names : {{}}, meta : {{}}]

\* README.md's dispatcher, with attributes at one place, at each and at none.
Metas == {{}, Places} \cup {{p} : p \in Places} \cup {{"base", "fns", "message"}}

Args(a, meta, messageMeta) ==
    [dispatcher |-> "list", message |-> "list", frb |-> a.frb,
     meta |-> meta, messageMeta |-> messageMeta, messageName |-> a.messageName, updaterName |-> a.updaterName, getterName |-> a.getterName]
PlainArgs ==
    [frb |-> FALSE, messageName |-> Unnamed, updaterName |-> Unnamed, getterName |-> Unnamed]

MCPlainArgs == {Args(PlainArgs, {}, <<>>)}

\* The message enum has one place for attributes; names may be given and swapped.
MCArgs ==
    {Args([PlainArgs EXCEPT !.frb = frb], meta, messageMeta) :
        frb \in BOOLEAN, meta \in Metas, messageMeta \in {<<>>, <<"enum">>}}
    \cup {Args([PlainArgs EXCEPT !.messageName = <<"user", "updater">>], {}, <<>>),
          Args([PlainArgs EXCEPT !.updaterName = <<"user", "getter">>,
                                 !.getterName = <<"user", "updater">>], {}, <<>>),
          [Args(PlainArgs, {}, <<>>) EXCEPT !.message = "absent", !.dispatcher = "word"],
          [Args(PlainArgs, {}, <<>>) EXCEPT !.message = "string"],
          [Args(PlainArgs, {}, <<>>) EXCEPT !.dispatcher = "absent"]}

Shape(receiver, returns, body) ==
    [receiver |-> receiver, arguments |-> "none", returns |-> returns, body |-> body,
     plain |-> TRUE]

MethodOf(shape, fn, message, names, meta) ==
    [fn |-> fn, receiver |-> shape.receiver, arguments |-> shape.arguments,
     returns |-> shape.returns, body |-> shape.body, plain |-> shape.plain,
     message |-> message, names |-> names, meta |-> meta]

UpdaterShape == Shape("&mut self", "()", TRUE)
GetterShape == Shape("&self", "Signal", FALSE)
NewShape == Shape("none", "()", FALSE)

Fns == {Fn(<<"name">>), Fn(<<"age">>), [words |-> <<"name">>, camel |-> TRUE],
        Fn(<<"user", "message">>), NewName}

\* Methods whose names, or whose message's, are one another's, and methods with
\* attributes at every place.
MCMethods ==
    {MethodOf(shape, fn, message, {}, {}) :
        shape \in {UpdaterShape, GetterShape}, fn \in Fns,
        message \in {Unnamed, <<"name">>, <<"age">>}}
    \cup {MethodOf(shape, Fn(<<"name">>), Unnamed, {}, meta) :
            shape \in {UpdaterShape, GetterShape}, meta \in Metas}
    \cup {MethodOf([UpdaterShape EXCEPT !.arguments = arguments], Fn(<<"name">>), Unnamed, {}, {}) :
            arguments \in {"names", "patterns"}}
    \cup {MethodOf(NewShape, NewName, Unnamed, names, meta) :
            names \in {{}, {"updater"}}, meta \in Metas}
=============================================================================
