-------------------------- MODULE ModelMacroProofs --------------------------
(***************************************************************************)
(* Calls reach their methods whatever the methods are called, however many *)
(* there are and whatever names are given to their messages; attributes    *)
(* reach what they are for, wherever they are written.                     *)
(***************************************************************************)
EXTENDS ModelMacro, SequenceTheorems, FiniteSetTheorems, TLAPS

\* As much of TypeOK as the proof needs.
Parsed ==
    newFn \in Seq(Methods) /\ updaters \in Seq(Methods) /\ getters \in Seq(Methods)

\* What was parsed are methods.
LEMMA SpecParsed == Spec => []Parsed
  <1>1. Init => Parsed
    BY DEF Init, Parsed
  <1>2. Parsed /\ [Next]_vars => Parsed'
    <2> SUFFICES ASSUME Parsed, [Next]_vars PROVE Parsed'
      OBVIOUS
    <2>1. CASE Generate \/ UNCHANGED vars
      BY <2>1 DEF Generate, vars, Parsed
    <2>2. ASSUME NEW m \in Methods, Parse(m) PROVE Parsed'
      BY <2>2 DEF Parse, Parsed
    <2> QED
      BY <2>1, <2>2 DEF Next
  <1> QED
    BY <1>1, <1>2, PTL DEF Spec

\* No two updaters of code that compiles have a name in common, of themselves or
\* of their messages.
LEMMA UpdatersDiffer ==
    ASSUME Parsed, Compiles, NEW i \in DOMAIN updaters, NEW j \in DOMAIN updaters
    PROVE  /\ MessageName(updaters[i]) = MessageName(updaters[j]) => i = j
           /\ updaters[i].fn = updaters[j].fn => i = j
  <1> DEFINE names == [k \in DOMAIN updaters |-> updaters[k].fn]
  <1>1. MessageName(updaters[i]) = MessageName(updaters[j]) => i = j
    BY DEF Compiles, IsInjective, Each
  <1>2. IsInjective(Append(names, NewName))
    BY DEF Compiles, Each, FnName
  <1>3. names \in Seq({m.fn : m \in Methods}) /\ DOMAIN names = DOMAIN updaters
    BY DEF Parsed
  <1>4. \A k \in DOMAIN names : /\ k \in DOMAIN Append(names, NewName)
                                /\ Append(names, NewName)[k] = updaters[k].fn
    BY <1>3
  <1>5. updaters[i].fn = updaters[j].fn => i = j
    BY <1>2, <1>3, <1>4 DEF IsInjective
  <1> QED
    BY <1>1, <1>5

\* No two getters of code that compiles have messages of one name.
LEMMA GettersDiffer ==
    ASSUME Parsed, Compiles, NEW i \in DOMAIN getters, NEW j \in DOMAIN getters,
           MessageName(getters[i]) = MessageName(getters[j])
    PROVE  i = j
  <1> DEFINE names == [k \in DOMAIN getters |-> MessageName(getters[k])]
             types == <<Model, MessageEnum, UpdaterStruct, GetterStruct>>
  <1>1. IsInjective(names \o types)
    BY DEF Compiles, Each
  <1>2. names \in Seq({MessageName(m) : m \in Methods}) /\ DOMAIN names = DOMAIN getters
    BY DEF Parsed
  <1>3. types \in Seq({Model, MessageEnum, UpdaterStruct, GetterStruct})
    OBVIOUS
  <1> HIDE DEF types
  <1>4. \A k \in DOMAIN names : /\ k \in DOMAIN (names \o types)
                                /\ (names \o types)[k] = MessageName(getters[k])
    BY <1>2, <1>3
  <1> QED
    BY <1>1, <1>2, <1>4 DEF IsInjective

\* In generated code that compiles a call of an updater's function runs that
\* updater's block and nothing else, and a getter's function gives its own signal,
\* which the host flushes, whatever names the methods and their messages are given.
THEOREM MacroCallsReachTheirMethod == Spec => []CallsReachTheirMethod
  <1>1. ASSUME Parsed PROVE CallsReachTheirMethod
    <2> SUFFICES ASSUME Compiles
                 PROVE  /\ \A i \in DOMAIN updaters : RunBy(Sends(updaters[i])) = {i}
                        /\ \A i \in DOMAIN getters :
                            /\ FieldsOf(Gets(getters[i])) = {getters[i].fn}
                            /\ getters[i].fn \in Accumulated
      BY DEF CallsReachTheirMethod
    <2>1. ASSUME NEW i \in DOMAIN updaters PROVE RunBy(Sends(updaters[i])) = {i}
      <3> DEFINE runs(j) == \E a \in {Arm(updaters[k]) : k \in DOMAIN updaters} :
                                a.variant = Sends(updaters[i]) /\ a.calls = ModelFn(j).name
      <3>1. ASSUME NEW j \in DOMAIN updaters PROVE runs(j) <=> j = i
        <4>1. ASSUME runs(j) PROVE j = i
          <5>1. PICK k \in DOMAIN updaters :
                    /\ Arm(updaters[k]).variant = Sends(updaters[i])
                    /\ Arm(updaters[k]).calls = ModelFn(j).name
            BY <4>1
          <5>2. /\ MessageName(updaters[k]) = MessageName(updaters[i])
                /\ updaters[k].fn = updaters[j].fn
            BY <5>1 DEF Arm, Sends, ModelFn
          <5> QED
            BY <1>1, <5>2, UpdatersDiffer
        <4>2. /\ Arm(updaters[i]).variant = Sends(updaters[i])
              /\ Arm(updaters[i]).calls = ModelFn(i).name
          BY DEF Arm, Sends, ModelFn
        <4> QED
          BY <4>1, <4>2
      <3>2. RunBy(Sends(updaters[i])) = {j \in DOMAIN updaters : runs(j)}
        BY DEF RunBy, ModelFn
      <3> QED
        BY <3>1, <3>2
    <2>2. ASSUME NEW i \in DOMAIN getters
          PROVE  /\ FieldsOf(Gets(getters[i])) = {getters[i].fn}
                 /\ getters[i].fn \in Accumulated
      BY <1>1, GettersDiffer DEF FieldsOf, Gets, HandlerField, Accumulated, AccumulatedField
    <2> QED
      BY <2>1, <2>2
  <1> QED
    BY <1>1, SpecParsed, PTL

-----------------------------------------------------------------------------
(* Attributes *)

\* How often an attribute is in a sequence is a number.
LEMMA TimesFinite ==
    ASSUME NEW S, NEW s \in Seq(S), NEW p
    PROVE  /\ IsFiniteSet({i \in DOMAIN s : s[i] = p})
           /\ Times(p, s) \in Nat
  <1>1. DOMAIN s = 1..Len(s) /\ Len(s) \in Nat
    BY LenProperties
  <1>2. IsFiniteSet(1..Len(s))
    BY <1>1, FS_Interval
  <1>3. IsFiniteSet({i \in DOMAIN s : s[i] = p})
    BY <1>1, <1>2, FS_Subset
  <1> QED
    BY <1>3, FS_CardinalityType DEF Times

\* How often it is in a sequence of none and of one.
LEMMA TimesFew ==
    /\ \A p : Times(p, <<>>) = 0
    /\ \A p, q : Times(p, <<q>>) = IF p = q THEN 1 ELSE 0
  <1>1. \A p : Times(p, <<>>) = 0
    BY FS_EmptySet DEF Times
  <1>2. ASSUME NEW p, NEW q PROVE Times(p, <<q>>) = IF p = q THEN 1 ELSE 0
    <2>1. CASE p = q
      <3>1. {i \in DOMAIN <<q>> : <<q>>[i] = p} = {1}
        BY <2>1
      <3> QED
        BY <2>1, <3>1, FS_Singleton DEF Times
    <2>2. CASE p # q
      <3>1. {i \in DOMAIN <<q>> : <<q>>[i] = p} = {}
        BY <2>2
      <3> QED
        BY <2>2, <3>1, FS_EmptySet DEF Times
    <2> QED
      BY <2>1, <2>2
  <1> QED
    BY <1>1, <1>2

\* Counting is additive, as the second sequence's positions are only shifted.
LEMMA TimesConcat ==
    ASSUME NEW S, NEW s \in Seq(S), NEW t \in Seq(S), NEW p
    PROVE  Times(p, s \o t) = Times(p, s) + Times(p, t)
  <1> DEFINE inS == {i \in DOMAIN s : s[i] = p}
             inT == {i \in DOMAIN t : t[i] = p}
             moved == {i \in (Len(s) + 1)..(Len(s) + Len(t)) : t[i - Len(s)] = p}
             shift == [i \in inT |-> Len(s) + i]
  <1>1. /\ Len(s) \in Nat /\ DOMAIN s = 1..Len(s)
        /\ Len(t) \in Nat /\ DOMAIN t = 1..Len(t)
    BY LenProperties
  <1>2. /\ IsFiniteSet(inS) /\ IsFiniteSet(inT)
        /\ Times(p, s) = Cardinality(inS) /\ Times(p, t) = Cardinality(inT)
        /\ Times(p, s) \in Nat /\ Times(p, t) \in Nat
    BY TimesFinite DEF Times
  <1>3. shift \in Bijection(inT, moved)
    <2>1. shift \in [inT -> moved]
      BY <1>1
    <2>2. \A i, j \in inT : shift[i] = shift[j] => i = j
      BY <1>1
    <2>3. \A i \in moved : i - Len(s) \in inT /\ shift[i - Len(s)] = i
      BY <1>1
    <2>4. shift \in Surjection(inT, moved)
      BY <2>1, <2>3 DEF Surjection
    <2>5. shift \in Injection(inT, moved)
      BY <2>1, <2>2 DEF Injection, IsInjective
    <2> QED
      BY <2>4, <2>5 DEF Bijection
  <1>4. IsFiniteSet(moved) /\ Cardinality(moved) = Cardinality(inT)
    BY <1>2, <1>3, FS_Bijection DEF ExistsBijection
  <1>5. {i \in DOMAIN (s \o t) : (s \o t)[i] = p} = inS \cup moved
    BY <1>1
  <1>6. inS \cap moved = {}
    BY <1>1
  <1>7. Cardinality(inS \cup moved) = Cardinality(inS) + Cardinality(moved)
    <2> HIDE DEF inS, moved
    <2>1. Cardinality(inS \cup moved)
            = Cardinality(inS) + Cardinality(moved) - Cardinality(inS \cap moved)
      BY <1>2, <1>4, FS_Union
    <2>2. Cardinality(inS \cap moved) = 0
      BY <1>6, FS_EmptySet
    <2> QED
      BY <1>2, <1>4, <2>1, <2>2
  <1> QED
    BY <1>2, <1>4, <1>5, <1>7 DEF Times

\* All attributes that are told apart.
Attributes == Places \cup {"enum", "sync", "opaque", "sync_getter"}

\* A place gives its attribute once, if it was written.
LEMMA TimesAt ==
    ASSUME NEW p, NEW meta, NEW place \in Places
    PROVE  /\ At(meta, place) \in Seq(Attributes)
           /\ Times(p, At(meta, place)) = IF p = place /\ place \in meta THEN 1 ELSE 0
  <1>0. place \in Attributes
    BY DEF Attributes
  <1>1. <<place>> \in Seq(Attributes) /\ <<>> \in Seq(Attributes)
    BY <1>0
  <1>2. Times(p, <<>>) = 0 /\ Times(p, <<place>>) = IF p = place THEN 1 ELSE 0
    BY TimesFew
  <1>3. CASE place \in meta
    BY <1>1, <1>2, <1>3 DEF At
  <1>4. CASE place \notin meta
    BY <1>1, <1>2, <1>4 DEF At
  <1> QED
    BY <1>3, <1>4

\* What frb adds is no other attribute.
LEMMA TimesFrb ==
    ASSUME NEW p, NEW attribute \in Attributes, p # attribute
    PROVE  Frb(attribute) \in Seq(Attributes) /\ Times(p, Frb(attribute)) = 0
  <1>1. <<attribute>> \in Seq(Attributes) /\ <<>> \in Seq(Attributes)
    OBVIOUS
  <1>2. Times(p, <<>>) = 0 /\ Times(p, <<attribute>>) = 0
    BY TimesFew
  <1> QED
    BY <1>1, <1>2 DEF Frb

\* Two places give each its own.
LEMMA TimesOfTwo ==
    ASSUME NEW p, NEW meta, NEW a \in Places, NEW b \in Places, a # b
    PROVE  /\ At(meta, a) \o At(meta, b) \in Seq(Attributes)
           /\ Times(p, At(meta, a) \o At(meta, b)) = IF p \in {a, b} \cap meta THEN 1 ELSE 0
  <1>1. /\ At(meta, a) \in Seq(Attributes) /\ At(meta, b) \in Seq(Attributes)
        /\ Times(p, At(meta, a)) = IF p = a /\ p \in meta THEN 1 ELSE 0
        /\ Times(p, At(meta, b)) = IF p = b /\ p \in meta THEN 1 ELSE 0
    BY TimesAt
  <1>2. Times(p, At(meta, a) \o At(meta, b)) = Times(p, At(meta, a)) + Times(p, At(meta, b))
    BY <1>1, TimesConcat
  <1> QED
    BY <1>1, <1>2

\* What is pasted on outer structs and on inner values.
LEMMA TimesOuter ==
    ASSUME NEW p, NEW meta, NEW kind \in {"updater", "getter"}
    PROVE  /\ OuterMeta(meta, kind) \in Seq(Attributes)
           /\ Times(p, OuterMeta(meta, kind)) = IF p \in {"base", kind} \cap meta THEN 1 ELSE 0
  <1>1. /\ {"base", kind} \subseteq Places
        /\ "base" # kind
    BY DEF Places
  <1> QED
    BY <1>1, TimesOfTwo DEF OuterMeta

LEMMA TimesInner ==
    ASSUME NEW p, NEW meta
    PROVE  /\ InnerMeta(meta, "updater") \in Seq(Attributes)
           /\ InnerMeta(meta, "getter") \in Seq(Attributes)
           /\ Times(p, InnerMeta(meta, "updater")) = IF p = "inner_updater" /\ p \in meta THEN 1 ELSE 0
           /\ Times(p, InnerMeta(meta, "getter")) = IF p = "inner_getter" /\ p \in meta THEN 1 ELSE 0
  <1>1. {"inner_updater", "inner_getter"} \subseteq Places
    BY DEF Places
  <1>2. /\ InnerMeta(meta, "updater") = At(meta, "inner_updater")
        /\ InnerMeta(meta, "getter") = At(meta, "inner_getter")
    BY DEF InnerMeta
  <1>3. /\ At(meta, "inner_updater") \in Seq(Attributes)
        /\ At(meta, "inner_getter") \in Seq(Attributes)
        /\ Times(p, At(meta, "inner_updater")) = IF p = "inner_updater" /\ p \in meta THEN 1 ELSE 0
        /\ Times(p, At(meta, "inner_getter")) = IF p = "inner_getter" /\ p \in meta THEN 1 ELSE 0
    BY <1>1, TimesAt
  <1> QED
    BY <1>2, <1>3

\* What is pasted on functions and on messages.
LEMMA TimesFnMeta ==
    ASSUME NEW p, NEW m, NEW kind \in {"updater", "getter"}
    PROVE  /\ FnMeta(m, kind) \in Seq(Attributes)
           /\ Times(p, FnMeta(m, kind)) = IF p \in {"base", "fns", kind} \cap m.meta THEN 1 ELSE 0
           /\ MessageMeta(m) \in Seq(Attributes)
           /\ Times(p, MessageMeta(m)) = IF p \in {"base", "message"} \cap m.meta THEN 1 ELSE 0
  <1> DEFINE two == At(m.meta, "base") \o At(m.meta, "fns")
             own == At(m.meta, kind)
  <1>1. /\ {"base", "fns", kind, "message"} \subseteq Places
        /\ "base" # "fns" /\ "base" # "message" /\ kind \notin {"base", "fns"}
    BY DEF Places
  <1>2. /\ MessageMeta(m) \in Seq(Attributes)
        /\ Times(p, MessageMeta(m)) = IF p \in {"base", "message"} \cap m.meta THEN 1 ELSE 0
    BY <1>1, TimesOfTwo DEF MessageMeta
  <1>3. /\ two \in Seq(Attributes)
        /\ Times(p, two) = IF p \in {"base", "fns"} \cap m.meta THEN 1 ELSE 0
    BY <1>1, TimesOfTwo
  <1>4. /\ own \in Seq(Attributes)
        /\ Times(p, own) = IF p = kind /\ p \in m.meta THEN 1 ELSE 0
    BY <1>1, TimesAt
  <1>5. FnMeta(m, kind) = two \o own
    BY DEF FnMeta
  <1> HIDE DEF two, own
  <1>6. two \o own \in Seq(Attributes) /\ Times(p, two \o own) = Times(p, two) + Times(p, own)
    BY <1>3, <1>4, TimesConcat
  <1>7. Times(p, two \o own) = IF p \in {"base", "fns", kind} \cap m.meta THEN 1 ELSE 0
    BY <1>1, <1>3, <1>4, <1>6
  <1> QED
    BY <1>2, <1>5, <1>6, <1>7

\* What is not refused has attributes only where they are for something.
Placed ==
    /\ args \in ModelArgs
    /\ outcome = "generated" => ModelArgsValid(args)
    /\ outcome # "error" =>
        /\ \A i \in DOMAIN updaters : UpdaterArgsValid(updaters[i])
        /\ \A i \in DOMAIN getters : GetterArgsValid(getters[i])

\* A method has one kind.
LEMMA OneKind ==
    ASSUME NEW m \in Methods, Accepted(m)
    PROVE  /\ IsUpdater(m) => UpdaterArgsValid(m)
           /\ IsGetter(m) => GetterArgsValid(m)
  <1>1. ~(SelfTy(m) = "none" /\ SelfTy(m) = "mutable") /\ ~(SelfTy(m) = "none" /\ SelfTy(m) = "shared")
        /\ ~(SelfTy(m) = "mutable" /\ SelfTy(m) = "shared")
    OBVIOUS
  <1> QED
    BY <1>1 DEF Accepted, IsNew, IsUpdater, IsGetter

\* A misplaced attribute is an error, and after an error nothing is generated.
LEMMA SpecPlaced == Spec => []Placed
  <1>1. Init => Placed
    BY DEF Init, Placed
  <1>2. ASSUME Parsed, Placed, [Next]_vars PROVE Placed'
    <2>1. CASE Generate \/ UNCHANGED vars
      BY <1>2, <2>1 DEF Generate, vars, Placed, ModelArgsValid
    <2>2. ASSUME NEW m \in Methods, Parse(m) PROVE Placed'
      <3>1. args' = args /\ outcome = "parsing" /\ outcome' # "generated"
        BY <2>2 DEF Parse
      <3>2. CASE Accepted(m)
        <4>1. \A i \in DOMAIN updaters' : UpdaterArgsValid(updaters'[i])
          <5>1. CASE IsUpdater(m)
            <6>1. UpdaterArgsValid(m)
              BY <3>2, <5>1, OneKind
            <6>2. updaters' = Append(updaters, m) \/ updaters' = updaters
              BY <2>2 DEF Parse
            <6> QED
              BY <1>2, <3>1, <6>1, <6>2 DEF Parsed, Placed
          <5>2. CASE ~IsUpdater(m)
            BY <1>2, <2>2, <3>1, <5>2 DEF Parse, Placed
          <5> QED
            BY <5>1, <5>2
        <4>2. \A i \in DOMAIN getters' : GetterArgsValid(getters'[i])
          <5>1. CASE IsGetter(m)
            <6>1. GetterArgsValid(m)
              BY <3>2, <5>1, OneKind
            <6>2. getters' = Append(getters, m) \/ getters' = getters
              BY <2>2 DEF Parse
            <6> QED
              BY <1>2, <3>1, <6>1, <6>2 DEF Parsed, Placed
          <5>2. CASE ~IsGetter(m)
            BY <1>2, <2>2, <3>1, <5>2 DEF Parse, Placed
          <5> QED
            BY <5>1, <5>2
        <4> QED
          BY <1>2, <3>1, <4>1, <4>2 DEF Placed
      <3>3. CASE ~Accepted(m)
        <4>1. outcome' = "error"
          BY <2>2, <3>3 DEF Parse
        <4> QED
          BY <1>2, <3>1, <4>1 DEF Placed
      <3> QED
        BY <3>2, <3>3
    <2> QED
      BY <1>2, <2>1, <2>2 DEF Next
  <1> QED
    BY <1>1, <1>2, SpecParsed, PTL DEF Spec

\* The attributes of the model arrive.
LEMMA ModelPasted ==
    ASSUME args \in ModelArgs, ModelArgsValid(args)
    PROVE  Useful(args.meta, ForModel) /\ Pasted(args.meta, ModelItems, ForModel)
  <1> SUFFICES ASSUME NEW p \in args.meta
               PROVE  /\ ForModel(p) # {}
                      /\ \A item \in ModelItems :
                            Times(p, item.attrs) = IF item.on \in ForModel(p) THEN 1 ELSE 0
    BY DEF Useful, Pasted
  <1>1. /\ p \in Places /\ p \notin {"message", "fns"}
        /\ args.messageMeta = <<>> \/ args.messageMeta = <<"enum">>
    BY ModelArgsAssumption DEF ModelArgsValid
  <1>2. p \in {"base", "updater", "getter", "inner_updater", "inner_getter"}
    BY <1>1 DEF Places
  <1>3. ForModel(p) = CASE p = "base" -> {"updater_struct", "getter_struct"}
                        [] p = "updater" -> {"updater_struct"}
                        [] p = "getter" -> {"getter_struct"}
                        [] p = "inner_updater" -> {"inner_updater"}
                        [] p = "inner_getter" -> {"inner_getter"}
    BY <1>2 DEF ForModel
  <1>4. "opaque" \in Attributes /\ p # "opaque" /\ p # "enum"
    BY <1>1 DEF Attributes, Places
  <1>5. Times(p, EnumItem.attrs) = 0
    <2>1. args.messageMeta \in Seq(Attributes) /\ Times(p, args.messageMeta) = 0
      <3>1. Times(p, <<>>) = 0 /\ Times(p, <<"enum">>) = 0
        BY <1>4, TimesFew
      <3>2. <<>> \in Seq(Attributes) /\ <<"enum">> \in Seq(Attributes)
        BY DEF Attributes, Places
      <3> QED
        BY <1>1, <3>1, <3>2
    <2>2. Times(p, args.messageMeta \o Frb("opaque")) = 0
      <3>1. Frb("opaque") \in Seq(Attributes) /\ Times(p, Frb("opaque")) = 0
        BY <1>4, TimesFrb
      <3>2. Times(p, args.messageMeta \o Frb("opaque"))
                = Times(p, args.messageMeta) + Times(p, Frb("opaque"))
        BY <2>1, <3>1, TimesConcat
      <3> QED
        BY <2>1, <3>1, <3>2
    <2> QED
      BY <2>2 DEF EnumItem
  <1>6. \A kind \in {"updater", "getter"} :
            Times(p, OuterMeta(args.meta, kind) \o Frb("opaque"))
                = IF p \in {"base", kind} THEN 1 ELSE 0
    <2> SUFFICES ASSUME NEW kind \in {"updater", "getter"}
                 PROVE  Times(p, OuterMeta(args.meta, kind) \o Frb("opaque"))
                            = IF p \in {"base", kind} THEN 1 ELSE 0
      OBVIOUS
    <2>1. /\ OuterMeta(args.meta, kind) \in Seq(Attributes)
          /\ Times(p, OuterMeta(args.meta, kind)) = IF p \in {"base", kind} THEN 1 ELSE 0
      <3>1. /\ OuterMeta(args.meta, kind) \in Seq(Attributes)
            /\ Times(p, OuterMeta(args.meta, kind))
                    = IF p \in {"base", kind} \cap args.meta THEN 1 ELSE 0
        BY TimesOuter
      <3> QED
        BY <3>1
    <2>2. Frb("opaque") \in Seq(Attributes) /\ Times(p, Frb("opaque")) = 0
      BY <1>4, TimesFrb
    <2> QED
      BY <2>1, <2>2, TimesConcat
  <1>7. /\ Times(p, InnerMeta(args.meta, "updater")) = IF p = "inner_updater" THEN 1 ELSE 0
        /\ Times(p, InnerMeta(args.meta, "getter")) = IF p = "inner_getter" THEN 1 ELSE 0
    <2>1. /\ Times(p, InnerMeta(args.meta, "updater"))
                = IF p = "inner_updater" /\ p \in args.meta THEN 1 ELSE 0
          /\ Times(p, InnerMeta(args.meta, "getter"))
                = IF p = "inner_getter" /\ p \in args.meta THEN 1 ELSE 0
      BY TimesInner
    <2> QED
      BY <2>1
  <1>8. ForModel(p) # {}
    BY <1>2, <1>3
  <1>9. ASSUME NEW item \in ModelItems
        PROVE  Times(p, item.attrs) = IF item.on \in ForModel(p) THEN 1 ELSE 0
    <2>1. CASE item = EnumItem
      <3>1. item.on = "message_enum"
        BY <2>1 DEF EnumItem
      <3> QED
        BY <1>2, <1>3, <1>5, <2>1, <3>1
    <2>2. CASE item.on = "updater_struct" /\ item.attrs = OuterMeta(args.meta, "updater") \o Frb("opaque")
      BY <1>2, <1>3, <1>6, <2>2
    <2>3. CASE item.on = "inner_updater" /\ item.attrs = InnerMeta(args.meta, "updater")
      BY <1>2, <1>3, <1>7, <2>3
    <2>4. CASE item.on = "getter_struct" /\ item.attrs = OuterMeta(args.meta, "getter") \o Frb("opaque")
      BY <1>2, <1>3, <1>6, <2>4
    <2>5. CASE item.on = "inner_getter" /\ item.attrs = InnerMeta(args.meta, "getter")
      BY <1>2, <1>3, <1>7, <2>5
    <2> QED
      BY <2>1, <2>2, <2>3, <2>4, <2>5 DEF ModelItems, UpdaterStructItems, GetterStructItems
  <1> QED
    BY <1>8, <1>9

\* What is written at none of its places is not on a struct or on an inner value.
LEMMA NotOfStructs ==
    ASSUME NEW p, NEW kind \in {"updater", "getter"},
           p \notin {"base", "updater", "getter", "inner_updater", "inner_getter", "opaque"}
    PROVE  /\ Times(p, OuterMeta(args.meta, kind) \o Frb("opaque")) = 0
           /\ Times(p, InnerMeta(args.meta, kind)) = 0
  <1> DEFINE outer == OuterMeta(args.meta, kind)
             opaque == Frb("opaque")
  <1>1. outer \in Seq(Attributes) /\ Times(p, outer) = 0
    <2>1. /\ OuterMeta(args.meta, kind) \in Seq(Attributes)
          /\ Times(p, OuterMeta(args.meta, kind))
                = IF p \in {"base", kind} \cap args.meta THEN 1 ELSE 0
      BY TimesOuter
    <2>2. p \notin {"base", kind}
      OBVIOUS
    <2> QED
      BY <2>1, <2>2
  <1>2. Times(p, InnerMeta(args.meta, kind)) = 0
    BY TimesInner
  <1>3. opaque \in Seq(Attributes) /\ Times(p, opaque) = 0
    <2>1. "opaque" \in Attributes /\ p # "opaque"
      BY DEF Attributes
    <2> QED
      BY <2>1, TimesFrb
  <1> HIDE DEF outer, opaque
  <1>4. Times(p, outer \o opaque) = Times(p, outer) + Times(p, opaque)
    BY <1>1, <1>3, TimesConcat
  <1> QED
    BY <1>1, <1>2, <1>3, <1>4 DEF outer, opaque

\* The attributes of the message enum arrive.
LEMMA EnumPasted ==
    ASSUME args \in ModelArgs
    PROVE  Pasted(ToSet(args.messageMeta), ModelItems, ForEnum)
  <1>1. args.messageMeta = <<>> \/ args.messageMeta = <<"enum">>
    BY ModelArgsAssumption
  <1>2. \A p \in ToSet(args.messageMeta) : p = "enum" /\ args.messageMeta = <<"enum">>
    BY <1>1 DEF ToSet
  <1> SUFFICES ASSUME NEW p, p = "enum", args.messageMeta = <<p>>, NEW item \in ModelItems
               PROVE  Times(p, item.attrs) = IF item.on = "message_enum" THEN 1 ELSE 0
    BY <1>2 DEF Pasted, ForEnum
  <1>3. /\ p \notin {"base", "updater", "getter", "inner_updater", "inner_getter", "opaque"}
        /\ "opaque" \in Attributes /\ <<p>> \in Seq(Attributes)
    BY DEF Attributes
  <1>4. Frb("opaque") \in Seq(Attributes) /\ Times(p, Frb("opaque")) = 0
    BY <1>3, TimesFrb
  <1>5. CASE item = EnumItem
    <2>1. Times(p, <<p>>) = 1
      BY TimesFew
    <2>2. Times(p, <<p>> \o Frb("opaque")) = Times(p, <<p>>) + Times(p, Frb("opaque"))
      BY <1>3, <1>4, TimesConcat
    <2>3. item.on = "message_enum" /\ item.attrs = <<p>> \o Frb("opaque")
      BY <1>5 DEF EnumItem
    <2> QED
      BY <1>4, <2>1, <2>2, <2>3
  <1>6. ASSUME NEW kind \in {"updater", "getter"}
        PROVE  /\ Times(p, OuterMeta(args.meta, kind) \o Frb("opaque")) = 0
               /\ Times(p, InnerMeta(args.meta, kind)) = 0
    BY <1>3, NotOfStructs
  <1>7. CASE item \in UpdaterStructItems \cup GetterStructItems
    <2>1. item.on # "message_enum"
      BY <1>7 DEF UpdaterStructItems, GetterStructItems
    <2>2. \E kind \in {"updater", "getter"} :
            \/ item.attrs = OuterMeta(args.meta, kind) \o Frb("opaque")
            \/ item.attrs = InnerMeta(args.meta, kind)
      BY <1>7 DEF UpdaterStructItems, GetterStructItems
    <2> QED
      BY <1>6, <2>1, <2>2
  <1> QED
    BY <1>5, <1>7 DEF ModelItems

\* The attributes of new arrive, and those that are for nothing there do not.
LEMMA NewPasted ==
    ASSUME newFn # <<>>, Last(newFn) \in Methods
    PROVE  Pasted(Last(newFn).meta, NewItems, ForNew)
  <1> DEFINE meta == Last(newFn).meta
  <1> SUFFICES ASSUME NEW p \in meta, NEW item \in NewItems
               PROVE  Times(p, item.attrs) = IF item.on \in ForNew(p) THEN 1 ELSE 0
    BY DEF Pasted
  <1>1. ASSUME NEW kind \in {"updater", "getter"}
        PROVE  Times(p, NewMeta(kind)) = IF p \in {"base", kind} THEN 1 ELSE 0
    <2> DEFINE outer == OuterMeta(meta, kind)
               sync == Frb("sync")
    <2>1. outer \in Seq(Attributes) /\ Times(p, outer) = IF p \in {"base", kind} THEN 1 ELSE 0
      <3>1. p \in meta
        OBVIOUS
      <3> HIDE DEF meta
      <3>2. /\ OuterMeta(meta, kind) \in Seq(Attributes)
            /\ Times(p, OuterMeta(meta, kind))
                    = IF p \in {"base", kind} \cap meta THEN 1 ELSE 0
        BY TimesOuter
      <3> QED
        BY <3>1, <3>2
    <2>2. sync \in Seq(Attributes) /\ Times(p, sync) = 0
      <3>1. "sync" \in Attributes /\ p # "sync"
        BY MethodsAssumption DEF Attributes, Places
      <3> QED
        BY <3>1, TimesFrb
    <2>3. NewMeta(kind) = outer \o sync \o sync
      BY DEF NewMeta
    <2> HIDE DEF outer, sync
    <2>4. /\ outer \o sync \in Seq(Attributes)
          /\ Times(p, outer \o sync) = Times(p, outer) + Times(p, sync)
      BY <2>1, <2>2, TimesConcat
    <2>5. Times(p, (outer \o sync) \o sync) = Times(p, outer \o sync) + Times(p, sync)
      BY <2>2, <2>4, TimesConcat
    <2> QED
      BY <2>1, <2>2, <2>3, <2>4, <2>5
  <1>2. ForNew(p) = CASE p = "base" -> {"updater_new", "getter_new"}
                      [] p = "updater" -> {"updater_new"}
                      [] p = "getter" -> {"getter_new"}
                      [] OTHER -> {}
    BY DEF ForNew
  <1>3. CASE item.on = "updater_new" /\ item.attrs = NewMeta("updater")
    BY <1>1, <1>2, <1>3
  <1>4. CASE item.on = "getter_new" /\ item.attrs = NewMeta("getter")
    BY <1>1, <1>2, <1>4
  <1> QED
    BY <1>3, <1>4 DEF NewItems

\* The attributes of an updater arrive.
LEMMA UpdaterPasted ==
    ASSUME NEW m \in Methods, UpdaterArgsValid(m)
    PROVE  Useful(m.meta, ForUpdater) /\ Pasted(m.meta, UpdaterItems(m), ForUpdater)
  <1> SUFFICES ASSUME NEW p \in m.meta
               PROVE  /\ ForUpdater(p) # {}
                      /\ \A item \in UpdaterItems(m) :
                            Times(p, item.attrs) = IF item.on \in ForUpdater(p) THEN 1 ELSE 0
    BY DEF Useful, Pasted
  <1>1. p \in Places /\ p \notin {"inner_updater", "inner_getter", "getter"}
    BY MethodsAssumption DEF UpdaterArgsValid
  <1>2. p \in {"base", "message", "fns", "updater"}
    BY <1>1 DEF Places
  <1>3. ForUpdater(p) = CASE p = "base" -> {"variant", "updater_fn"}
                          [] p = "message" -> {"variant"}
                          [] p = "fns" -> {"updater_fn"}
                          [] p = "updater" -> {"updater_fn"}
    BY <1>2 DEF ForUpdater
  <1>4. /\ Times(p, MessageMeta(m)) = IF p \in {"base", "message"} THEN 1 ELSE 0
        /\ Times(p, FnMeta(m, "updater")) = IF p \in {"base", "fns", "updater"} THEN 1 ELSE 0
    BY TimesFnMeta
  <1>5. ForUpdater(p) # {}
    BY <1>2, <1>3
  <1>6. ASSUME NEW item \in UpdaterItems(m)
        PROVE  Times(p, item.attrs) = IF item.on \in ForUpdater(p) THEN 1 ELSE 0
    <2>1. CASE item.on = "variant" /\ item.attrs = MessageMeta(m)
      BY <1>2, <1>3, <1>4, <2>1
    <2>2. CASE item.on = "updater_fn" /\ item.attrs = FnMeta(m, "updater")
      BY <1>2, <1>3, <1>4, <2>2
    <2> QED
      BY <2>1, <2>2 DEF UpdaterItems
  <1> QED
    BY <1>5, <1>6

\* The attributes of a getter arrive.
LEMMA GetterPasted ==
    ASSUME NEW m \in Methods, GetterArgsValid(m)
    PROVE  Useful(m.meta, ForGetter) /\ Pasted(m.meta, GetterItems(m), ForGetter)
  <1> SUFFICES ASSUME NEW p \in m.meta
               PROVE  /\ ForGetter(p) # {}
                      /\ \A item \in GetterItems(m) :
                            Times(p, item.attrs) = IF item.on \in ForGetter(p) THEN 1 ELSE 0
    BY DEF Useful, Pasted
  <1>1. p \in Places /\ p \notin {"inner_updater", "inner_getter", "updater"}
    BY MethodsAssumption DEF GetterArgsValid
  <1>2. p \in {"base", "message", "fns", "getter"} /\ "sync_getter" \in Attributes
    BY <1>1 DEF Places, Attributes
  <1>3. ForGetter(p) = CASE p = "base" -> {"message_struct", "getter_fn"}
                         [] p = "message" -> {"message_struct"}
                         [] p = "fns" -> {"getter_fn"}
                         [] p = "getter" -> {"getter_fn"}
    BY <1>2 DEF ForGetter
  <1>4. Times(p, MessageMeta(m)) = IF p \in {"base", "message"} THEN 1 ELSE 0
    BY TimesFnMeta
  <1>5. Times(p, FnMeta(m, "getter") \o Frb("sync_getter"))
            = IF p \in {"base", "fns", "getter"} THEN 1 ELSE 0
    <2>1. /\ FnMeta(m, "getter") \in Seq(Attributes)
          /\ Times(p, FnMeta(m, "getter")) = IF p \in {"base", "fns", "getter"} THEN 1 ELSE 0
      BY TimesFnMeta
    <2>2. Frb("sync_getter") \in Seq(Attributes) /\ Times(p, Frb("sync_getter")) = 0
      BY <1>2, TimesFrb
    <2> QED
      BY <2>1, <2>2, TimesConcat
  <1>6. ForGetter(p) # {}
    BY <1>2, <1>3
  <1>7. ASSUME NEW item \in GetterItems(m)
        PROVE  Times(p, item.attrs) = IF item.on \in ForGetter(p) THEN 1 ELSE 0
    <2>1. CASE item.on = "message_struct" /\ item.attrs = MessageMeta(m)
      BY <1>2, <1>3, <1>4, <2>1
    <2>2. CASE item.on = "getter_fn" /\ item.attrs = FnMeta(m, "getter") \o Frb("sync_getter")
      BY <1>2, <1>3, <1>5, <2>2
    <2> QED
      BY <2>1, <2>2 DEF GetterItems
  <1> QED
    BY <1>6, <1>7

\* Of the code that is generated, for any methods and arguments: each attribute of
\* the model, its message enum, an updater or a getter is pasted once on each thing
\* that its place is for and nowhere else, and is for something; so is each of the
\* new that counts, except that those of messages, functions and inner values are
\* dropped there (attr.rs, generator.rs).
THEOREM MacroAttributesArrive == Spec => []AttributesArrive
  <1>1. ASSUME Parsed, Placed PROVE AttributesArrive
    <2> SUFFICES ASSUME outcome = "generated" PROVE AttributesArrive
      BY DEF AttributesArrive
    <2>1. /\ Useful(args.meta, ForModel) /\ Pasted(args.meta, ModelItems, ForModel)
          /\ Pasted(ToSet(args.messageMeta), ModelItems, ForEnum)
      BY <1>1, ModelPasted, EnumPasted DEF Placed
    <2>2. ASSUME newFn # <<>> PROVE Pasted(Last(newFn).meta, NewItems, ForNew)
      <3>1. Last(newFn) \in Methods
        BY <1>1, <2>2 DEF Parsed, Last
      <3> QED
        BY <2>2, <3>1, NewPasted
    <2>3. ASSUME NEW i \in DOMAIN updaters
          PROVE  /\ Useful(updaters[i].meta, ForUpdater)
                 /\ Pasted(updaters[i].meta, UpdaterItems(updaters[i]), ForUpdater)
      <3>1. updaters[i] \in Methods /\ UpdaterArgsValid(updaters[i])
        BY <1>1 DEF Parsed, Placed
      <3> QED
        BY <3>1, UpdaterPasted
    <2>4. ASSUME NEW i \in DOMAIN getters
          PROVE  /\ Useful(getters[i].meta, ForGetter)
                 /\ Pasted(getters[i].meta, GetterItems(getters[i]), ForGetter)
      <3>1. getters[i] \in Methods /\ GetterArgsValid(getters[i])
        BY <1>1 DEF Parsed, Placed
      <3> QED
        BY <3>1, GetterPasted
    <2> QED
      BY <2>1, <2>2, <2>3, <2>4 DEF AttributesArrive
  <1> QED
    BY <1>1, SpecParsed, SpecPlaced, PTL

-----------------------------------------------------------------------------
(* Types *)

\* A sequence with room takes one more.
LEMMA OneMore ==
    ASSUME NEW S, NEW m \in S, NEW s \in BoundedSeq(S, MaxMethods), Len(s) < MaxMethods
    PROVE  Append(s, m) \in BoundedSeq(S, MaxMethods)
  <1>1. PICK k \in 0..MaxMethods : s \in [1..k -> S]
    BY DEF BoundedSeq, SeqOf
  <1>2. k \in Nat /\ Len(s) = k /\ s \in Seq(S)
    BY <1>1, MaxMethodsAssumption
  <1>3. k + 1 \in 0..MaxMethods
    BY <1>1, <1>2, MaxMethodsAssumption
  <1>4. Append(s, m) \in [1..(k + 1) -> S]
    <2>1. Append(s, m) \in Seq(S) /\ Len(Append(s, m)) = k + 1
      BY <1>2
    <2> QED
      BY <2>1, LenProperties
  <1> QED
    BY <1>3, <1>4 DEF BoundedSeq, SeqOf

\* The lengths that the guard of Parse adds up.
LEMMA Lengths ==
    ASSUME NEW S, NEW s \in BoundedSeq(S, MaxMethods)
    PROVE  Len(s) \in Nat
  <1>1. PICK k \in 0..MaxMethods : s \in [1..k -> S]
    BY DEF BoundedSeq, SeqOf
  <1> QED
    BY <1>1, MaxMethodsAssumption

\* Every method of an impl block is kept among those of its kind, and the macro
\* ends with code or an error, for any methods and arguments (model.rs, parser.rs).
THEOREM MacroTypeOK == Spec => []TypeOK
  <1> DEFINE news == {m \in Methods : IsNew(m)}
             ups == {m \in Methods : IsUpdater(m)}
             gets == {m \in Methods : IsGetter(m)}
  <1>1. \A S : <<>> \in BoundedSeq(S, MaxMethods)
    <2>1. \A S : <<>> \in [1..0 -> S]
      OBVIOUS
    <2>2. 0 \in 0..MaxMethods
      BY MaxMethodsAssumption
    <2> QED
      BY <2>1, <2>2 DEF BoundedSeq, SeqOf
  <1>2. Init => TypeOK
    BY <1>1 DEF Init, TypeOK
  <1>3. ASSUME TypeOK, NEW m \in Methods, Parse(m) PROVE TypeOK'
    <2>1. Len(newFn) < MaxMethods /\ Len(updaters) < MaxMethods /\ Len(getters) < MaxMethods
      <3>1. Len(newFn) \in Nat /\ Len(updaters) \in Nat /\ Len(getters) \in Nat
        BY <1>3, Lengths DEF TypeOK
      <3> QED
        BY <1>3, <3>1, MaxMethodsAssumption DEF Parse
    <2>2. newFn' \in BoundedSeq(news, MaxMethods)
      <3>1. CASE IsNew(m)
        BY <1>3, <2>1, <3>1, OneMore DEF TypeOK, Parse
      <3>2. CASE ~IsNew(m)
        BY <1>3, <3>2 DEF TypeOK, Parse
      <3> QED
        BY <3>1, <3>2
    <2>3. updaters' \in BoundedSeq(ups, MaxMethods)
      <3>1. CASE IsUpdater(m)
        BY <1>3, <2>1, <3>1, OneMore DEF TypeOK, Parse
      <3>2. CASE ~IsUpdater(m)
        BY <1>3, <3>2 DEF TypeOK, Parse
      <3> QED
        BY <3>1, <3>2
    <2>4. getters' \in BoundedSeq(gets, MaxMethods)
      <3>1. CASE IsGetter(m)
        BY <1>3, <2>1, <3>1, OneMore DEF TypeOK, Parse
      <3>2. CASE ~IsGetter(m)
        BY <1>3, <3>2 DEF TypeOK, Parse
      <3> QED
        BY <3>1, <3>2
    <2> QED
      BY <1>3, <2>2, <2>3, <2>4 DEF TypeOK, Parse
  <1>4. TypeOK /\ [Next]_vars => TypeOK'
    BY <1>3 DEF Next, Generate, vars, TypeOK
  <1> QED
    BY <1>2, <1>4, PTL DEF Spec
=============================================================================
