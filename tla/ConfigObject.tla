---------------------------- MODULE ConfigObject ----------------------------
(***************************************************************************)
(* jb::config_object: how a program gets its configuration from the        *)
(* defaults in the code, a YAML document and the command line.  A document *)
(* overrides attributes by name, and by class with keys that start with a  *)
(* colon; a map nested in the document is a scope with class overrides of  *)
(* its own.                                                                *)
(*                                                                         *)
(* A YAML node, a configuration and a command line are functions from      *)
(* paths (sequences of keys) to scalars, a sequence being a map from "0",  *)
(* "1", ...  A scalar is where it comes from: the path that set it.        *)
(***************************************************************************)
EXTENDS Integers, SequencesExt, TLC

CONSTANTS
    Index,       \* the keys of the elements of a list: "0", "1", ...
    Entries,     \* the paths a document may set
    Options,     \* the paths a command line may set
    MaxEntries,  \* bound: entries of a document
    MaxCodeSize  \* bound: elements the code puts into a list of objects

VARIABLES
    config,  \* path -> scalar, the attributes of the config_object
    doc,     \* the YAML document
    args,    \* the options of the command line
    status   \* "defaults", "ready", or "thrown" (po::unknown_option)

config_vars == <<config, doc, args, status>>

Default == <<"default">>
FromCode == <<"code">>
FromCmdline(p) == <<"--", p>>

\* An undefined or null node.
Undefined == [p \in {} |-> Default]
At(node, key) ==
    LET sub == {p \in DOMAIN node : p # << >> /\ Head(p) = key}
    IN  [q \in {Tail(p) : p \in sub} |-> node[<<key>> \o q]]
Keys(node) == {Head(p) : p \in DOMAIN node \ {<< >>}}
Nested(key, node) ==
    [p \in {<<key>> \o q : q \in DOMAIN node} |-> node[Tail(p)]]
Joined(nodes) ==
    [p \in UNION {DOMAIN n : n \in nodes} |->
        LET n == CHOOSE m \in nodes : p \in DOMAIN m IN n[p]]
-----------------------------------------------------------------------------
(* The classes and the attributes of the example program, with a worker    *)
(* that is not in a list and the affinity of jb::thread_config.            *)
Classes == {":worker_config", ":thread_config", ":cpu_set"}
Attributes == {"workers", "primary", "cl-device-name", "reader", "writer",
               "affinity"}

\* The keys of documents.
Key == Classes \cup Attributes \cup Range(Index)

\* The attributes of a class.
Named(class) ==
    CASE class = ":worker_config" -> {"workers", "primary"}
      [] class = ":thread_config" -> {"reader", "writer"}
      [] class = ":cpu_set"       -> {"affinity"}

\* What a key leads to, and the keys of a node for an object, a list or a
\* scalar.
TypeOf(key) ==
    CASE key = "workers" -> "list"
      [] key \in {"primary", ":worker_config"} \cup Range(Index) ->
            "worker_config"
      [] key \in {"reader", "writer", ":thread_config"} -> "thread_config"
      [] OTHER -> "scalar"
KeysOf(type) ==
    CASE type = "program_config" -> {"workers", "primary"} \cup Classes
      [] type = "list"           -> Range(Index)
      [] type = "worker_config"  ->
            {"cl-device-name", "reader", "writer"} \cup Classes
      [] type = "thread_config"  -> {"affinity"} \cup Classes
      [] OTHER -> {}

\* The paths to the scalars of a node that a reader of the type can convert.
TypeAt(type, path, i) == IF i = 0 THEN type ELSE TypeOf(path[i])
WellFormed(type, path) ==
    /\ \A i \in 1..Len(path) : path[i] \in KeysOf(TypeAt(type, path, i - 1))
    /\ TypeAt(type, path, Len(path)) = "scalar"

(* Entries that the code rejects or ignores are left out.  Six elements are*)
(* what a list can get from the override of its class, whose keys are taken*)
(* for elements.                                                           *)
ASSUME ConfigObjectAssumption ==
    /\ Index \in Seq(STRING) /\ IsInjective(Index) /\ Len(Index) >= 6
    /\ Range(Index) \cap (Classes \cup Attributes) = {}
    /\ Entries \subseteq Seq(Key)
    /\ \A e \in Entries : WellFormed("program_config", e)
    /\ MaxEntries \in Nat /\ MaxCodeSize \in 0..Len(Index)

\* An object as its default constructor makes it.
WorkerLeaves ==
    {<<"cl-device-name">>, <<"reader", "affinity">>, <<"writer", "affinity">>}
Constructed(leaves) == [p \in leaves |-> Default]
-----------------------------------------------------------------------------
\* Faulty variant: what the target has is kept.
merge_node_keep(target, source) == target @@ source

\* merge_node, merge_map and merge_sequences.
merge_node(target, source) ==
    [p \in DOMAIN source \cup DOMAIN target |->
        IF p \in DOMAIN source THEN source[p] ELSE target[p]]

\* Faulty variant: the inner scope replaces the outer one.
merge_fresh(by_class, node) == [c \in Classes |-> At(node, c)]

\* merge, on a clone of the overrides of the outer scope.
merge(by_class, node) ==
    [c \in Classes |-> merge_node(by_class[c], At(node, c))]

\* Faulty variant: the nodes of the outer scope are not cloned, and take in
\* the class overrides of every attribute.
ScopeUncloned(by_class, container, name) ==
    FoldSet(LAMBDA key, scope : merge(scope, At(container, key)),
            by_class, Keys(container))

\* The scope of an attribute: the outer one and the class overrides of the
\* node that has its name.
ScopeOf(by_class, container, name) == merge(by_class, At(container, name))

\* apply_overrides for an attribute of an object: by its class, then by its
\* name, with the apply_overrides of its type.
Override(Apply(_, _, _), class, name, value, by_name, by_class) ==
    LET OfItsClass ==
            IF class = "" \/ by_class[class] = Undefined THEN At(value, name)
            ELSE Apply(At(value, name), by_class[class], by_class)
    IN  Nested(name, Apply(OfItsClass, At(by_name, name),
                           ScopeOf(by_class, by_name, name)))

\* apply_overrides, for scalars and for each class of objects.
override_scalar(value, by_name, by_class) ==
    IF by_name = Undefined THEN value ELSE by_name
override_thread_config(value, by_name, by_class) ==
    Override(override_scalar, ":cpu_set", "affinity", value, by_name, by_class)
override_worker_config(value, by_name, by_class) ==
    Joined({
        Override(override_scalar, "", "cl-device-name",
                 value, by_name, by_class),
        Override(override_thread_config, ":thread_config", "reader",
                 value, by_name, by_class),
        Override(override_thread_config, ":thread_config", "writer",
                 value, by_name, by_class)})

(* apply_overrides, for lists of objects.  The elements of a list that is  *)
(* given a map are one undefined node for each entry of the map.           *)
override_list(value, by_name, by_class) ==
    LET given == Cardinality(Keys(by_name))
        size == Cardinality(Keys(value))
        Element(i) == IF i <= size THEN At(value, Index[i])
                      ELSE Constructed(WorkerLeaves)
        Overridden(i) ==
            IF i <= given
            THEN override_worker_config(Element(i), At(by_name, Index[i]),
                                        by_class)
            ELSE Element(i)
    IN  Joined({Nested(Index[i], Overridden(i)) :
                   i \in {j \in DOMAIN Index : j <= given \/ j <= size}})

override_program_config(value, by_name, by_class) ==
    Joined({
        Override(override_list, ":worker_config", "workers",
                 value, by_name, by_class),
        Override(override_worker_config, ":worker_config", "primary",
                 value, by_name, by_class)})

\* apply_overrides, for a document.
apply_overrides(value, node) ==
    override_program_config(value, node,
                            merge([c \in Classes |-> Undefined], node))

\* Faulty variant: the command line only fills in what is still a default.
cmdline_values_weak(target, given) ==
    [p \in DOMAIN target |->
        IF p \in given /\ target[p] = Default THEN FromCmdline(p)
        ELSE target[p]]

\* apply_cmdline_values, for scalars.
cmdline_values(target, given) ==
    [p \in DOMAIN target |->
        IF p \in given THEN FromCmdline(p) ELSE target[p]]

\* add_options and apply_cmdline_values, for lists: an empty list has the
\* options of one element, and gets that element.
WithFirstElement(target) ==
    IF "workers" \in Keys(target) THEN target
    ELSE Joined({target, Nested("workers",
                    Nested(Index[1], Constructed(WorkerLeaves)))})
-----------------------------------------------------------------------------
\* The YAML documents: the elements of a list are numbered from 0.
Elements(paths) == {p[2] : p \in {q \in paths : q[1] = "workers"}}
Documents ==
    {d \in UNION {kSubset(k, Entries) : k \in 0..MaxEntries} :
        \E n \in 0..Len(Index) : Elements(d) = {Index[i] : i \in 1..n}}

\* A program makes its configuration; it may give some lists elements.
ConfigInit ==
    /\ \E size \in 0..MaxCodeSize :
        config = Joined(
            {Nested("primary", Constructed(WorkerLeaves))} \cup
            {Nested("workers", Nested(Index[i],
                [p \in WorkerLeaves |-> FromCode])) : i \in 1..size})
    /\ doc = Undefined
    /\ args \in SUBSET Options
    /\ status = "defaults"

\* process_cmdline, after the overrides of the document.
process_cmdline(overridden) ==
    LET target == WithFirstElement(overridden)
    IN  \/ /\ args \subseteq DOMAIN target
           /\ config' = cmdline_values(target, args)
           /\ status' = "ready"
        \/ /\ ~(args \subseteq DOMAIN target)
           /\ config' = overridden
           /\ status' = "thrown"

\* load_overrides; a program without a configuration file has an empty
\* document.
load_overrides ==
    /\ status = "defaults"
    /\ UNCHANGED args
    /\ \E d \in Documents :
        /\ doc' = [p \in d |-> p]
        /\ process_cmdline(apply_overrides(config, doc'))

ConfigNext == load_overrides
ConfigSpec == ConfigInit /\ [][ConfigNext]_config_vars
-----------------------------------------------------------------------------
IsClassKey(key) == key \in Classes

\* The scope of an override: its keys before the first class.
Scope(entry) ==
    LET n == SelectInSeq(entry, IsClassKey)
    IN  IF n = 0 THEN entry ELSE SubSeq(entry, 1, n - 1)
FromScope(entry) == SubSeq(entry, Len(Scope(entry)) + 1, Len(entry))
OfClass(entry) == Scope(entry) # entry

(* The command line beats the document, and what the document says of an   *)
(* attribute by its name beats what it says of its class in any scope.     *)
ByNameWins ==
    status = "ready" =>
        /\ \A p \in args : config[p] = FromCmdline(p)
        /\ \A p \in DOMAIN doc \ args :
              ~OfClass(p) => p \in DOMAIN config /\ config[p] = p

(* "While this configuration only applies to the objects in this scope":   *)
(* no attribute has a value that the document gives in a scope it is not   *)
(* in.                                                                     *)
ScopesIsolated ==
    \A p \in DOMAIN config :
        config[p] \in DOMAIN doc => IsPrefix(Scope(config[p]), p)

(* Of two scopes around an attribute that override the same class, the     *)
(* inner one wins, if it holds an object of that class around the          *)
(* attribute.  (An element of a list is not a scope: the code takes no     *)
(* class overrides from it.)                                               *)
InnermostScopeWins ==
    \A p \in DOMAIN config :
        config[p] \in DOMAIN doc /\ OfClass(config[p]) =>
            ~ \E e \in DOMAIN doc :
                /\ FromScope(e) = FromScope(config[p])
                /\ IsStrictPrefix(Scope(config[p]), Scope(e))
                /\ IsPrefix(Scope(e), p)
                /\ Last(Scope(e)) \notin Range(Index)
                /\ \E i \in Len(Scope(e)) + 1..Len(p) :
                      p[i] \in Named(Head(FromScope(e)))

\* The key n of a path leads to an object of a class: an attribute of that
\* class, or an element of a list of such objects.
IsElement(p, n) == n > 1 /\ p[n] \in Range(Index)
IsOfClass(p, n, class) ==
    p[IF IsElement(p, n) THEN n - 1 ELSE n] \in Named(class)

\* The entry e overrides, at the outermost level, the class of the attribute
\* p or of an object it is in; ObjectOf is where the key of that object is.
ObjectOf(e, p) == Len(p) - Len(e) + 1
OverridesClass(e, p) ==
    /\ IsClassKey(Head(e)) /\ ~ \E i \in 2..Len(e) : IsClassKey(e[i])
    /\ Len(e) <= Len(p) /\ Tail(e) = SubSeq(p, ObjectOf(e, p) + 1, Len(p))
    /\ IsOfClass(p, ObjectOf(e, p), Head(e))

\* In a list, only the elements that the document gives are overridden.
InDocument(p) ==
    Head(p) = "workers" => \E e \in DOMAIN doc : IsPrefix(SubSeq(p, 1, 2), e)

(* "This override applies to all objects of type config0, wherever they    *)
(* are found" - if they are attributes: no value in such an object that the*)
(* document overrides at its outermost level stays as the code made it.    *)
(* Two kinds of objects are left out, which the code does not reach:       *)
(*   - the elements of a list, for the class of the list: the keys of that *)
(*     override are taken for elements.  An attribute inside an element is *)
(*     reached by the overrides of its own class;                          *)
(*   - whatever is in an element of a list that the document does not have.*)
ClassOverridesReach ==
    status # "defaults" =>
        \A p \in DOMAIN config, e \in DOMAIN doc :
            OverridesClass(e, p) /\ ~IsElement(p, ObjectOf(e, p)) /\ InDocument(p) =>
                config[p] \notin {Default, FromCode}
=============================================================================
