-------------------------- MODULE BackendDispatch --------------------------
(***************************************************************************)
(* Backend dispatch in R: R/zzz-backend-dispatch.R and R/aaa-backend-core.R*)
(* clone every public function and its helpers into one environment per    *)
(* backend, where names resolve to that backend's functions first, and     *)
(* leave in the namespace dispatchers that read the charr_backend option.  *)
(* Code of the caller runs in the middle of an operation, when an argument *)
(* is first used or a replacement function is called; it may change the    *)
(* option and call public functions.                                       *)
(***************************************************************************)
EXTENDS Integers, Sequences

\* The public functions that the caller's code calls outside any operation, in
\* the middle of one, and so on: a bound on the public calls in progress.
CONSTANT Called

VARIABLES
    option,     \* the charr_backend option
    stack,      \* frames, the running one last; each knows the backend its public
                \* operation was dispatched to, and how many operations are open
    seen        \* the backend of the leaf that ran or of charr_backend()'s answer,
                \* whichever was last, and the operation's

dispatch_vars == <<option, stack, seen>>

Options == {"reference", "base", "altrep", "other"}
Backends == {"stringi", "base", "altrep"}

\* An option that is no backend is an error.
charr_backend_value(value) ==
    CASE value = "reference" -> "stringi"
      [] value = "other" -> "error"
      [] OTHER -> value

\* Some of the public functions, and of the helpers these call the ones that
\* reach a backend.
backend_roots ==
    {"str_replace_all", "str_split", "str_locate_all", "str_sub_all", "str_detect",
     "str_view", "str_write_lines"}

DispatchAssumption == Called \in Seq(SUBSET backend_roots)

backend_helpers_incomplete == {"fix_replacement", "str_view_filter", "str_view_special"}
backend_helpers ==
    {"fix_replacement", "str_transform_all", "str_view_filter", "str_view_special"}

\* What a function does, in order: "user" is code of the caller, "leaf" a
\* function of the backend, "ask" a call of charr_backend().
template(name) ==
    CASE name \in {"str_split", "str_locate_all", "str_sub_all", "str_detect"} ->
            {<<"user", "leaf">>}
      [] name = "str_replace_all" ->
            {<<"user", "leaf">>, <<"user", "fix_replacement", "leaf">>,
             <<"user", "str_transform_all">>}
      [] name = "fix_replacement" -> {<<>>, <<"str_split">>}
      [] name = "str_transform_all" -> {<<"str_locate_all", "str_sub_all", "user", "leaf">>}
      [] name = "str_view" ->
            {<<"user", "str_view_filter">> \o highlight \o escape :
                highlight \in {<<>>, <<"str_replace_all">>},
                escape \in {<<"leaf", "str_replace_all">>, <<"str_view_special">>}}
      [] name = "str_view_filter" -> {<<>>, <<"str_detect">>}
      [] name = "str_view_special" -> {<<"str_replace_all">>}
      [] name = "str_write_lines" -> {<<"user", "ask", "leaf">>}

-----------------------------------------------------------------------------

\* The environment a function called from env runs in: the backend's clone,
\* the dispatcher's choice, or the namespace.
Resolve(name, env) ==
    IF env # "namespace" /\ name \in backend_roots \cup backend_helpers THEN env
    ELSE IF name \in backend_roots THEN charr_backend_value(option)
    ELSE "namespace"

\* The namespace imports stringi, so a leaf called from it is stringi's.
LeafOf(env) == IF env = "namespace" THEN "stringi" ELSE env

DispatchInit ==
    /\ option \in Options
    /\ stack = <<>>
    /\ seen = [by |-> "none", backend |-> "none", operation |-> "none"]

Top == stack[Len(stack)]
Advanced == [stack EXCEPT ![Len(stack)].rest = Tail(@)]

\* What happens next: outside an operation the caller's code runs.
Step ==
    IF stack = <<>> THEN "user" ELSE IF Top.rest = <<>> THEN "return" ELSE Top.rest[1]
Level == IF stack = <<>> THEN 0 ELSE Top.level

\* An error goes to the top, or to code of the caller that catches it.
Unwound ==
    {<<>>} \cup {SubSeq(stack, 1, k) : k \in {j \in DOMAIN stack :
                    stack[j].rest # <<>> /\ stack[j].rest[1] = "user"}}

Enter(frames, name, env, operation, level) ==
    IF env = "error" THEN stack' \in Unwound
    ELSE \E rest \in template(name) :
            stack' = Append(frames, [env |-> env, rest |-> rest,
                                     operation |-> operation, level |-> level])

\* charr_backend(value), or options() with any value.
SetOption(value) ==
    /\ Step = "user" /\ option' = value
    /\ UNCHANGED <<stack, seen>>

\* A public function is called, and its dispatcher reads the option.
CallPublic(name) ==
    /\ Step = "user" /\ Level < Len(Called) /\ name \in Called[Level + 1]
    /\ LET env == charr_backend_value(option) IN Enter(stack, name, env, env, Level + 1)
    /\ UNCHANGED <<option, seen>>

UserReturns ==
    /\ Step = "user" /\ stack # <<>>
    /\ stack' = Advanced
    /\ UNCHANGED <<option, seen>>

\* The operation calls another of charr's functions.
CallNested ==
    /\ Step \notin {"user", "leaf", "ask", "return"}
    /\ Enter(Advanced, Step, Resolve(Step, Top.env), Top.operation, Level)
    /\ UNCHANGED <<option, seen>>

CallLeaf ==
    /\ Step = "leaf"
    /\ seen' = [by |-> "leaf", backend |-> LeafOf(Top.env), operation |-> Top.operation]
    /\ stack' = Advanced
    /\ UNCHANGED option

\* str_write_lines() asks which backend it runs in: the reference takes no
\* missing values.
Ask ==
    /\ Step = "ask"
    /\ LET answer == charr_backend_value(option) IN
       IF answer = "error" THEN stack' \in Unwound /\ UNCHANGED seen
       ELSE /\ seen' = [by |-> "ask", backend |-> answer, operation |-> Top.operation]
            /\ \/ stack' = Advanced
               \/ answer = "stringi" /\ stack' \in Unwound
    /\ UNCHANGED option

Return ==
    /\ Step = "return"
    /\ stack' = SubSeq(stack, 1, Len(stack) - 1)
    /\ UNCHANGED <<option, seen>>

DispatchNext ==
    \/ \E value \in Options : SetOption(value)
    \/ \E name \in backend_roots : CallPublic(name)
    \/ UserReturns \/ CallNested \/ CallLeaf \/ Ask \/ Return

DispatchSpec == DispatchInit /\ [][DispatchNext]_dispatch_vars

-----------------------------------------------------------------------------

\* Every variable has its type.
DispatchTypeOK ==
    /\ option \in Options
    /\ \A k \in DOMAIN stack :
          /\ stack[k].env \in Backends \cup {"namespace"} /\ stack[k].operation \in Backends
          /\ stack[k].level \in DOMAIN Called
    /\ seen.backend \in Backends \cup {"none"}

\* Dispatch happens once, when a public operation starts: however deep its
\* calls nest, and whatever the caller's code does to the option meanwhile,
\* they end in leaves of the backend the operation was dispatched to.
OperationKeepsBackend ==
    /\ DispatchTypeOK
    /\ seen.by = "leaf" => seen.backend = seen.operation
    /\ \A k \in DOMAIN stack : stack[k].env = stack[k].operation

=============================================================================
