----------------------------- MODULE HostBuilder -----------------------------
(***************************************************************************)
(* HostBuilder of src/base/src/host.rs: a value that is passed from one    *)
(* setter to the next and is consumed by build, which expects a model and  *)
(* a spawner to be there.                                                  *)
(***************************************************************************)
EXTENDS Naturals

CONSTANTS
    States,             \* the types of state an application puts in its World
    MaxInterceptors,    \* bound on the interceptors added
    BufferSizes,        \* the sizes given to buffer_size
    DefaultBufferSize   \* DEFAULT_CHANNEL_BUFFER_SIZE

VARIABLES
    model,          \* HostBuilder.model is Some
    world,          \* the states in HostBuilder.world
    interceptors,   \* how many interceptors were added
    spawner,        \* HostBuilder.spawner is Some
    bufferSize,     \* HostBuilder.buffer_size
    built           \* what became of the builder

vars == <<model, world, interceptors, spawner, bufferSize, built>>

\* HostBuilder::default.
Init ==
    /\ model = FALSE
    /\ world = {}
    /\ interceptors = 0
    /\ spawner = FALSE
    /\ bufferSize = DefaultBufferSize
    /\ built = "not yet"

\* model and default_model.
SetModel ==
    /\ model' = TRUE
    /\ UNCHANGED <<world, interceptors, spawner, bufferSize>>

\* state and state_with: a state replaces one of its type.
AddState(s) ==
    /\ world' = world \cup {s}
    /\ UNCHANGED <<model, interceptors, spawner, bufferSize>>

AddInterceptor ==
    /\ interceptors < MaxInterceptors
    /\ interceptors' = interceptors + 1
    /\ UNCHANGED <<model, world, spawner, bufferSize>>

SetBufferSize(n) ==
    /\ bufferSize' = n
    /\ UNCHANGED <<model, world, interceptors, spawner>>

Setter ==
    \/ SetModel \/ AddInterceptor
    \/ \E s \in States : AddState(s)
    \/ \E n \in BufferSizes : SetBufferSize(n)

\* build: what is missing is reported by a panic.
Build ==
    /\ built' = IF ~model THEN "no model" ELSE IF ~spawner THEN "no spawner" ELSE "host"
    /\ UNCHANGED <<model, world, interceptors, spawner, bufferSize>>

Next == built = "not yet" /\ (Build \/ (Setter /\ UNCHANGED built))

Spec == Init /\ [][Next]_vars

\* A builder that was given a model builds a host: everything else has a
\* default or a setter (host.rs, Host::new, which calls model and then build).
BuildsWithModel == model /\ built # "not yet" => built = "host"
=============================================================================
