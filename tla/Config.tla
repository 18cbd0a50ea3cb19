-------------------------------- MODULE Config ---------------------------------
(***************************************************************************)
(* LoadConfigFromEnv of src/config.cpp: from the environment's texts to    *)
(* the ServerConfig of the process, or to an exception.                    *)
(*                                                                         *)
(* A parser returns the set of what it may return: one value, or none when *)
(* it throws.  A number's text is its sign, its digits and whether other   *)
(* characters follow them; a path is a sequence of "/" and names.          *)
(***************************************************************************)
EXTENDS Integers, Sequences, FiniteSets, SequencesExt

CONSTANTS
    Unset,               \* a variable that is not set, or empty
    IntBits,             \* width of int and int32_t
    LongBits,            \* width of long
    kMaxUnixPathLength,  \* 107 bytes
    HardwareThreads      \* std::thread::hardware_concurrency()

ASSUME ConfigAssumption ==
    /\ IntBits \in Nat \ {0} /\ LongBits \in Nat \ {0}
    /\ kMaxUnixPathLength \in Nat
    /\ HardwareThreads \in Nat

Variables ==
    {"MTDD_LISTEN", "MTDD_HOST_INDEX", "MTDD_POOL_SIZE", "MTDD_PG_FETCH_ROWS",
     "MTDD_PG_WIRE_BATCH_ROWS", "MTDD_PG_CONNECT_TIMEOUT_SEC", "MTDD_MAX_SESSIONS",
     "MTDD_GRPC_MAX_THREADS", "MTDD_ENV", "MTDD_GRPC_REFLECTION", "MTDD_NOTIFY_ENABLED",
     "MTDD_STATEMENT_TIMEOUT_MS", "MTDD_MAX_QUERY_TEXT_BYTES",
     "MTDD_MAX_NOTIFY_PAYLOAD_BYTES", "MTDD_MAX_NOTIFY_CHANNEL_BYTES",
     "MTDD_HEALTH_PROBE_INTERVAL_SEC", "MTDD_HEALTH_REQUIRE_PG", "MTDD_UNIX_SOCKET_MODE",
     "MTDD_UNIX_SOCKET_DIR_MODE", "MTDD_UNIX_SOCKET_CREATE_DIR", "MTDD_GRPC_TLS",
     "MTDD_ALLOW_TCP_LISTEN"}

-----------------------------------------------------------------------------
(***************************************************************************)
(* Numbers.                                                                *)
(***************************************************************************)
Clamp(v, limit) == IF v > limit THEN limit ELSE v

\* std::strtol (external): the value saturates, and "whole" says that there was
\* a number and nothing after it.
strtol(text, base) ==
    LET top == 2^(LongBits - 1)
        size == FoldLeft(LAMBDA v, d : Clamp(v * base + d, top), 0, text.digits)
    IN  [value |-> IF text.minus THEN -size ELSE Clamp(size, top - 1),
         whole |-> /\ text.digits # <<>> /\ ~text.rest
                   /\ \A i \in DOMAIN text.digits : text.digits[i] < base]

\* static_cast<int> of a long keeps the low bits.
ToInt(v) == ((v + 2^(IntBits - 1)) % 2^IntBits) - 2^(IntBits - 1)

\* What a parser returns: v, or nothing (it throws).
ValueIf(accepted, v) == IF accepted THEN {v} ELSE {}

ParsePositiveInt(text, default_value) ==
    IF text = Unset THEN {default_value}
    ELSE LET parsed == strtol(text, 10)
         IN  ValueIf(parsed.whole /\ parsed.value > 0, ToInt(parsed.value))

ParseNonNegativeInt(text, default_value) ==
    IF text = Unset THEN {default_value}
    ELSE LET parsed == strtol(text, 10)
         IN  ValueIf(parsed.whole /\ parsed.value >= 0, ToInt(parsed.value))

\* Mutant of ParseOctalMode: the digits are read as decimal.
ParseDecimalMode(text, default_value) ==
    IF text = Unset THEN {default_value}
    ELSE LET parsed == strtol(text, 10)
         IN  ValueIf(parsed.whole /\ parsed.value \in 0..511, ToInt(parsed.value))

\* 511 is 0777.
ParseOctalMode(text, default_value) ==
    IF text = Unset THEN {default_value}
    ELSE LET parsed == strtol(text, 8)
         IN  ValueIf(parsed.whole /\ parsed.value \in 0..511, ToInt(parsed.value))

\* std::nullopt is Unset.
ParseOptionalHostIndex(text) == ParseNonNegativeInt(text, Unset)

-----------------------------------------------------------------------------
(***************************************************************************)
(* Where to listen.                                                        *)
(***************************************************************************)

\* Leading slashes become one; what remains must be absolute.
NormalizeUnixPath(path) ==
    LET first == CHOOSE i \in 1..Len(path) :
                    /\ \A j \in 1..i - 1 : path[j] = "/"
                    /\ path[i] # "/" \/ i = Len(path)
        names == SubSeq(path, first, Len(path))
    IN  IF path = <<>> \/ path[1] # "/" THEN {}
        ELSE {IF names[1] = "/" THEN names ELSE <<"/">> \o names}

DefaultPath == <<"/", "run", "/", "mtdd", "/", "grpc.sock">>

\* The value of MTDD_LISTEN is its form, and the path or the port in it.
ParseListen(value) ==
    LET unix(path) == [mode |-> "Unix", path |-> path, port |-> 50051]
        tcp(port) == [mode |-> "Tcp", path |-> DefaultPath, port |-> port]
    IN  CASE value = Unset -> {unix(DefaultPath)}
          [] value # Unset /\ value.form = "unix" ->
                {unix(path) : path \in NormalizeUnixPath(value.path)}
          [] value # Unset /\ value.form = "host:port" ->
                {tcp(port) : port \in ParsePositiveInt(value.port, 50051)}
          [] OTHER -> {}

PathContainsDotDot(path) == ".." \in ToSet(path)

\* A path's size is the number of its slashes and names.
ValidateUnixSocketPath(path) ==
    /\ path # <<>> /\ path[1] = "/"
    /\ Len(path) <= kMaxUnixPathLength
    /\ path[Len(path)] # "/"
    /\ ~PathContainsDotDot(path)

-----------------------------------------------------------------------------
(***************************************************************************)
(* The rest of the environment.                                            *)
(***************************************************************************)

\* "yes" and "no" stand for all the words taken for TRUE and for FALSE.
ParseBoolEnv(value, default_value) ==
    IF value = Unset THEN {default_value}
    ELSE ValueIf(value \in {"yes", "no"}, value = "yes")

IsProductionEnv(value) == IF value = Unset THEN FALSE ELSE value \in {"production", "prod"}

\* One of the MTDD_GRPC_TLS* variables is set.
RejectServerTlsEnv(env) == env["MTDD_GRPC_TLS"] # Unset

ValidateProductionConfig(config, env) ==
    config.production_mode =>
        /\ config.host_index # Unset
        /\ config.listen.mode = "Unix" \/ TRUE \in ParseBoolEnv(env["MTDD_ALLOW_TCP_LISTEN"], FALSE)

\* The ServerConfig, or nothing when startup ends with an exception.  The default
\* modes are 0660 and 0750.
LoadConfigFromEnv(env) ==
    LET production == IsProductionEnv(env["MTDD_ENV"])
        positive(name, default_value) == ParsePositiveInt(env[name], default_value)
        flag(name, default_value) == ParseBoolEnv(env[name], default_value)
    IN  {config \in
          [listen : ParseListen(env["MTDD_LISTEN"]),
           host_index : ParseOptionalHostIndex(env["MTDD_HOST_INDEX"]),
           pool_size : positive("MTDD_POOL_SIZE", 8),
           pg_fetch_rows : positive("MTDD_PG_FETCH_ROWS", 10000),
           pg_wire_batch_rows : positive("MTDD_PG_WIRE_BATCH_ROWS", 1000),
           pg_connect_timeout_sec : positive("MTDD_PG_CONNECT_TIMEOUT_SEC", 5),
           max_sessions : positive("MTDD_MAX_SESSIONS", 512),
           grpc_max_threads : positive("MTDD_GRPC_MAX_THREADS",
                                       IF HardwareThreads > 0 THEN HardwareThreads ELSE 4),
           production_mode : {production},
           grpc_reflection : flag("MTDD_GRPC_REFLECTION", ~production),
           notify_enabled : flag("MTDD_NOTIFY_ENABLED", TRUE),
           statement_timeout_ms : ParseNonNegativeInt(env["MTDD_STATEMENT_TIMEOUT_MS"], 0),
           max_query_text_bytes : positive("MTDD_MAX_QUERY_TEXT_BYTES", 2^20),
           max_notify_payload_bytes : positive("MTDD_MAX_NOTIFY_PAYLOAD_BYTES", 65535),
           max_notify_channel_bytes : positive("MTDD_MAX_NOTIFY_CHANNEL_BYTES", 63),
           health_probe_interval_sec : positive("MTDD_HEALTH_PROBE_INTERVAL_SEC", 30),
           health_require_pg : flag("MTDD_HEALTH_REQUIRE_PG", TRUE),
           unix_socket_mode : ParseOctalMode(env["MTDD_UNIX_SOCKET_MODE"], 432),
           unix_socket_dir_mode : ParseOctalMode(env["MTDD_UNIX_SOCKET_DIR_MODE"], 488),
           unix_socket_create_dir : flag("MTDD_UNIX_SOCKET_CREATE_DIR", FALSE)] :
            /\ ~RejectServerTlsEnv(env)
            /\ config.listen.mode = "Unix" => ValidateUnixSocketPath(config.listen.path)
            /\ ValidateProductionConfig(config, env)}
=============================================================================
