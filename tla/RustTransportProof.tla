------------------------- MODULE RustTransportProof -------------------------
(***************************************************************************)
(* Proofs about the configuration of the Rust channel, whatever the number *)
(* of options that are set at once.                                        *)
(*                                                                         *)
(* The steps of from_config_args are told apart only where they have to    *)
(* be: the invariant says that the steps made so far gave no error and     *)
(* that ClientConfig holds what they gave (Made), and is kept by one       *)
(* argument for all of them.                                               *)
(***************************************************************************)
EXTENDS RustTransport, TLAPS

Options == DOMAIN Texts

EnvInv == DOMAIN env = Options /\ \A o \in Options : env[o] \in Texts[o] \cup {"not unicode"}

\* What from_env leaves: readable texts and the three flags.
EnvRead ==
  /\ \A o \in Options : env[o] \in Texts[o]
  /\ \A o \in BoolOptions : o \in DOMAIN config /\ config[o] = IsTrue(env[o])

\* What a step gives, as a function of the environment alone.
Expected(name) ==
  IF name = "override_target" THEN OverrideTarget(env, Endpoint(env).value) ELSE Step(name)

\* The first k steps were made.
Made(k) ==
  \A j \in 1 .. k :
    /\ Steps[j] \in DOMAIN config
    /\ Expected(Steps[j]).error = "none"
    /\ config[Steps[j]] = Expected(Steps[j]).value

\* What https_connector makes of the configuration.
Secured ==
  /\ tls = [verified |-> Verified, identity |-> config.identity,
            name |-> IF config.override_target = NoUri THEN config.endpoint.authority
                     ELSE config.override_target.authority,
            nodelay |-> ~config.tcp_nagle_algorithm,
            keepalive |-> <<config.tcp_keepalive, config.tcp_keepalive_interval,
                            config.tcp_keepalive_retries>>,
            connect_timeout |-> config.connect_timeout]
  /\ config.identity # "unusable"
  /\ ~NamesNoServer

\* What connect makes of it.
Settings ==
  /\ channel = [origin |-> IF config.override_target = NoUri THEN config.endpoint
                           ELSE config.override_target,
                timeout |-> config.timeout, rate_limit |-> config.rate_limit,
                pings |-> <<config.http2_keep_alive_interval, config.http2_keep_alive_timeout,
                            config.http2_keep_alive_while_idle>>,
                max_header_list_size |-> config.http2_max_header_list_size,
                user_agent |-> config.user_agent]
  /\ config.endpoint.scheme # "none"

StageInv ==
  \/ stage = "env" /\ result = "none"
  \/ \E i \in 1 .. Len(Steps) : stage = Steps[i] /\ result = "none" /\ EnvRead /\ Made(i - 1)
  \/ stage = "tls" /\ result = "none" /\ EnvRead /\ Made(Len(Steps))
  \/ stage = "channel" /\ result = "none" /\ EnvRead /\ Made(Len(Steps)) /\ Secured
  \/ /\ stage = "done" /\ result = "connected"
     /\ EnvRead /\ Made(Len(Steps)) /\ Secured /\ Settings
  \/ stage = "done" /\ result = "panic" /\ NamesNoServer
  \/ stage = "done" /\ result \notin {"connected", "panic"}

IInv == EnvInv /\ StageInv

-----------------------------------------------------------------------------
\* The names of the steps, in their order.
LEMMA StepNames ==
  /\ Len(Steps) = 14
  /\ Steps[1] = "cacert" /\ Steps[2] = "identity" /\ Steps[3] = "endpoint"
  /\ Steps[4] = "override_target" /\ Steps[5] = "connect_timeout" /\ Steps[6] = "timeout"
  /\ Steps[7] = "rate_limit" /\ Steps[8] = "tcp_keepalive"
  /\ Steps[9] = "tcp_keepalive_interval" /\ Steps[10] = "tcp_keepalive_retries"
  /\ Steps[11] = "http2_keep_alive_interval" /\ Steps[12] = "http2_keep_alive_timeout"
  /\ Steps[13] = "http2_max_header_list_size" /\ Steps[14] = "user_agent"
BY DEF Steps

\* No name occurs twice, nor is it the name of a flag or of another stage.
LEMMA StepsDistinct ==
  /\ \A i, j \in 1 .. 14 : Steps[i] = Steps[j] => i = j
  /\ \A i \in 1 .. 14 : Steps[i] \notin BoolOptions \cup {"env", "tls", "channel", "done"}
<1>1. \A i \in 1 .. 14 :
        \/ i = 1 \/ i = 2 \/ i = 3 \/ i = 4 \/ i = 5 \/ i = 6 \/ i = 7 \/ i = 8
        \/ i = 9 \/ i = 10 \/ i = 11 \/ i = 12 \/ i = 13 \/ i = 14
  OBVIOUS
<1> QED  BY <1>1, StepNames DEF BoolOptions

\* The endpoint is read before it is overridden.
LEMMA StepIsExpected ==
  ASSUME NEW i \in 1 .. 14, Made(i - 1)
  PROVE  Step(Steps[i]) = Expected(Steps[i])
<1>1. CASE Steps[i] = "override_target"
  <2>1. i = 4  BY <1>1, StepNames, StepsDistinct
  <2>2. config.endpoint = Expected("endpoint").value
    BY <2>1, StepNames DEF Made
  <2>3. Expected("endpoint") = Endpoint(env)  BY DEF Expected, Step
  <2>4. Step("override_target") = OverrideTarget(env, config.endpoint)  BY DEF Step
  <2> QED  BY <1>1, <2>2, <2>3, <2>4 DEF Expected
<1>2. CASE Steps[i] # "override_target"
  BY <1>2 DEF Expected
<1> QED  BY <1>1, <1>2

\* The error of a step is one of the errors of ConfigError.
LEMMA StepErrors ==
  ASSUME NEW i \in 1 .. 14
  PROVE  Expected(Steps[i]).error \notin {"connected", "panic"}
<1> USE DEF Ok, Err
<1>1. /\ CaCert(env).error \notin {"connected", "panic"}
      /\ Identity(env).error \notin {"connected", "panic"}
      /\ Endpoint(env).error \notin {"connected", "panic"}
  BY DEF CaCert, Identity, Endpoint, Pem
<1>2. OverrideTarget(env, Endpoint(env).value).error \notin {"connected", "panic"}
  BY DEF OverrideTarget
<1>3. /\ ConnectTimeout(env).error \notin {"connected", "panic"}
      /\ RequestTimeout(env).error \notin {"connected", "panic"}
      /\ RateLimit(env).error \notin {"connected", "panic"}
      /\ TcpKeepalive(env).error \notin {"connected", "panic"}
      /\ TcpKeepaliveInterval(env).error \notin {"connected", "panic"}
      /\ TcpKeepaliveRetries(env).error \notin {"connected", "panic"}
  BY DEF ConnectTimeout, RequestTimeout, RateLimit, TcpKeepalive, TcpKeepaliveInterval,
         TcpKeepaliveRetries, Duration, Integer
<1>4. /\ Http2KeepAliveInterval(env).error \notin {"connected", "panic"}
      /\ Http2KeepAliveTimeout(env).error \notin {"connected", "panic"}
      /\ Http2MaxHeaderListSize(env).error \notin {"connected", "panic"}
      /\ UserAgent(env).error \notin {"connected", "panic"}
  BY DEF Http2KeepAliveInterval, Http2KeepAliveTimeout, Http2MaxHeaderListSize, UserAgent,
         Duration, Integer
<1>5. \/ i = 1 \/ i = 2 \/ i = 3 \/ i = 4 \/ i = 5 \/ i = 6 \/ i = 7 \/ i = 8
      \/ i = 9 \/ i = 10 \/ i = 11 \/ i = 12 \/ i = 13 \/ i = 14
  OBVIOUS
<1> QED  BY <1>1, <1>2, <1>3, <1>4, <1>5, StepNames DEF Expected, Step

\* What a step gives depends on the environment only.
LEMMA ExpectedStable ==
  ASSUME NEW i \in 1 .. 14, env' = env
  PROVE  Expected(Steps[i])' = Expected(Steps[i])
<1>1. /\ CaCert(env)' = CaCert(env) /\ Identity(env)' = Identity(env)
      /\ Endpoint(env)' = Endpoint(env)
      /\ OverrideTarget(env, Endpoint(env).value)' = OverrideTarget(env, Endpoint(env).value)
  BY DEF CaCert, Identity, Endpoint, OverrideTarget, Override, Pem
<1>2. /\ ConnectTimeout(env)' = ConnectTimeout(env) /\ RequestTimeout(env)' = RequestTimeout(env)
      /\ RateLimit(env)' = RateLimit(env) /\ TcpKeepalive(env)' = TcpKeepalive(env)
      /\ TcpKeepaliveInterval(env)' = TcpKeepaliveInterval(env)
      /\ TcpKeepaliveRetries(env)' = TcpKeepaliveRetries(env)
      /\ Http2KeepAliveInterval(env)' = Http2KeepAliveInterval(env)
      /\ Http2KeepAliveTimeout(env)' = Http2KeepAliveTimeout(env)
      /\ Http2MaxHeaderListSize(env)' = Http2MaxHeaderListSize(env)
      /\ UserAgent(env)' = UserAgent(env)
  BY DEF ConnectTimeout, RequestTimeout, RateLimit, TcpKeepalive, TcpKeepaliveInterval,
         TcpKeepaliveRetries, Http2KeepAliveInterval, Http2KeepAliveTimeout,
         Http2MaxHeaderListSize, UserAgent
<1>3. \/ i = 1 \/ i = 2 \/ i = 3 \/ i = 4 \/ i = 5 \/ i = 6 \/ i = 7 \/ i = 8
      \/ i = 9 \/ i = 10 \/ i = 11 \/ i = 12 \/ i = 13 \/ i = 14
  OBVIOUS
<1> QED  BY <1>1, <1>2, <1>3, StepNames DEF Expected, Step

\* Every option is a text that the code tells apart, or not unicode.
LEMMA InitInv == Init => IInv
<1> SUFFICES ASSUME Init PROVE IInv
  OBVIOUS
<1>1. \A o \in Options : Plain[o] \in Texts[o]
  <2>1. "" \in Files /\ "" \in Durations /\ "" \in Integers32 /\ "" \in Flags
    BY DEF Files, Durations, Integers32, Flags
  <2>2. \A o \in Options : o # "endpoint" => "" \in Texts[o]
    <3>1. Options =
           {"endpoint", "cert_pem", "key_pem", "ca_cert", "allow_unsafe_connection",
            "override_target_name", "connect_timeout", "timeout", "rate_limit",
            "tcp_keepalive", "tcp_keepalive_interval", "tcp_keepalive_retries",
            "tcp_nagle_algorithm", "http2_keep_alive_interval", "http2_keep_alive_timeout",
            "http2_keep_alive_while_idle", "http2_max_header_list_size", "user_agent"}
      BY DEF Options, Texts
    <3>2. /\ "" \in Texts.cert_pem /\ "" \in Texts.key_pem /\ "" \in Texts.ca_cert
        /\ "" \in Texts.allow_unsafe_connection /\ "" \in Texts.override_target_name
        /\ "" \in Texts.connect_timeout /\ "" \in Texts.timeout /\ "" \in Texts.rate_limit
        /\ "" \in Texts.tcp_keepalive /\ "" \in Texts.tcp_keepalive_interval
        /\ "" \in Texts.tcp_keepalive_retries /\ "" \in Texts.tcp_nagle_algorithm
        /\ "" \in Texts.http2_keep_alive_interval /\ "" \in Texts.http2_keep_alive_timeout
        /\ "" \in Texts.http2_keep_alive_while_idle
        /\ "" \in Texts.http2_max_header_list_size /\ "" \in Texts.user_agent
      BY <2>1 DEF Texts
    <3> QED  BY <3>1, <3>2
  <2>3. "https://host" \in Texts["endpoint"]  BY DEF Texts
  <2> QED  BY <2>2, <2>3 DEF Plain, Options
<1>2. Plain = [o \in Options |-> Plain[o]]  BY DEF Plain, Options
<1> DEFINE Mixed(f) == [o \in Options |-> IF o \in DOMAIN f THEN f[o] ELSE Plain[o]]
           Chosen(set) == {g \in [set -> UNION {Texts[o] : o \in set}] :
                             \A o \in set : g[o] \in Texts[o]}
<1>3. ASSUME NEW o \in Options, env = [Plain EXCEPT ![o] = "not unicode"]
      PROVE  EnvInv
  BY <1>1, <1>2, <1>3 DEF EnvInv
<1>4. ASSUME NEW set \in SUBSET Options, NEW f \in Chosen(set), env = Mixed(f)
      PROVE  EnvInv
  <2>1. DOMAIN f = set /\ \A o \in set : f[o] \in Texts[o]  OBVIOUS
  <2>2. DOMAIN env = Options /\ \A o \in Options : env[o] = IF o \in set THEN f[o] ELSE Plain[o]
    BY <1>4, <2>1
  <2> QED  BY <1>1, <2>1, <2>2 DEF EnvInv
<1>5. EnvInv
  <2> DEFINE MixedOf(set) == {Mixed(f) : f \in Chosen(set)}
             Small == {s \in SUBSET Options : Cardinality(s) <= MaxSet}
  <2>1. \/ \E set \in Small : env \in MixedOf(set)
        \/ env \in {[Plain EXCEPT ![o] = "not unicode"] : o \in Options}
    <3>1. \/ env \in UNION {MixedOf(set) : set \in Small}
          \/ env \in {[Plain EXCEPT ![o] = "not unicode"] : o \in Options}
      BY DEF Init, Options
    <3> HIDE DEF MixedOf, Small
    <3> QED  BY <3>1
  <2>2. CASE env \in {[Plain EXCEPT ![o] = "not unicode"] : o \in Options}
    BY <1>3, <2>2
  <2>3. ASSUME NEW set \in SUBSET Options, env \in {Mixed(f) : f \in Chosen(set)}
        PROVE  EnvInv
    <3>1. PICK f \in Chosen(set) : env = Mixed(f)  BY <2>3
    <3> HIDE DEF Mixed, Chosen
    <3> QED  BY <1>4, <3>1
  <2> HIDE DEF Mixed, Chosen
  <2> QED  BY <2>1, <2>2, <2>3
<1> QED  BY <1>5 DEF Init, IInv, StageInv

\* Reading the environment.
LEMMA FromEnvInv == IInv /\ FromEnv => IInv'
<1> SUFFICES ASSUME IInv, FromEnv PROVE IInv'
  OBVIOUS
<1>1. EnvInv'  BY DEF IInv, EnvInv, FromEnv
<1>2. result = "none"  BY StepNames, StepsDistinct DEF IInv, StageInv, FromEnv
<1>3. CASE \E o \in DOMAIN env : env[o] = "not unicode" \/ (o \in BoolOptions /\ NotBoolean(env[o]))
  BY <1>1, <1>3 DEF FromEnv, Fail, IInv, StageInv
<1>4. CASE ~\E o \in DOMAIN env : env[o] = "not unicode" \/ (o \in BoolOptions /\ NotBoolean(env[o]))
  <2>1. \A o \in Options : env[o] \in Texts[o]  BY <1>4 DEF IInv, EnvInv
  <2>2. /\ config' = [o \in BoolOptions |-> IsTrue(env[o])]
        /\ stage' = Steps[1] /\ UNCHANGED <<result, env>>
    BY <1>4 DEF FromEnv
  <2>3. EnvRead'  BY <2>1, <2>2 DEF EnvRead, IsTrue
  <2>4. Made(1 - 1)'  BY DEF Made
  <2> QED  BY <1>1, <1>2, <2>2, <2>3, <2>4, StepNames DEF IInv, StageInv
<1> QED  BY <1>3, <1>4

\* One step of from_config_args.
LEMMA FromConfigArgsInv == IInv /\ FromConfigArgs => IInv'
<1> SUFFICES ASSUME IInv, FromConfigArgs PROVE IInv'
  OBVIOUS
<1>1. PICK i \in 1 .. 14 :
        /\ stage = Steps[i]
        /\ IF Step(Steps[i]).error # "none" THEN Fail(Step(Steps[i]).error) /\ UNCHANGED config
           ELSE /\ config' = [n \in DOMAIN config \cup {Steps[i]} |->
                                IF n = Steps[i] THEN Step(Steps[i]).value ELSE config[n]]
                /\ stage' = IF i = 14 THEN "tls" ELSE Steps[i + 1]
                /\ UNCHANGED result
        /\ UNCHANGED <<env, tls, channel>>
  BY StepNames DEF FromConfigArgs
<1>2. result = "none" /\ EnvRead /\ Made(i - 1)
  BY <1>1, StepNames, StepsDistinct DEF IInv, StageInv
<1>3. Step(Steps[i]) = Expected(Steps[i])  BY <1>2, StepIsExpected
<1>4. EnvInv'  BY <1>1 DEF IInv, EnvInv
<1>5. CASE Step(Steps[i]).error # "none"
  BY <1>1, <1>3, <1>4, <1>5, StepErrors DEF Fail, IInv, StageInv
<1>6. CASE Step(Steps[i]).error = "none"
  <2>1. /\ config' = [n \in DOMAIN config \cup {Steps[i]} |->
                        IF n = Steps[i] THEN Expected(Steps[i]).value ELSE config[n]]
        /\ stage' = IF i = 14 THEN "tls" ELSE Steps[i + 1]
        /\ UNCHANGED <<result, env>>
    BY <1>1, <1>3, <1>6
  <2>2. EnvRead'
    <3>1. \A o \in BoolOptions : o \in DOMAIN config' /\ config'[o] = config[o]
      BY <1>2, <2>1, StepsDistinct DEF EnvRead
    <3> QED  BY <1>2, <2>1, <3>1 DEF EnvRead, IsTrue
  <2>3. Made(i)'
    <3> SUFFICES ASSUME NEW j \in 1 .. i
                 PROVE  /\ Steps[j] \in DOMAIN config'
                        /\ Expected(Steps[j])'.error = "none"
                        /\ config'[Steps[j]] = Expected(Steps[j])'.value
      BY DEF Made
    <3>1. j \in 1 .. 14 /\ (j \in 1 .. i - 1 \/ j = i)  BY <1>1
    <3>2. Expected(Steps[j])' = Expected(Steps[j])  BY <2>1, <3>1, ExpectedStable
    <3>3. /\ Steps[j] \in DOMAIN config'
          /\ Expected(Steps[j]).error = "none"
          /\ config'[Steps[j]] = Expected(Steps[j]).value
      BY <1>2, <1>3, <1>6, <2>1, <3>1 DEF Made
    <3> QED  BY <3>2, <3>3
  <2>4. CASE i = 14
    BY <1>2, <1>4, <2>1, <2>2, <2>3, <2>4, StepNames DEF IInv, StageInv
  <2>5. CASE i # 14
    <3>1. i + 1 \in 1 .. Len(Steps) /\ (i + 1) - 1 = i  BY <2>5, StepNames
    <3> QED  BY <1>2, <1>4, <2>1, <2>2, <2>3, <2>5, <3>1 DEF IInv, StageInv
  <2> QED  BY <2>4, <2>5
<1> QED  BY <1>5, <1>6

\* Steps that leave the configuration alone.
LEMMA ConfigKept ==
  ASSUME UNCHANGED <<env, config>>
  PROVE  /\ EnvInv => EnvInv'
         /\ EnvRead => EnvRead'
         /\ Made(Len(Steps)) => Made(Len(Steps))'
         /\ NamesNoServer' = NamesNoServer
         /\ Verified' = Verified
<1>1. /\ EnvInv => EnvInv'
      /\ NamesNoServer' = NamesNoServer
      /\ Verified' = Verified
  BY DEF EnvInv, NamesNoServer, IsServerName, Verified
<1>2. EnvRead => EnvRead'  BY DEF EnvRead, IsTrue
<1>3. Made(Len(Steps)) => Made(Len(Steps))'
  <2>1. \A j \in 1 .. 14 : Expected(Steps[j])' = Expected(Steps[j])  BY ExpectedStable
  <2> QED  BY <2>1, StepNames DEF Made
<1> QED  BY <1>1, <1>2, <1>3

\* The TLS set-up panics only for a name that is none.
LEMMA TlsSetUpInv == IInv /\ TlsSetUp => IInv'
<1> SUFFICES ASSUME IInv, TlsSetUp PROVE IInv'
  OBVIOUS
<1>1. stage = "tls" /\ UNCHANGED <<env, config, channel>>  BY DEF TlsSetUp
<1>2. result = "none" /\ EnvRead /\ Made(Len(Steps))
  BY <1>1, StepNames, StepsDistinct DEF IInv, StageInv
<1>3. EnvInv' /\ EnvRead' /\ Made(Len(Steps))' /\ NamesNoServer' = NamesNoServer /\ Verified' = Verified
  BY <1>1, <1>2, ConfigKept DEF IInv
<1>4. CASE \/ Fail("Io")
           \/ Fail("Tls")
           \/ NamesNoServer /\ Fail("panic")
  BY <1>3, <1>4 DEF Fail, IInv, StageInv
<1>5. CASE /\ config.identity # "unusable" /\ ~NamesNoServer
           /\ tls' = [verified |-> Verified, identity |-> config.identity,
                      name |-> IF config.override_target = NoUri THEN config.endpoint.authority
                               ELSE config.override_target.authority,
                      nodelay |-> ~config.tcp_nagle_algorithm,
                      keepalive |-> <<config.tcp_keepalive, config.tcp_keepalive_interval,
                                      config.tcp_keepalive_retries>>,
                      connect_timeout |-> config.connect_timeout]
           /\ stage' = "channel" /\ UNCHANGED result
  <2>1. Secured'  BY <1>1, <1>3, <1>5 DEF Secured
  <2> QED  BY <1>2, <1>3, <1>5, <2>1 DEF IInv, StageInv
<1> QED  BY <1>4, <1>5 DEF TlsSetUp

\* A rate limit that gave no error is the text, and neither part is zero.
LEMMA RateLimitFacts ==
  RateLimit(env).error = "none" =>
    /\ RateLimit(env).value = Given(env.rate_limit)
    /\ RateLimit(env).value \notin {"0/1s", "100/0s"}
<1> DEFINE text == env.rate_limit
<1> USE DEF RateLimit, Given, Ok, Err
<1>1. CASE text = ""  BY <1>1
<1>2. CASE text \in {"100", "0/1s", "100/0s"}
  <2>1. RateLimit(env) = Err("IncompatibleOptions")  BY <1>2
  <2> QED  BY <2>1
<1>3. CASE text = "abc/1s" \/ text = "100/abc"
  <2>1. RateLimit(env).error # "none"  BY <1>3
  <2> QED  BY <2>1
<1>4. CASE text \notin {"", "100", "0/1s", "100/0s", "abc/1s", "100/abc"}
  <2>1. RateLimit(env) = Ok(text)  BY <1>4
  <2> QED  BY <1>4, <2>1
<1> QED  BY <1>1, <1>2, <1>3, <1>4

\* The rate limiter is never given a zero.
LEMMA RateLimitPositive ==
  ASSUME Made(Len(Steps))
  PROVE  config.rate_limit \notin {"0/1s", "100/0s"}
<1>1. config.rate_limit = Expected("rate_limit").value /\ Expected("rate_limit").error = "none"
  BY StepNames DEF Made
<1>2. Expected("rate_limit") = RateLimit(env)  BY DEF Expected, Step
<1> QED  BY <1>1, <1>2, RateLimitFacts

\* Connecting: the settings are those of the configuration.
LEMMA ConnectInv == IInv /\ Connect => IInv'
<1> SUFFICES ASSUME IInv, Connect PROVE IInv'
  OBVIOUS
<1>1. stage = "channel" /\ UNCHANGED <<env, config, tls>>  BY DEF Connect
<1>2. result = "none" /\ EnvRead /\ Made(Len(Steps)) /\ Secured
  BY <1>1, StepNames, StepsDistinct DEF IInv, StageInv
<1>3. EnvInv' /\ EnvRead' /\ Made(Len(Steps))' /\ NamesNoServer' = NamesNoServer /\ Verified' = Verified
  BY <1>1, <1>2, ConfigKept DEF IInv
<1>4. CASE Fail("Transport")
  BY <1>3, <1>4 DEF Fail, IInv, StageInv
<1>5. CASE config.endpoint.scheme # "none" /\ Fail("connected")
  <2>1. Settings'  BY <1>1, <1>5 DEF Connect, Settings
  <2>2. Secured'  BY <1>1, <1>2, <1>3 DEF Secured
  <2> QED  BY <1>3, <1>5, <2>1, <2>2 DEF Fail, IInv, StageInv
<1> QED  BY <1>2, <1>4, <1>5, RateLimitPositive DEF Connect

\* The invariant is inductive.
LEMMA NextInv == IInv /\ [Next]_vars => IInv'
<1>1. IInv /\ UNCHANGED vars => IInv'
  <2> SUFFICES ASSUME IInv, UNCHANGED vars PROVE IInv'
    OBVIOUS
  <2>1. UNCHANGED <<env, stage, config, tls, channel, result>>  BY DEF vars
  <2>2. /\ EnvInv' /\ (EnvRead => EnvRead') /\ (Made(Len(Steps)) => Made(Len(Steps))')
        /\ NamesNoServer' = NamesNoServer /\ Verified' = Verified
    BY <2>1, ConfigKept DEF IInv
  <2>3. (Secured => Secured') /\ (Settings => Settings')
    BY <2>1, <2>2 DEF Secured, Settings
  <2>4. ASSUME NEW i \in 1 .. Len(Steps), Made(i - 1) PROVE Made(i - 1)'
    <3>1. \A j \in 1 .. i - 1 : j \in 1 .. 14  BY StepNames
    <3>2. \A j \in 1 .. i - 1 : Expected(Steps[j])' = Expected(Steps[j])
      BY <2>1, <3>1, ExpectedStable
    <3> QED  BY <2>1, <2>4, <3>2 DEF Made
  <2> QED  BY <2>1, <2>2, <2>3, <2>4 DEF IInv, StageInv
<1> QED  BY <1>1, FromEnvInv, FromConfigArgsInv, TlsSetUpInv, ConnectInv DEF Next

\* The invariant holds in every reachable state.
LEMMA Invariant == Spec => []IInv
  BY InitInv, NextInv, PTL DEF Spec

\* connect panics only for an override name whose host is no server name.
THEOREM PanicsAreNames == Spec => []NoPanicInConnect
<1>1. IInv => NoPanicInConnect
  BY DEF IInv, StageInv, NoPanicInConnect
<1> QED  BY <1>1, Invariant, PTL

-----------------------------------------------------------------------------
\* What the steps gave, one by one.
LEMMA MadeFacts ==
  ASSUME Made(Len(Steps))
  PROVE  /\ CaCert(env).error = "none" /\ config.cacert = CaCert(env).value
         /\ Identity(env).error = "none" /\ config.identity = Identity(env).value
         /\ Endpoint(env).error = "none" /\ config.endpoint = Endpoint(env).value
         /\ OverrideTarget(env, config.endpoint).error = "none"
         /\ config.override_target = OverrideTarget(env, config.endpoint).value
         /\ ConnectTimeout(env).error = "none" /\ config.connect_timeout = ConnectTimeout(env).value
         /\ RequestTimeout(env).error = "none" /\ config.timeout = RequestTimeout(env).value
         /\ RateLimit(env).error = "none" /\ config.rate_limit = RateLimit(env).value
         /\ TcpKeepalive(env).error = "none" /\ config.tcp_keepalive = TcpKeepalive(env).value
         /\ TcpKeepaliveInterval(env).error = "none"
         /\ config.tcp_keepalive_interval = TcpKeepaliveInterval(env).value
         /\ TcpKeepaliveRetries(env).error = "none"
         /\ config.tcp_keepalive_retries = TcpKeepaliveRetries(env).value
         /\ Http2KeepAliveInterval(env).error = "none"
         /\ config.http2_keep_alive_interval = Http2KeepAliveInterval(env).value
         /\ Http2KeepAliveTimeout(env).error = "none"
         /\ config.http2_keep_alive_timeout = Http2KeepAliveTimeout(env).value
         /\ Http2MaxHeaderListSize(env).error = "none"
         /\ config.http2_max_header_list_size = Http2MaxHeaderListSize(env).value
         /\ UserAgent(env).error = "none" /\ config.user_agent = UserAgent(env).value
<1>1. ASSUME NEW j \in 1 .. 14
      PROVE  Expected(Steps[j]).error = "none" /\ config[Steps[j]] = Expected(Steps[j]).value
  BY StepNames DEF Made
<1>2. /\ Expected("cacert") = CaCert(env) /\ Expected("identity") = Identity(env)
      /\ Expected("endpoint") = Endpoint(env)
      /\ Expected("override_target") = OverrideTarget(env, Endpoint(env).value)
      /\ Expected("connect_timeout") = ConnectTimeout(env)
      /\ Expected("timeout") = RequestTimeout(env) /\ Expected("rate_limit") = RateLimit(env)
      /\ Expected("tcp_keepalive") = TcpKeepalive(env)
      /\ Expected("tcp_keepalive_interval") = TcpKeepaliveInterval(env)
      /\ Expected("tcp_keepalive_retries") = TcpKeepaliveRetries(env)
      /\ Expected("http2_keep_alive_interval") = Http2KeepAliveInterval(env)
      /\ Expected("http2_keep_alive_timeout") = Http2KeepAliveTimeout(env)
      /\ Expected("http2_max_header_list_size") = Http2MaxHeaderListSize(env)
      /\ Expected("user_agent") = UserAgent(env)
  BY DEF Expected, Step
<1>3. config["endpoint"] = Endpoint(env).value  BY <1>1, <1>2, StepNames
<1> QED  BY <1>1, <1>2, <1>3, StepNames

\* A duration or an integer that gave no error is the text itself, or the
\* default.
LEMMA TextFacts ==
  ASSUME NEW text, NEW default
  PROVE  /\ Duration(text, default).error = "none" =>
              Duration(text, default).value = IF text = "" THEN default ELSE text
         /\ Integer(text).error = "none" => Integer(text).value = Given(text)
BY DEF Duration, Integer, Given, Ok, Err

\* What the endpoint and the override name of a channel that connects come to.
LEMMA TargetFacts ==
  ASSUME EnvRead, Made(Len(Steps)), ~NamesNoServer, config.endpoint.scheme # "none"
  PROVE  LET origin == IF config.override_target = NoUri THEN config.endpoint
                       ELSE config.override_target
         IN /\ origin.authority = IF env.override_target_name \in {"", "/sub"} THEN EndpointHost
                                  ELSE "name"
            /\ origin.scheme = (IF env.endpoint = "http://host" THEN "http" ELSE "https")
            /\ origin.path = IF env.override_target_name \in {"", "name"} THEN "/" ELSE "/sub"
<1> DEFINE name == env.override_target_name
           scheme == IF env.endpoint = "http://host" THEN "http" ELSE "https"
<1>1. name \in {"", "name", "https://name/sub", "/sub", "[::1]", "*.name", "a b"}
  BY DEF EnvRead, Options, Texts
<1>2. config.endpoint = Uri(scheme, EndpointHost, "/") /\ EndpointHost \in {"host", "[::1]"}
  <2>1. Endpoint(env).error = "none" /\ config.endpoint = Endpoint(env).value  BY MadeFacts
  <2>2. CASE env.endpoint = "https://host"  BY <2>1, <2>2 DEF Endpoint, EndpointHost, Ok
  <2>3. CASE env.endpoint = "http://host"  BY <2>1, <2>3 DEF Endpoint, EndpointHost, Ok
  <2>7. CASE env.endpoint = "https://[::1]"  BY <2>1, <2>7 DEF Endpoint, EndpointHost, Ok
  <2>4. CASE env.endpoint = "host:5001"  BY <2>1, <2>4 DEF Endpoint, Ok, Uri
  <2>5. CASE env.endpoint = "/path"  BY <2>1, <2>5 DEF Endpoint, Ok, Uri
  <2>6. CASE env.endpoint \notin {"https://host", "https://[::1]", "http://host", "host:5001", "/path"}
    <3>1. Endpoint(env) = Err("Uri")  BY <2>6 DEF Endpoint
    <3> QED  BY <2>1, <3>1 DEF Err
  <2> QED  BY <2>2, <2>3, <2>4, <2>5, <2>6, <2>7
<1> HIDE DEF scheme
<1>3. scheme \in {"http", "https"}  BY DEF scheme
<1>4. /\ OverrideTarget(env, config.endpoint).error = "none"
      /\ config.override_target = OverrideTarget(env, config.endpoint).value
  BY MadeFacts
<1>5. CASE name = ""
  <2>1. OverrideTarget(env, config.endpoint) = Ok(NoUri)  BY <1>5 DEF OverrideTarget
  <2>2. config.override_target = NoUri  BY <1>4, <2>1 DEF Ok
  <2>3. /\ config.endpoint.authority = EndpointHost /\ config.endpoint.path = "/"
        /\ config.endpoint.scheme = scheme
    BY <1>2 DEF Uri
  <2> QED  BY <1>5, <2>2, <2>3 DEF scheme
<1>6. CASE name = "a b"
  <2>1. OverrideTarget(env, config.endpoint) = Err("Uri")  BY <1>6 DEF OverrideTarget
  <2>2. Err("Uri").error = "Uri"  BY DEF Err
  <2>3. FALSE  BY <1>4, <2>1, <2>2
  <2> QED  BY <2>3
<1>7. CASE name \notin {"", "a b"}
  <2> DEFINE given == Override(name, config.endpoint)
             target == Uri(scheme, IF given[1] # "none" THEN given[1] ELSE EndpointHost, given[2])
  <2>1. config.override_target = target
    <3>1. config.endpoint.authority = EndpointHost /\ config.endpoint.scheme = scheme
      BY <1>2 DEF Uri
    <3>2. OverrideTarget(env, config.endpoint) = IF Buildable(target) THEN Ok(target) ELSE Err("Http")
      BY <1>7, <3>1 DEF OverrideTarget
    <3>3. Ok(target).value = target /\ Err("Http").error = "Http"  BY DEF Ok, Err
    <3> QED  BY <1>4, <3>2, <3>3
  <2> HIDE DEF given
  <2>6. /\ target.scheme = scheme /\ target.path = given[2]
        /\ target.authority = IF given[1] # "none" THEN given[1] ELSE EndpointHost
    BY DEF Uri
  <2>7. target # NoUri  BY <1>3, <2>6 DEF NoUri, Uri
  <2>2. CASE name = "name"
    <3>1. given = <<"name", "/">>  BY <1>2, <2>2 DEF given, Override, Uri
    <3> QED  BY <2>1, <2>2, <2>6, <2>7, <3>1 DEF scheme
  <2>3. CASE name = "https://name/sub"
    <3>1. given = <<"name", "/sub">>  BY <2>3 DEF given, Override
    <3> QED  BY <2>1, <2>3, <2>6, <2>7, <3>1 DEF scheme
  <2>4. CASE name = "/sub"
    <3>1. given = <<"none", "/sub">>  BY <2>4 DEF given, Override
    <3> QED  BY <2>1, <2>4, <2>6, <2>7, <3>1 DEF scheme
  <2>5. CASE name \in {"[::1]", "*.name"}
    <3>1. given = <<name, "/">>  BY <1>2, <2>5 DEF given, Override, Uri
    <3>2. config.override_target.authority \in {"[::1]", "*.name"}  BY <2>1, <2>5, <2>6, <3>1
    <3> QED  BY <2>1, <2>7, <3>2 DEF NamesNoServer, IsServerName
  <2> QED  BY <1>1, <1>7, <2>2, <2>3, <2>4, <2>5
<1> QED  BY <1>5, <1>6, <1>7

\* A channel that connects is the one that the environment describes.
THEOREM ConnectionIsConfigured == Spec => []ConnectedAsConfigured
<1>1. ASSUME IInv, result = "connected" PROVE ConnectedAsConfigured
  <2>1. EnvRead /\ Made(Len(Steps)) /\ Secured /\ Settings
    BY <1>1 DEF IInv, StageInv
  <2>2. /\ config.allow_unsafe_connection = (env.allow_unsafe_connection = "allow")
        /\ config.tcp_nagle_algorithm = (env.tcp_nagle_algorithm = "allow")
        /\ config.http2_keep_alive_while_idle = (env.http2_keep_alive_while_idle = "allow")
    BY <2>1 DEF EnvRead, BoolOptions, IsTrue
  <2>3. tls.verified = IF env.allow_unsafe_connection = "allow" THEN "nothing"
                       ELSE IF env.ca_cert = "" THEN "native roots" ELSE "cacert"
    <3>1. config.cacert = "none" <=> env.ca_cert = ""
      <4>1. env.ca_cert # "none"  BY <2>1 DEF EnvRead, Options, Texts, Files
      <4>2. CaCert(env).error = "none" /\ config.cacert = CaCert(env).value
        BY <2>1, MadeFacts
      <4> QED  BY <4>1, <4>2 DEF CaCert, Pem, Ok, Err
    <3>2. tls.verified = Verified  BY <2>1 DEF Secured
    <3> QED  BY <2>2, <3>1, <3>2 DEF Verified
  <2>4. (tls.identity = "good") = (env.cert_pem = "good" /\ env.key_pem = "good")
    <3>1. env.cert_pem \in Files /\ env.key_pem \in Files
      BY <2>1 DEF EnvRead, Options, Texts
    <3>2. /\ Identity(env).error = "none" /\ tls.identity = Identity(env).value
          /\ tls.identity # "unusable"
      BY <2>1, MadeFacts DEF Secured
    <3> QED  BY <3>1, <3>2 DEF Identity, Files, Ok, Err
  <2>5. /\ tls.name = IF env.override_target_name \in {"", "/sub"} THEN EndpointHost ELSE "name"
        /\ channel.origin.scheme = (IF env.endpoint = "http://host" THEN "http" ELSE "https")
        /\ channel.origin.path = IF env.override_target_name \in {"", "name"} THEN "/" ELSE "/sub"
    BY <2>1, TargetFacts DEF Secured, Settings
  <2>6. tls.nodelay = (env.tcp_nagle_algorithm # "allow")
    BY <2>1, <2>2 DEF Secured
  <2>7. /\ tls.connect_timeout = IF env.connect_timeout = "" THEN "60s" ELSE env.connect_timeout
        /\ tls.keepalive = <<Given(env.tcp_keepalive), Given(env.tcp_keepalive_interval),
                             Given(env.tcp_keepalive_retries)>>
    <3>1. config.connect_timeout = IF env.connect_timeout = "" THEN "60s" ELSE env.connect_timeout
      BY <2>1, MadeFacts, TextFacts DEF ConnectTimeout
    <3>2. config.tcp_keepalive = Given(env.tcp_keepalive)
      BY <2>1, MadeFacts, TextFacts DEF TcpKeepalive, Given
    <3>3. config.tcp_keepalive_interval = Given(env.tcp_keepalive_interval)
      BY <2>1, MadeFacts, TextFacts DEF TcpKeepaliveInterval, Given
    <3>4. config.tcp_keepalive_retries = Given(env.tcp_keepalive_retries)
      BY <2>1, MadeFacts, TextFacts DEF TcpKeepaliveRetries
    <3>5. /\ tls.connect_timeout = config.connect_timeout
          /\ tls.keepalive = <<config.tcp_keepalive, config.tcp_keepalive_interval,
                               config.tcp_keepalive_retries>>
      BY <2>1 DEF Secured
    <3> QED  BY <3>1, <3>2, <3>3, <3>4, <3>5
  <2>8. channel.timeout = Given(env.timeout) /\ channel.rate_limit = Given(env.rate_limit)
    BY <2>1, MadeFacts, TextFacts, RateLimitFacts DEF Settings, RequestTimeout, Given
  <2>9. channel.pings = <<Given(env.http2_keep_alive_interval), Given(env.http2_keep_alive_timeout),
                          env.http2_keep_alive_while_idle = "allow">>
    <3>1. config.http2_keep_alive_interval = Given(env.http2_keep_alive_interval)
      BY <2>1, MadeFacts, TextFacts DEF Http2KeepAliveInterval, Given
    <3>2. config.http2_keep_alive_timeout = Given(env.http2_keep_alive_timeout)
      BY <2>1, MadeFacts, TextFacts DEF Http2KeepAliveTimeout, Given
    <3>3. channel.pings = <<config.http2_keep_alive_interval, config.http2_keep_alive_timeout,
                            config.http2_keep_alive_while_idle>>
      BY <2>1 DEF Settings
    <3> QED  BY <2>2, <3>1, <3>2, <3>3, Zenon
  <2>10. /\ channel.max_header_list_size = Given(env.http2_max_header_list_size)
         /\ channel.user_agent = Given(env.user_agent)
    BY <2>1, MadeFacts, TextFacts DEF Settings, Http2MaxHeaderListSize, UserAgent, Given, Ok, Err
  <2> QED  BY <2>3, <2>4, <2>5, <2>6, <2>7, <2>8, <2>9, <2>10 DEF ConnectedAsConfigured
<1>2. IInv => ConnectedAsConfigured  BY <1>1 DEF ConnectedAsConfigured
<1> QED  BY <1>2, Invariant, PTL
=============================================================================
