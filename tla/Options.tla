------------------------------ MODULE Options -------------------------------
(***************************************************************************)
(* The command line of tun2socks_main: parse_arguments (tun2socks.c), with *)
(* parse_loglevel (loglevel.h) and the channels of BLog.h.                 *)
(*                                                                         *)
(* argv is the sequence of the words after argv[0], so that argv[i] keeps  *)
(* its index and argc is Len(argv) + 1.  The strings that are kept as they *)
(* are given are in options.text, by the name of their field.              *)
(***************************************************************************)
EXTENDS Integers, Sequences, SequencesExt

NullText == "(null)"    \* a pointer that is NULL

BLOG_DEBUG == 5

\* Some of the channels of blog_channels_list.h, with their levels.
blog_channel_list == <<[name |-> "BTap", loglevel |-> 4], [name |-> "BReactor", loglevel |-> 3]>>

\* The options whose argument is stored, and their fields.
TextOptions ==
    { <<"--syslog-facility", "logger_syslog_facility">>, <<"--syslog-ident", "logger_syslog_ident">>,
      <<"--tundev", "tundev">>, <<"--netif-ipaddr", "netif_ipaddr">>,
      <<"--netif-netmask", "netif_netmask">>, <<"--netif-ip6addr", "netif_ip6addr">>,
      <<"--socks-server-addr", "socks_server_addr">>, <<"--username", "username">>,
      <<"--password", "password">>, <<"--password-file", "password_file">> }

FieldOf(arg) == (CHOOSE o \in TextOptions : o[1] = arg)[2]

FlagOptions == {"--help", "--version", "--append-source-to-username"}
OneArgument == {"--logger", "--loglevel"} \cup {o[1] : o \in TextOptions}
TwoArguments == {"--channel-loglevel"}

DefaultOptions ==
    [ help |-> FALSE, version |-> FALSE, append_source_to_username |-> FALSE,
      logger |-> "stdout", loglevel |-> -1,
      loglevels |-> [c \in DOMAIN blog_channel_list |-> -1],
      text |-> [f \in {o[2] : o \in TextOptions} |->
                  CASE f = "logger_syslog_facility" -> "daemon"
                    [] f = "logger_syslog_ident" -> "argv[0]"
                    [] OTHER -> NullText] ]

\* strtol(str, &endptr, 10) of the words that are tried: whether a character
\* is left behind the number, and the number.
strtol(str) ==
    CASE str = "0" -> [res |-> 0, rest |-> FALSE]
      [] str = "3" -> [res |-> 3, rest |-> FALSE]
      [] str = "5" -> [res |-> 5, rest |-> FALSE]
      [] str = "6" -> [res |-> 6, rest |-> FALSE]
      [] str = "-1" -> [res |-> -1, rest |-> FALSE]
      [] str = "" -> [res |-> 0, rest |-> FALSE]
      [] str = "3x" -> [res |-> 3, rest |-> TRUE]
      [] OTHER -> [res |-> 0, rest |-> TRUE]

LevelNames == <<"none", "error", "warning", "notice", "info", "debug">>

parse_loglevel(str) ==
    LET n == strtol(str)
    IN IF Contains(LevelNames, str) THEN (CHOOSE l \in 1..6 : LevelNames[l] = str) - 1
       ELSE IF str # "" /\ ~n.rest /\ n.res \in 0..BLOG_DEBUG THEN n.res
       ELSE -1

\* Channels are counted from 1 here; 0 is none.
BLogGlobal_GetChannelByName(name) ==
    SelectInSeq(blog_channel_list, LAMBDA c : c.name = name)

-----------------------------------------------------------------------------
(* A handler of an option returns the new options, or ok FALSE for return 0. *)

Rejected == [ok |-> FALSE]
Accepted(options) == [ok |-> TRUE, options |-> options]

Flag(options, arg) ==
    Accepted(CASE arg = "--help" -> [options EXCEPT !.help = TRUE]
               [] arg = "--version" -> [options EXCEPT !.version = TRUE]
               [] OTHER -> [options EXCEPT !.append_source_to_username = TRUE])

StoreText(options, arg, arg2) == Accepted([options EXCEPT !.text[FieldOf(arg)] = arg2])

SetLogger(options, arg2) ==
    IF arg2 \in {"stdout", "syslog"} THEN Accepted([options EXCEPT !.logger = arg2]) ELSE Rejected

SetLoglevel(options, arg2) ==
    IF parse_loglevel(arg2) < 0 THEN Rejected
    ELSE Accepted([options EXCEPT !.loglevel = parse_loglevel(arg2)])

SetChannelLoglevel(options, arg2, arg3) ==
    LET channel == BLogGlobal_GetChannelByName(arg2)
        loglevel == parse_loglevel(arg3)
    IN IF channel = 0 \/ loglevel < 0 THEN Rejected
       ELSE Accepted([options EXCEPT !.loglevels[channel] = loglevel])

\* The option at i; next is where the loop goes on.
ParseOption(argv, i, options) ==
    LET arg == argv[i]
        left == Len(argv) + 1 - i
        Go(r, n) == IF r.ok THEN [ok |-> TRUE, options |-> r.options, next |-> i + n] ELSE Rejected
    IN CASE arg \in FlagOptions -> Go(Flag(options, arg), 1)
         [] arg \in OneArgument /\ 1 < left ->
              Go(CASE arg = "--logger" -> SetLogger(options, argv[i + 1])
                   [] arg = "--loglevel" -> SetLoglevel(options, argv[i + 1])
                   [] OTHER -> StoreText(options, arg, argv[i + 1]), 2)
         [] arg \in TwoArguments /\ 2 < left ->
              Go(SetChannelLoglevel(options, argv[i + 1], argv[i + 2]), 3)
         [] OTHER -> Rejected

RECURSIVE ParseFrom(_, _, _), ParseAfter(_, _)
ParseFrom(argv, i, options) ==
    IF i > Len(argv) THEN Accepted(options) ELSE ParseAfter(argv, ParseOption(argv, i, options))

\* r: what came of an option.
ParseAfter(argv, r) == IF r.ok THEN ParseFrom(argv, r.next, r.options) ELSE Rejected

(* Fault: a password given in both ways is not noticed. *)
EitherPassword(text) ==
    /\ \A f \in {"netif_ipaddr", "netif_netmask", "socks_server_addr"} : text[f] # NullText
    /\ text["username"] # NullText =>
          text["password"] # NullText \/ text["password_file"] # NullText

\* The checks behind the loop.
RequiredGiven(text) ==
    /\ \A f \in {"netif_ipaddr", "netif_netmask", "socks_server_addr"} : text[f] # NullText
    /\ text["username"] # NullText =>
          /\ text["password"] # NullText \/ text["password_file"] # NullText
          /\ ~(text["password"] # NullText /\ text["password_file"] # NullText)

Checked(r) ==
    IF r.ok /\ (r.options.help \/ r.options.version \/ RequiredGiven(r.options.text)) THEN r
    ELSE Rejected

parse_arguments(argv) == Checked(ParseFrom(argv, 1, DefaultOptions))

\* The levels of the channels that tun2socks_main sets.
Loglevels(options) ==
    [c \in DOMAIN blog_channel_list |->
        IF options.loglevels[c] >= 0 THEN options.loglevels[c]
        ELSE IF options.loglevel >= 0 THEN options.loglevel
        ELSE blog_channel_list[c].loglevel]

-----------------------------------------------------------------------------
(* What a command line means. *)

IsOption(w) == w \in FlagOptions \cup OneArgument \cup TwoArguments

\* The places at which an option stands, if every word belongs to one.
OptionsAt(argv, starts) ==
    LET arity(k) == CASE argv[k] \in FlagOptions -> 0 [] argv[k] \in OneArgument -> 1
                      [] argv[k] \in TwoArguments -> 2
        covered(k) == k..k + arity(k)
    IN /\ UNION {covered(k) : k \in starts} = DOMAIN argv
       /\ \A k, l \in starts : k < l => l > k + arity(k)

\* Wrong arguments.
GoodLevel(w) == w \in {"none", "error", "warning", "notice", "info", "debug", "0", "3", "5"}
GoodAt(argv, k) ==
    CASE argv[k] = "--logger" -> argv[k + 1] \in {"stdout", "syslog"}
      [] argv[k] = "--loglevel" -> GoodLevel(argv[k + 1])
      [] argv[k] = "--channel-loglevel" -> argv[k + 1] \in {"BTap", "BReactor"} /\ GoodLevel(argv[k + 2])
      [] OTHER -> TRUE

\* The words behind the last of the options that are this one.
LastOf(argv, starts, Mine(_), n, default) ==
    LET mine == {k \in starts : Mine(k)}
    IN IF mine = {} THEN default ELSE argv[(CHOOSE k \in mine : \A l \in mine : l <= k) + n]

\* r: what parse_arguments makes of argv, whose options stand at starts.
ParsedRight(r, argv, starts) ==
    LET given(w) == \E k \in starts : argv[k] = w
        text(w) == LastOf(argv, starts, LAMBDA k : argv[k] = w, 1, NullText)
        own(c) == LastOf(argv, starts, LAMBDA k : argv[k] = "--channel-loglevel"
                                                    /\ argv[k + 1] = blog_channel_list[c].name, 2, "")
        all == LastOf(argv, starts, LAMBDA k : argv[k] = "--loglevel", 1, "")
        level(c) == IF own(c) # "" THEN parse_loglevel(own(c))
                    ELSE IF all # "" THEN parse_loglevel(all) ELSE blog_channel_list[c].loglevel
        complete ==
            /\ \A w \in {"--netif-ipaddr", "--netif-netmask", "--socks-server-addr"} : given(w)
            /\ given("--username") => given("--password") # given("--password-file")
    IN IF ~(given("--help") \/ given("--version") \/ complete) THEN ~r.ok
       ELSE /\ r.ok
            /\ \A o \in TextOptions :
                 r.options.text[o[2]] = IF given(o[1]) THEN text(o[1]) ELSE DefaultOptions.text[o[2]]
            /\ r.options.help = given("--help") /\ r.options.version = given("--version")
            /\ \A c \in DOMAIN blog_channel_list : Loglevels(r.options)[c] = level(c)

SplitRight(r, argv, splits) ==
    IF splits = {} THEN ~r.ok ELSE ParsedRight(r, argv, CHOOSE x \in splits : TRUE)

CommandLineRight(argv) ==
    SplitRight(parse_arguments(argv), argv,
               {starts \in SUBSET {k \in DOMAIN argv : IsOption(argv[k])} :
                   OptionsAt(argv, starts) /\ \A k \in starts : GoodAt(argv, k)})


=============================================================================
