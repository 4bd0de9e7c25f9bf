--------------------------- MODULE Configuration ---------------------------
(***************************************************************************)
(* How the server is configured: AppConfig (config/AppConfig.hpp), and     *)
(* parseArguments, loadConfiguration, stringToInt, stringToLogLevel and    *)
(* parseUrl (utils/Utils.hpp).                                             *)
(*                                                                         *)
(* A line of the configuration file is a record: its key ("" for a blank   *)
(* line, a comment or a line without a key) and the text of its value.  A  *)
(* text is reduced to what std::stoi makes of it - the number it begins    *)
(* with, if any, and whether that is all of it - and to the log level it   *)
(* names.  An int has the values -IntLimit - 1 .. IntLimit.                *)
(***************************************************************************)
EXTENDS Integers, Sequences, SequencesExt, FiniteSets

CONSTANTS None, IntLimit,
          Spellings     \* how many keys the arguments may have


SecondsPerHour == 3600

\* The keys loadConfiguration knows whose values are ints; those of the times to
\* live are given in hours.
HourKeys == {"redis_ttl", "in_memory_cache_ttl"}
IntKeys == HourKeys \cup {"frontend_port", "redis_port", "metrics_batch_size",
                          "metrics_send_interval", "in_memory_cache_max_size"}

\* The lines of a file, and the text of their values.
Texts == [stoi : Int \cup {None}, whole : BOOLEAN, string : STRING]
Lines == [key : STRING, text : Texts]

LogLevels == {"DEBUG", "INFO", "WARNING", "CERROR"}

\* The constructor of AppConfig: the settings the file can change.
AppConfig ==
  [frontend_port |-> 9000, redis_port |-> 6379, redis_host |-> "localhost",
   redis_ttl |-> SecondsPerHour * 24, in_memory_cache_ttl |-> SecondsPerHour * 24,
   in_memory_cache_max_size |-> 10000, metrics_batch_size |-> 100,
   metrics_send_interval |-> 1000, use_redis |-> TRUE, log_level |-> "CERROR"]

stringToInt(text) == IF text.whole THEN text.stoi ELSE None

\* The product of two ints, which wraps around.
Int32(n) == ((n + IntLimit + 1) % (2 * (IntLimit + 1))) - IntLimit - 1

IntSetting(key, n) == IF key \in HourKeys THEN Int32(n * SecondsPerHour) ELSE n

\* The effect of one line; None stands for the exception of stringToLogLevel.
applyLine(config, line) ==
  LET n == stringToInt(line.text)
  IN IF config = None THEN None
     ELSE CASE line.key \in IntKeys /\ n # None ->
                 [config EXCEPT ![line.key] = IntSetting(line.key, n)]
            [] line.key = "use_redis" /\ n # None -> [config EXCEPT !.use_redis = (n = 1)]
            [] line.key = "redis_host" -> [config EXCEPT !.redis_host = line.text.string]
            [] line.key = "log_level" ->
                 IF line.text.string \in LogLevels
                 THEN [config EXCEPT !.log_level = line.text.string] ELSE None
            [] OTHER -> config

\* The settings after all lines.
readLines(lines) ==
  LET after[n \in 0 .. Len(lines)] ==
        IF n = 0 THEN AppConfig ELSE applyLine(after[n - 1], lines[n])
  IN after[Len(lines)]

\* Of the four paths of the file the first that can be opened is read.
configFile(files) ==
  LET found == {i \in DOMAIN files : files[i] # None}
  IN IF found = {} THEN <<>>
     ELSE files[CHOOSE i \in found : \A j \in found : i <= j]

-----------------------------------------------------------------------------
(* Start-up arguments.  An argument has a key - a country code and its     *)
(* place in the order of all spellings of codes, which is the order of the *)
(* map of arguments - or no key, and a URL: its scheme, host, port (None   *)
(* if there is none) and what follows.                                     *)

ArgumentKeys == [country : STRING, spelling : 1 .. Spellings]
Urls == [scheme : STRING, host : STRING, port : Nat \cup {None}, rest : STRING]
Arguments == [key : ArgumentKeys \cup {None}, url : Urls]

\* The map of the arguments, None if one of them has no key.  A later argument
\* replaces an earlier one with the same key.
parseArguments(args) ==
  IF \E i \in DOMAIN args : args[i].key = None THEN None
  ELSE {args[i] : i \in {n \in DOMAIN args :
                           \A m \in n + 1 .. Len(args) : args[m].key # args[n].key}}

MaxPort == 65535

\* url_regex ends with the URL or after one of the characters / ? #, and
\* regex_match asks for a match of the whole URL: one with a path, a query or a
\* fragment is rejected, a lone character is not.
parseUrl(url) ==
  IF /\ url.scheme = "http" /\ url.host # "" /\ url.rest \in {"", "/", "?", "#"}
     /\ url.port = None \/ url.port \in 1 .. MaxPort
  THEN [backend_host |-> url.host,
        backend_port |-> IF url.port = None THEN 80 ELSE url.port]
  ELSE None

\* Mutant: an invalid URL removes the backend of the country.
Mutant_applyArgument(backends, arg) ==
  [backends EXCEPT ![arg.key.country] = parseUrl(arg.url)]

applyArgument(backends, arg) ==
  IF parseUrl(arg.url) = None THEN backends
  ELSE [backends EXCEPT ![arg.key.country] = parseUrl(arg.url)]

\* country_backend_map, filled in the order of the keys; both spellings of a
\* country are one entry.
countryBackendMap(countries, argMap) ==
  LET at(n) == {a \in argMap : a.key.country \in countries /\ a.key.spelling = n}
      upTo[n \in 0 .. Spellings] ==
        IF n = 0 THEN [c \in countries |-> None]
        ELSE IF at(n) = {} THEN upTo[n - 1]
        ELSE applyArgument(upTo[n - 1], CHOOSE a \in at(n) : TRUE)
  IN upTo[Spellings]

-----------------------------------------------------------------------------
\* The responses a thread can serve within the time limit, four times over.
QueuePerThread == (1000000 \div 1200) * 4

\* The limits that AppConfig derives: threads, and the queue of a connection.
updateDeductions(hardware_concurrency) ==
  LET threads == IF hardware_concurrency = 0 THEN 2 ELSE 2 * hardware_concurrency
  IN [num_io_threads |-> threads,
      max_response_queue_size |-> Int32(threads * QueuePerThread)]

\* None if stringToLogLevel throws.
loadConfiguration(countries, files, argMap, hardware_concurrency) ==
  LET settings == readLines(configFile(files))
  IN IF settings = None THEN None
     ELSE [settings |-> settings,
           country_backend_map |-> countryBackendMap(countries, argMap),
           deduced |-> updateDeductions(hardware_concurrency)]

-----------------------------------------------------------------------------
(* What a configuration is, and what it should be, for reference.          *)

\* A setting is a number, a flag or a text, its default among them.
SettingValues ==
  Int \cup BOOLEAN \cup STRING \cup {AppConfig[key] : key \in DOMAIN AppConfig}
Settings == [DOMAIN AppConfig -> SettingValues]

Configurations(countries) ==
  [settings : Settings,
   country_backend_map :
     [countries -> [backend_host : STRING, backend_port : Nat] \cup {None}],
   deduced : [num_io_threads : Nat, max_response_queue_size : Int]]

ValidLine(line, key) ==
  /\ line.key = key
  /\ key \in IntKeys \cup {"use_redis"} => stringToInt(line.text) # None

Ints == -IntLimit - 1 .. IntLimit

\* What a valid line asks for: a time to live in hours is that many seconds, or
\* any int if the seconds are not one.
AsksFor(key, text, setting) ==
  LET n == stringToInt(text)
  IN /\ key \in HourKeys => /\ setting \in Ints
                            /\ n * SecondsPerHour \in Ints => setting = n * SecondsPerHour
     /\ key \in IntKeys \ HourKeys => setting = n
     /\ key = "use_redis" => setting = (n = 1)
     /\ key \notin IntKeys \cup {"use_redis"} => setting = text.string

\* A setting is what the last valid line of its key asks for, or its default.
LastValidLine(lines, key, setting) ==
  LET valid == {i \in DOMAIN lines : ValidLine(lines[i], key)}
  IN \/ valid = {} /\ setting = AppConfig[key]
     \/ \E i \in valid : /\ \A j \in valid : j <= i
                         /\ AsksFor(key, lines[i].text, setting)

\* Only the last argument with a key counts, whether its URL can be used or not.
\* A country has a backend if one that counts can be used, and then that of the
\* last of these in the order of the keys.
UsableBackend(args, c, backend) ==
  LET counts == {i \in DOMAIN args :
                   \A j \in DOMAIN args : args[j].key = args[i].key => j <= i}
      usable == {i \in counts : args[i].key.country = c /\ parseUrl(args[i].url) # None}
  IN \/ usable = {} /\ backend = None
     \/ \E i \in usable :
          /\ \A j \in usable : args[j].key.spelling <= args[i].key.spelling
          /\ backend = parseUrl(args[i].url)

WellConfigured(countries, files, args, config) ==
  LET lines == configFile(files)
      badLevel == \E i \in DOMAIN lines :
                    lines[i].key = "log_level" /\ lines[i].text.string \notin LogLevels
  IN IF config = None THEN badLevel
     ELSE /\ ~badLevel
          /\ \A key \in DOMAIN AppConfig :
               LastValidLine(lines, key, config.settings[key])
          /\ \A c \in countries :
               UsableBackend(args, c, config.country_backend_map[c])
          /\ config.deduced.num_io_threads > 0
          /\ config.deduced.max_response_queue_size > 0
=============================================================================
