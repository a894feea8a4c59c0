-------------------------- MODULE ConfigurationLookup -------------------------
(***************************************************************************)
(* Lookup of the Quix configuration service: a thread reads configuration  *)
(* events from a topic into versioned configurations, while the dataframe  *)
(* looks up, for the key and the timestamp of a message, the version that  *)
(* is valid then, and fetches its content through a cache.                 *)
(*                                                                         *)
(* Nothing guards the configurations but the interpreter's lock, under     *)
(* which the reads and writes of the lookup and of the thread interleave.  *)
(* An event is [config, event, version, from].  A message that has been    *)
(* enriched is [key, stamp, version, content, fetched, since, applied, at]:*)
(* what the lookup found and when, counted in events and in time.          *)
(***************************************************************************)
EXTENDS Operation, SequencesExt

VARIABLES
    applied,         \* events that the thread has processed
    configurations,  \* key -> number of its configuration, for those there are
    objects,         \* the Configuration objects there have been
    resetting,       \* the object of which add_version() has yet to clear the cache
    lookup,          \* the lookup in progress: where it is and what it has read
    contents,        \* _version_data_cached: [version, fetched], oldest first
    retries,         \* version -> [count, at], for the versions that failed
    clock

configVars == <<applied, configurations, objects, resetting, lookup, contents, retries, clock>>

NoVersion == 0
NoObject == 0
Never == 1000

\* Mappings of the versions of one configuration: version -> valid_from
NoVersions == <<>>

IdleLookup == [pc |-> "idle", key |-> "", stamp |-> 0, object |-> NoObject,
               version |-> NoVersion, found |-> <<NoVersion, NoVersion, NoVersion>>,
               since |-> 0]

\* The service numbers the versions of a configuration: none has two events but to delete it.
ConfigurationDefinition(d) ==
    /\ d.kind = "configuration"
    /\ d.events \in Seq([config : Key \cup {"*"}, event : {"created", "updated", "deleted"},
                         version : Nat \ {0}, from : Nat])
    /\ \A i, j \in DOMAIN d.events :
          /\ d.events[i].config = d.events[j].config /\ d.events[i].version = d.events[j].version
          /\ d.events[i].event # "deleted" /\ d.events[j].event # "deleted"
          => i = j
    /\ d.concurrent \in BOOLEAN /\ d.cacheSize \in Nat \ {0} /\ d.failures \in Nat

\* Times of the backoff, base and maximum
VERSION_RETRY_BASE_DELAY == 1
VERSION_RETRY_MAX_DELAY == 2

-----------------------------------------------------------------------------
(* The thread *)

\* dict[key] = value
Entered(dict, key, value) ==
    [k \in DOMAIN dict \cup {key} |-> IF k = key THEN value ELSE dict[k]]

NewConfiguration(event) ==
    [versions |-> Entered(NoVersions, event.version, event.from),
     previous |-> NoVersion, version |-> NoVersion, next |-> NoVersion]

\* add_version(): what it clears after it has put the version
Reset(object) ==
    [object EXCEPT !.previous = NoVersion, !.version = NoVersion, !.next = NoVersion]

\* _process_config_event(): created or updated, for an id that is not known
CreateConfiguration(event) ==
    /\ event.event \in {"created", "updated"}
    /\ event.config \notin DOMAIN configurations
    /\ objects' = Append(objects, NewConfiguration(event))
    /\ configurations' = Entered(configurations, event.config, Len(objects) + 1)
    /\ UNCHANGED resetting

\* _process_config_event(): created or updated, up to the reset of the cached versions
AddVersion(event) ==
    /\ event.event \in {"created", "updated"}
    /\ event.config \in DOMAIN configurations
    /\ LET object == configurations[event.config]
       IN  /\ objects' = [objects EXCEPT ![object].versions = Entered(@, event.version, event.from)]
           /\ resetting' = object
    /\ UNCHANGED configurations

\* _process_config_event(): deleted.  The cached versions stay as they are.
DeleteVersion(event) ==
    /\ event.event = "deleted"
    /\ IF /\ event.config \in DOMAIN configurations
          /\ event.version \in DOMAIN objects[configurations[event.config]].versions
       THEN LET object == configurations[event.config]
                left   == DOMAIN objects[object].versions \ {event.version}
            IN  /\ objects' = [objects EXCEPT ![object].versions = Restrict(@, left)]
                /\ configurations' = IF left # {} THEN configurations
                       ELSE Restrict(configurations,
                                     DOMAIN configurations \ {event.config})
       ELSE UNCHANGED <<objects, configurations>>
    /\ UNCHANGED resetting

\* The thread and a lookup run at once only if the definition says so.
MayInterleave == definition.concurrent \/ lookup.pc = "idle"

\* _consumer_thread(): the next event of the topic
ConsumeEvent ==
    /\ MayInterleave /\ resetting = NoObject
    /\ applied < Len(definition.events)
    /\ LET event == definition.events[applied + 1]
       IN  CreateConfiguration(event) \/ AddVersion(event) \/ DeleteVersion(event)
    /\ applied' = applied + 1
    /\ UNCHANGED <<definition, arrived, lookup, contents, retries, clock>>

\* add_version() after the version is put
ResetVersions ==
    /\ resetting # NoObject
    /\ objects' = [objects EXCEPT ![resetting] = Reset(@)]
    /\ resetting' = NoObject
    /\ UNCHANGED <<definition, arrived, applied, configurations, lookup, contents,
                   retries, clock>>

-----------------------------------------------------------------------------
(* The lookup *)

\* The version with the highest number that is valid at a time.
Best(versions, stamp) ==
    Max({NoVersion} \cup {v \in DOMAIN versions : versions[v] <= stamp})

\* Mutant: the next version is the highest one, however late it becomes valid.
FindVersionsHighestNext(versions, stamp) ==
    LET valid   == {v \in DOMAIN versions : versions[v] <= stamp}
        current == Max({NoVersion} \cup valid)
        later   == {v \in DOMAIN versions : v > current /\ v \notin valid}
        earlier == valid \ {current}
    IN  <<IF current # NoVersion /\ versions[current] = 0 THEN NoVersion
          ELSE Max({NoVersion} \cup earlier),
          current,
          Max({NoVersion} \cup later)>>

\* _find_versions(): previous, current and next.  From the highest number down, the
\* first valid version is the current one and the second the previous one, which is not
\* looked for behind a version that is always valid; before the current one, the
\* version that becomes valid first is the next one.
FindVersions(versions, stamp) ==
    LET valid   == {v \in DOMAIN versions : versions[v] <= stamp}
        current == Max({NoVersion} \cup valid)
        later   == {v \in DOMAIN versions : v > current /\ v \notin valid}
        first   == {v \in later : \A w \in later : versions[v] <= versions[w]}
        earlier == valid \ {current}
    IN  <<IF current # NoVersion /\ versions[current] = 0 THEN NoVersion
          ELSE Max({NoVersion} \cup earlier),
          current,
          Max({NoVersion} \cup first)>>

Cfg == objects[lookup.object]
GoTo(pc) == lookup' = [lookup EXCEPT !.pc = pc]
Finds(version) == lookup' = [lookup EXCEPT !.pc = "fetch", !.version = version]

\* valid_from of a version object that is held in the cache; it may be deleted from
\* the configuration, and stays what its event said.
ValidFrom(config, version) ==
    LET events == {i \in DOMAIN definition.events :
                      /\ definition.events[i].config = config
                      /\ definition.events[i].version = version
                      /\ definition.events[i].event # "deleted"}
    IN  definition.events[Max(events)].from

\* _find_version(): the configuration of the key, or of the wildcard
FindConfiguration(key, stamp) ==
    /\ lookup.pc = "idle"
    /\ definition.concurrent \/ resetting = NoObject
    /\ LET config == IF key \in DOMAIN configurations THEN key ELSE "*"
           begun  == [IdleLookup EXCEPT !.key = config, !.stamp = stamp,
                     !.since = IF resetting = NoObject THEN applied ELSE applied - 1]
       IN  lookup' = IF config \in DOMAIN configurations
                     THEN [begun EXCEPT !.pc = "cached", !.object = configurations[config]]
                     ELSE [begun EXCEPT !.pc = "fetch"]
    /\ UNCHANGED <<definition, arrived, applied, configurations, objects, resetting,
                   contents, retries, clock>>

\* find_valid_version(): is a version cached?
CheckCached ==
    /\ lookup.pc = "cached"
    /\ IF DOMAIN Cfg.versions = {} THEN Finds(NoVersion)
       ELSE GoTo(IF Cfg.version = NoVersion THEN "compute" ELSE "next")

\* find_valid_version(): has the next version become valid?
CheckNext ==
    /\ lookup.pc = "next"
    /\ GoTo(IF /\ Cfg.next # NoVersion
               /\ ValidFrom(lookup.key, Cfg.next) <= lookup.stamp
            THEN "compute" ELSE "current")

\* find_valid_version(): the cached version, the previous one, or neither is valid.  A
\* reset since the first check makes self.version.valid_from an AttributeError.
CheckCurrent ==
    /\ lookup.pc = "current"
    /\ IF Cfg.version = NoVersion THEN GoTo("raised")
       ELSE IF ValidFrom(lookup.key, Cfg.version) <= lookup.stamp THEN Finds(Cfg.version)
       ELSE IF /\ Cfg.previous # NoVersion
               /\ ValidFrom(lookup.key, Cfg.previous) <= lookup.stamp
            THEN Finds(Cfg.previous)
            ELSE GoTo("compute")

\* find_valid_version(): the call of _find_versions()
ComputeVersions ==
    /\ lookup.pc = "compute"
    /\ lookup' = [lookup EXCEPT !.pc = "assign",
                                !.found = FindVersions(Cfg.versions, lookup.stamp)]

ReadsOnly ==
    /\ CheckCached \/ CheckNext \/ CheckCurrent \/ ComputeVersions
    /\ UNCHANGED <<definition, arrived, applied, configurations, objects, resetting,
                   contents, retries, clock>>

\* find_valid_version(): the assignment of what was found
AssignVersions ==
    /\ lookup.pc = "assign"
    /\ objects' = [objects EXCEPT ![lookup.object] =
           [@ EXCEPT !.previous = lookup.found[1], !.version = lookup.found[2],
                     !.next = lookup.found[3]]]
    /\ GoTo("return")
    /\ UNCHANGED <<definition, arrived, applied, configurations, resetting, contents,
                   retries, clock>>

\* find_valid_version(): return self.version, which is read again
ReturnVersion ==
    /\ lookup.pc = "return"
    /\ Finds(Cfg.version)
    /\ UNCHANGED <<definition, arrived, applied, configurations, objects, resetting,
                   contents, retries, clock>>

-----------------------------------------------------------------------------
(* The content *)

\* The key of the version in the cache; there is one for no version.
VersionId == IF lookup.version = NoVersion THEN <<"*", NoVersion>>
             ELSE <<lookup.key, lookup.version>>

RetryOf(id) == IF id \in DOMAIN retries THEN retries[id] ELSE [count |-> 0, at |-> Never]

\* failed(): the next attempt is due after an exponential delay
Failed(retry) ==
    [count |-> retry.count + 1,
     at    |-> clock + Min({VERSION_RETRY_BASE_DELAY * 2 ^ retry.count,
                            VERSION_RETRY_MAX_DELAY})]

\* Mutant: the entry is used although its retry is due.
NotDue(id) == contents

\* VersionDataLRU.remove(): a version has one entry at most.
Removed(entries, id) ==
    LET there == {i \in DOMAIN entries : entries[i].version = id}
    IN  IF there = {} THEN entries ELSE RemoveAt(entries, CHOOSE i \in there : TRUE)

\* join(): the entry of a version that is due to be fetched again is removed
Due(id) == IF RetryOf(id).at < clock THEN Removed(contents, id) ELSE contents

\* VersionDataLRU: the entry at the end, or a new one for what func returned
Recent(entries, entry) ==
    LET rest == Removed(entries, entry.version)
    IN  IF Len(rest) >= definition.cacheSize THEN Append(Tail(rest), entry)
                                             ELSE Append(rest, entry)

Enriched(content, fetched) ==
    /\ Arrives([key |-> lookup.key, stamp |-> lookup.stamp, version |-> lookup.version,
                content |-> content, fetched |-> fetched, since |-> lookup.since,
                applied |-> applied, at |-> clock])
    /\ lookup' = IdleLookup

\* _version_data_cached(): a hit
CachedContent ==
    /\ lookup.pc = "fetch"
    /\ \E entry \in {Due(VersionId)[i] : i \in DOMAIN Due(VersionId)} :
          /\ entry.version = VersionId
          /\ contents' = Recent(Due(VersionId), entry)
          /\ Enriched(entry.content, FALSE)
    /\ UNCHANGED <<definition, applied, configurations, objects, resetting, retries, clock>>

\* _version_data(): the content is fetched, or missing for want of a version or after
\* a failure that the fallback replaces by defaults
FetchContent ==
    /\ lookup.pc = "fetch"
    /\ \A i \in DOMAIN Due(VersionId) : Due(VersionId)[i].version # VersionId
    /\ \E ok \in BOOLEAN :
          /\ ~ok => lookup.version # NoVersion /\ RetryOf(VersionId).count < definition.failures
          /\ LET content == IF ok /\ lookup.version # NoVersion THEN "content" ELSE "default"
             IN  /\ contents' = Recent(Due(VersionId),
                                       [version |-> VersionId, content |-> content])
                 /\ Enriched(content, TRUE)
          /\ retries' = IF lookup.version = NoVersion THEN retries
                        ELSE Entered(retries, VersionId, IF ok THEN [count |-> 0, at |-> Never]
                                                         ELSE Failed(RetryOf(VersionId)))
    /\ UNCHANGED <<definition, applied, configurations, objects, resetting, clock>>

\* Time passes, which matters to retries only.
ClockTicks ==
    /\ lookup.pc = "idle"
    /\ \E id \in DOMAIN retries : retries[id].at # Never /\ retries[id].at + 1 >= clock
    /\ clock' = clock + 1
    /\ UNCHANGED <<definition, arrived, applied, configurations, objects, resetting,
                   lookup, contents, retries>>

ConfigurationNext ==
    \/ ConsumeEvent \/ ResetVersions \/ ReadsOnly \/ AssignVersions \/ ReturnVersion
    \/ CachedContent \/ FetchContent

ConfigurationInit ==
    /\ applied = 0
    /\ configurations = <<>>
    /\ objects = <<>>
    /\ resetting = NoObject
    /\ lookup = IdleLookup
    /\ contents = <<>>
    /\ retries = <<>>
    /\ clock = 0

-----------------------------------------------------------------------------
Configured == definition.kind = "configuration"

HasDeletes == \E i \in DOMAIN definition.events : definition.events[i].event = "deleted"

\* The versions of a configuration that the first events leave, by their numbers.
VersionsAfter(config, count) ==
    LET put(i)  == /\ definition.events[i].config = config
                   /\ definition.events[i].event # "deleted"
        gone(i) == \E j \in i..count :
                      /\ definition.events[j].config = config
                      /\ definition.events[j].event = "deleted"
                      /\ definition.events[j].version = definition.events[i].version
        live    == {i \in 1..count : put(i) /\ ~gone(i)}
    IN  [v \in {definition.events[i].version : i \in live} |-> ValidFrom(config, v)]

\* A lookup during which no event arrives finds the version with the highest number
\* that is valid for its timestamp, in the configuration as the events have left it.
FoundBest(n) ==
    LET message == arrived[n]
    IN  message.since = message.applied =>
            message.version = Best(VersionsAfter(message.key, message.since), message.stamp)

\* The cached versions give the same answers as a search of all versions, whatever the
\* order of timestamps and of updates in between.
CachedVersionsExact ==
    Configured /\ ~definition.concurrent /\ ~HasDeletes =>
        \A n \in Message : FoundBest(n)

\* The lookup "handles configuration creation, update, and deletion events".
EventsTakeEffect == Configured => \A n \in Message : FoundBest(n)

\* Even when an event comes in the middle of a lookup, or deletes what it has cached,
\* the version found is one whose event has come and that is valid at the timestamp.
VersionValid ==
    Configured =>
        \A n \in Message :
            LET message == arrived[n]
            IN  message.version # NoVersion =>
                    /\ ValidFrom(message.key, message.version) <= message.stamp
                    /\ \E i \in 1..message.applied :
                          /\ definition.events[i].config = message.key
                          /\ definition.events[i].version = message.version

\* The version that a message is enriched with is the right one, and at least a valid
\* one when events interleave with the lookup.
VersionsExact == CachedVersionsExact /\ VersionValid

\* Defaults stand in for the content of a version only until its next attempt is due.
FailuresRetried ==
    Configured =>
        \A n \in Message :
            LET message == arrived[n]
            IN  message.version # NoVersion /\ message.content = "default" =>
                    \E m \in 1..n :
                        /\ arrived[m].key = message.key
                        /\ arrived[m].version = message.version
                        /\ arrived[m].fetched
                        /\ message.at - arrived[m].at <= VERSION_RETRY_MAX_DELAY

=============================================================================
