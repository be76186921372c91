-------------------------------- MODULE Async -------------------------------
(***************************************************************************)
(* The asynchronous API of hiredis (async.c) between an event loop, the    *)
(* callbacks of its user and Redis.  A command is registered with a        *)
(* callback: in the list of replies, in the list of invalid commands when  *)
(* the context is subscribed, or under each channel or pattern that it     *)
(* subscribes to.  Commands and replies are whole; Format and Reader say   *)
(* what their bytes are.  A user may call the API between events and in    *)
(* the callback of a reply; in the callbacks of connecting and             *)
(* disconnecting it only looks at the status.  The event loop is attached  *)
(* by adapters/libevent.h: an event that has come must be added again.     *)
(***************************************************************************)
EXTENDS Dict

CONSTANTS
    Scripts,        \* bound: the commands of a user, as sequences of [kind, p,
                    \* names, fn]: what, of patterns, of which keys, and
                    \* whether there is a callback
    MaxMessages,    \* bound: messages published, lines of MONITOR
    MaxParts,       \* bound: events that move no whole command or reply
    MaxUpsets       \* bound: failures of the connection, bytes that are no reply

Commands == UNION {Range(script) : script \in Scripts}
MaxCommands == Max({Len(script) : script \in Scripts})

ASSUME AsyncAssumption ==
    /\ Scripts \subseteq Seq([kind : {"GET", "QUIT", "MONITOR", "SUBSCRIBE", "UNSUBSCRIBE"},
                              p : BOOLEAN, names : Seq(Keys), fn : BOOLEAN])
    /\ \A c \in Commands : IF c.kind \in {"SUBSCRIBE", "UNSUBSCRIBE"}
                            THEN c.names # <<>> /\ IsInjective(c.names) ELSE c.names = <<>>
    /\ Scripts # {} /\ IsFiniteSet(Scripts)
    /\ {MaxMessages, MaxParts, MaxUpsets} \subseteq Nat

VARIABLES
    flags,      \* the flags of the context
    err,        \* its error
    replies,    \* ac->replies, a list of callbacks
    invalid,    \* ac->sub.invalid
    channels,   \* ac->sub.channels, a dict of callbacks
    patterns,   \* ac->sub.patterns
    hook,       \* onConnect and onDisconnect: unset, set, or the status told
    obuf,       \* commands in the output buffer
    rbuf,       \* replies in the reader
    cb,         \* the variable of redisProcessCallbacks: whose turn it is
    it,         \* how far __redisAsyncFree is in the dicts
    pc,         \* what the thread does: idle, process, free, callback, ...
    caller,     \* who called the callback
    run,        \* the callback that runs, and its reply
    scheduled,  \* the events that the loop waits for
    conn,       \* the connection: connecting, failed, open, closed
    wire,       \* commands written, which Redis has not read
    inbox,      \* replies sent, which the context has not read
    subs,       \* Redis's: what this client is subscribed to
    monitors,   \* Redis's: the MONITOR command of this client, or 0
    issued,     \* the commands accepted so far; a command is its number
    done,       \* those whose callback was called for a reply, or for none
    counts      \* messages, parts and upsets so far

context == <<flags, err, replies, invalid, channels, patterns, hook, obuf, rbuf>>
thread == <<cb, it, pc, caller, run>>
network == <<conn, wire, inbox>>
server == <<subs, monitors>>
history == <<issued, done>>
vars == <<context, thread, scheduled, network, server, history, counts>>

Callback(fn, id) == [fn |-> fn, id |-> id, pending_subs |-> 1]
NoCallback == [fn |-> FALSE, id |-> 0, pending_subs |-> 0]

\* A reply: what answers the command for, or what comes by itself.
Message(type, for, kind, p, name, count) ==
    [type |-> type, for |-> for, kind |-> kind, p |-> p, name |-> name, count |-> count]
Reply(type, for) == Message(type, for, "reply", FALSE, "none", 0)
NULL == Reply("NULL", 0)

Init ==
    /\ flags = {} /\ err = "none"
    /\ replies = <<>> /\ invalid = <<>>
    /\ channels = dictCreate /\ patterns = dictCreate
    /\ hook = [connect |-> "unset", disconnect |-> "unset"]
    /\ obuf = <<>> /\ rbuf = <<>>
    /\ cb = NoCallback /\ it = 0 /\ pc = "idle" /\ caller = "none"
    /\ run = [id |-> 0, reply |-> NULL]
    /\ scheduled = {"read", "write"}
    /\ conn = "connecting" /\ wire = <<>> /\ inbox = <<>>
    /\ subs = {} /\ monitors = 0
    /\ issued = <<>> /\ done = {}
    /\ counts = [messages |-> 0, parts |-> 0, upsets |-> 0]

\* The callback h of the user, if there is one, is told the status.
Told(h, status) == [hook EXCEPT ![h] = IF @ = "set" THEN status ELSE @]

Count(what, most) == counts[what] < most /\ counts' = [counts EXCEPT ![what] = @ + 1]
-----------------------------------------------------------------------------
(* Callbacks, and the end of the context.                                  *)

\* __redisRunCallback for by, with the flags fs, if there is a function.
RunCallback(c, reply, by, fs) ==
    IF c.fn
    THEN /\ flags' = fs \cup {"IN_CALLBACK"}
         /\ pc' = "callback" /\ caller' = by
         /\ run' = [id |-> c.id, reply |-> reply]
    ELSE flags' = fs /\ pc' = by /\ UNCHANGED <<caller, run>>

\* __redisAsyncDisconnect, with e for c->err and with the flags: a clean one
\* asserts that no callback is left.
AsyncDisconnect(e, fs) ==
    /\ err' = e
    /\ IF e = "none"
       THEN /\ flags' = fs
            /\ pc' = IF replies = <<>> THEN "free" ELSE "aborted"
       ELSE flags' = fs \cup {"DISCONNECTING"} /\ pc' = "free"

\* The callbacks of the dicts, in the order in which __redisAsyncFree runs them.
Subscribed == Entries(channels) \o Entries(patterns)

\* Mutant of CallbacksLeft: only the callbacks in the list of replies are told.
RegularLeft == replies # <<>>

CallbacksLeft == replies # <<>> \/ invalid # <<>> \/ it < Len(Subscribed)

\* __redisAsyncFree: each pending callback gets no reply.
FreeNext ==
    /\ pc = "free"
    /\ \/ /\ replies # <<>>
          /\ replies' = Tail(replies) /\ RunCallback(Head(replies), NULL, "free", flags)
          /\ UNCHANGED <<invalid, it>>
       \/ /\ replies = <<>> /\ invalid # <<>>
          /\ invalid' = Tail(invalid) /\ RunCallback(Head(invalid), NULL, "free", flags)
          /\ UNCHANGED <<replies, it>>
       \/ /\ replies = <<>> /\ invalid = <<>> /\ it < Len(Subscribed)
          /\ it' = it + 1 /\ RunCallback(Subscribed[it + 1].val, NULL, "free", flags)
          /\ UNCHANGED <<replies, invalid>>
    /\ UNCHANGED <<err, channels, patterns, hook, obuf, rbuf, cb, scheduled,
                   network, server, history, counts>>

\* The rest of it: the event loop forgets the context, the user is told.
FreeContext ==
    /\ pc = "free" /\ ~CallbacksLeft
    /\ pc' = "freed" /\ scheduled' = {}
    /\ hook' = IF "CONNECTED" \notin flags THEN hook
               ELSE Told("disconnect", IF "FREEING" \in flags \/ err = "none" THEN "OK" ELSE "ERR")
    /\ conn' = "closed" /\ inbox' = <<>>
    /\ UNCHANGED <<flags, err, replies, invalid, channels, patterns, obuf, rbuf, cb, it,
                   caller, run, wire, server, history, counts>>
-----------------------------------------------------------------------------
(* Replies.                                                                *)

\* Mutant of Unsubscribed: the context is not subscribed as soon as Redis
\* counts no subscriptions.
UnsubscribedAtZero(m, chans, pats) ==
    IF m.kind = "unsubscribe" /\ m.count = 0 THEN flags \ {"SUBSCRIBED"} ELSE flags

\* The flags after a message: after the last unsubscribe, unless a subscribe
\* is still to come, the context is not subscribed.
Unsubscribed(m, chans, pats) ==
    IF m.kind = "unsubscribe" /\ m.count = 0 /\ chans.used = 0 /\ pats.used = 0
    THEN flags \ {"SUBSCRIBED"} ELSE flags

\* __redisGetSubscribeCallback; without an entry cb stays what it was.
GetSubscribeCallback(m) ==
    LET dict  == IF m.p THEN patterns ELSE channels
        entry == dictFind(dict, m.name)
        old   == dictGetEntryVal(entry)
        val   == IF m.kind = "subscribe" THEN [old EXCEPT !.pending_subs = @ - 1] ELSE old
        new   == IF m.kind = "unsubscribe" /\ val.pending_subs = 0
                 THEN dictDelete(dict, m.name) ELSE SetVal(dict, m.name, val)
        chans == IF m.p THEN channels ELSE new
        pats  == IF m.p THEN new ELSE patterns
    IN  IF m.type # "ARRAY"
        THEN /\ cb' = IF invalid = <<>> THEN cb ELSE Head(invalid)
             /\ invalid' = IF invalid = <<>> THEN invalid ELSE Tail(invalid)
             /\ RunCallback(cb', m, "process", flags)
             /\ UNCHANGED <<channels, patterns>>
        ELSE IF entry = {}
        THEN /\ RunCallback(cb, m, "process", flags)
             /\ UNCHANGED <<cb, invalid, channels, patterns>>
        ELSE /\ cb' = val /\ channels' = chans /\ patterns' = pats
             /\ RunCallback(val, m, "process", Unsubscribed(m, chans, pats))
             /\ UNCHANGED invalid

\* One round of redisProcessCallbacks with a reply: a regular command's, an
\* error that comes by itself, or a message.
ProcessReply ==
    /\ pc = "process" /\ rbuf # <<>>
    /\ rbuf' = Tail(rbuf)
    /\ LET m == Head(rbuf) IN
       IF m.type = "BAD"
       THEN /\ AsyncDisconnect("PROTOCOL", flags)
            /\ UNCHANGED <<replies, invalid, channels, patterns, cb, caller, run>>
       ELSE IF replies # <<>>
       THEN /\ replies' = Tail(replies) /\ cb' = Head(replies)
            /\ RunCallback(cb', m, "process", flags)
            /\ UNCHANGED <<err, invalid, channels, patterns>>
       ELSE IF m.type = "ERROR"
       THEN /\ AsyncDisconnect("OTHER", flags)
            /\ UNCHANGED <<replies, invalid, channels, patterns, cb, caller, run>>
       ELSE IF flags \cap {"SUBSCRIBED", "MONITORING"} = {}
       THEN pc' = "aborted" /\ UNCHANGED <<flags, err, replies, invalid, channels,
                                            patterns, cb, caller, run>>
       ELSE IF "SUBSCRIBED" \in flags
       THEN GetSubscribeCallback(m) /\ UNCHANGED <<err, replies>>
       ELSE /\ RunCallback(cb, m, "process", flags)
            /\ UNCHANGED <<err, replies, invalid, channels, patterns, cb>>
    /\ UNCHANGED <<hook, obuf, it, scheduled, network, server, history, counts>>

\* The round without a reply, the last: the cue to disconnect, or to wait.
ProcessEnd ==
    /\ pc = "process" /\ rbuf = <<>>
    /\ IF "DISCONNECTING" \in flags /\ obuf = <<>> /\ replies = <<>>
       THEN AsyncDisconnect(err, flags) /\ UNCHANGED replies
       ELSE /\ replies' = IF "MONITORING" \in flags THEN Append(replies, cb) ELSE replies
            /\ pc' = "idle" /\ UNCHANGED <<flags, err>>
    /\ UNCHANGED <<invalid, channels, patterns, hook, obuf, rbuf, cb, it, caller, run,
                   scheduled, network, server, history, counts>>

\* The callback returns; redisAsyncFree may have been called in it.
CallbackReturns ==
    /\ pc = "callback"
    /\ flags' = flags \ {"IN_CALLBACK"}
    /\ pc' = IF "FREEING" \in flags THEN "free" ELSE caller
    /\ done' = done \cup {run.id}
    /\ UNCHANGED <<err, replies, invalid, channels, patterns, hook, obuf, rbuf, cb, it,
                   caller, run, scheduled, network, server, issued, counts>>
-----------------------------------------------------------------------------
(* Events.                                                                 *)

\* The loop calls a handler for an event that is due, and waits for it no
\* longer.
Due(handler) == pc = "idle" /\ handler \in scheduled /\ conn # "connecting"

\* __redisAsyncHandleConnect: not connected.
ConnectFails ==
    /\ conn = "failed" /\ (Due("read") \/ Due("write"))
    /\ hook' = Told("connect", "ERR")
    /\ AsyncDisconnect("IO", flags)
    /\ UNCHANGED <<replies, invalid, channels, patterns, obuf, rbuf, cb, it, caller, run,
                   scheduled, network, server, history, counts>>

\* Connected: the first handler that is called tells so before it goes on.
Opened == flags \cup {"CONNECTED"}
Connects(handler) ==
    /\ Due(handler) /\ conn # "failed"
    /\ hook' = IF "CONNECTED" \in flags THEN hook ELSE Told("connect", "OK")

\* redisAsyncHandleRead: some whole replies, or none; an error; or the end.
\* The loop always waits for more.
HandleRead ==
    /\ Connects("read")
    /\ \/ \E n \in 0..Len(inbox) :
            /\ inbox # <<>>
            /\ rbuf' = rbuf \o SubSeq(inbox, 1, n) /\ inbox' = SubSeq(inbox, n + 1, Len(inbox))
            /\ IF n = 0 THEN Count("parts", MaxParts) ELSE UNCHANGED counts
            /\ cb' = NoCallback /\ pc' = "process" /\ flags' = Opened
            /\ UNCHANGED err
       \/ /\ conn = "closed" /\ inbox = <<>>
          /\ \E e \in {"EOF", "IO"} : AsyncDisconnect(e, Opened)
          /\ UNCHANGED <<rbuf, inbox, cb, counts>>
    /\ UNCHANGED <<replies, invalid, channels, patterns, obuf, it, caller, run, scheduled,
                   conn, wire, server, history>>

\* Mutant of AfterWrite: the rest of the buffer is not scheduled.
AfterWriteDone(left) == {"read"}

\* The events waited for after a write: more writes when bytes are left, and
\* always reads.
AfterWrite(left) == {"read"} \cup IF left = <<>> THEN {} ELSE {"write"}

\* redisAsyncHandleWrite: commands go to Redis, or to nobody when it is gone,
\* or the kernel says that it is.
HandleWrite ==
    /\ Connects("write")
    /\ \/ \E n \in 0..Len(obuf) :
            /\ obuf' = SubSeq(obuf, n + 1, Len(obuf)) /\ wire' = wire \o SubSeq(obuf, 1, n)
            /\ IF n = 0 /\ obuf # <<>> THEN Count("parts", MaxParts) ELSE UNCHANGED counts
            /\ scheduled' = AfterWrite(obuf')
            /\ flags' = Opened
            /\ UNCHANGED <<err, pc>>
       \/ /\ conn = "closed" /\ obuf # <<>>
          /\ AsyncDisconnect("IO", Opened)
          /\ UNCHANGED <<obuf, wire, scheduled, counts>>
    /\ UNCHANGED <<replies, invalid, channels, patterns, rbuf, cb, it, caller, run,
                   conn, inbox, server, history>>
-----------------------------------------------------------------------------
(* Calls of the user.                                                      *)

\* Mutant of Add: the replies to come are not counted.
AddUncounted(dict, names, callback) ==
    LET added[n \in 0..Len(names)] ==
            IF n = 0 THEN dict ELSE dictReplace(added[n - 1], names[n], callback)
    IN  added[Len(names)]

\* The callbacks of a SUBSCRIBE go to each of its keys; one that is there
\* counts the replies to come, and the count is kept for the keys after it.
Add(dict, names, callback) ==
    LET next(s, name) ==
            LET entry == dictFind(s.dict, name)
                new == IF entry = {} THEN s.cb
                       ELSE [s.cb EXCEPT !.pending_subs = dictGetEntryVal(entry).pending_subs + 1]
            IN  [dict |-> dictReplace(s.dict, name, new), cb |-> new]
        added[n \in 0..Len(names)] ==
            IF n = 0 THEN [dict |-> dict, cb |-> callback] ELSE next(added[n - 1], names[n])
    IN  added[Len(names)].dict

\* redisAsyncSetConnectCallback and redisAsyncSetDisconnectCallback, before
\* anything else; a second call is refused.
SetCallbacks ==
    /\ pc = "idle" /\ issued = <<>> /\ conn = "connecting"
    /\ \A h \in DOMAIN hook : hook[h] = "unset"
    /\ hook' = [h \in DOMAIN hook |-> "set"]
    /\ scheduled' = scheduled \cup {"write"}
    /\ UNCHANGED <<flags, err, replies, invalid, channels, patterns, obuf, rbuf, thread,
                   network, server, history, counts>>

MayCall == pc \in {"idle", "callback"}

About(c, p, name) == c.p = p /\ name \in Range(c.names)

\* The last of the first n commands about a key was to subscribe to it.
WantedAfter(n, p, name) ==
    \E i \in 1..n :
        /\ issued[i].kind = "SUBSCRIBE" /\ About(issued[i], p, name)
        /\ \A j \in (i + 1)..n : ~About(issued[j], p, name)
Wants(p, name) == WantedAfter(Len(issued), p, name)
WantsNone == \A p \in BOOLEAN, name \in Keys : ~Wants(p, name)

\* What async.c takes for granted of its user, who is nowhere told: it leaves
\* what it subscribed to, sends no other command before it is out of
\* subscribed mode once it has left everything, subscribes to many keys only
\* when they are new, and monitors, not from a callback, on a connection that
\* does nothing else.
Proper(c) ==
    /\ "MONITORING" \notin flags
    /\ CASE c.kind = "UNSUBSCRIBE" -> \A i \in DOMAIN c.names : Wants(c.p, c.names[i])
         [] c.kind = "SUBSCRIBE"   ->
              Len(c.names) = 1
              \/ \A i \in DOMAIN c.names :
                    dictFind(IF c.p THEN patterns ELSE channels, c.names[i]) = {}
         [] c.kind = "MONITOR"     -> pc = "idle" /\ replies = <<>> /\ "SUBSCRIBED" \notin flags
         [] OTHER                  -> "SUBSCRIBED" \in flags => ~WantsNone

\* Mutant of ListOf: every regular callback waits in the one list.
AlwaysReplies(c) == IF c.kind \in {"SUBSCRIBE", "UNSUBSCRIBE"} THEN "none" ELSE "replies"

\* The list in which the callback of a command waits.
ListOf(c) ==
    CASE c.kind = "MONITOR"         -> "replies"
      [] c.kind \in {"GET", "QUIT"} -> IF "SUBSCRIBED" \in flags THEN "invalid" ELSE "replies"
      [] OTHER                      -> "none"

\* __redisAsyncCommand.  A call that it refuses changes nothing.
Command(c) ==
    LET id == Len(issued) + 1
        callback == Callback(c.fn, id)
    IN
    /\ MayCall /\ flags \cap {"DISCONNECTING", "FREEING"} = {}
    /\ (\E script \in Scripts : IsPrefix(Append(issued, c), script)) /\ Proper(c)
    /\ c.kind = "UNSUBSCRIBE" => "SUBSCRIBED" \in flags
    /\ flags' = flags \cup (CASE c.kind = "SUBSCRIBE" -> {"SUBSCRIBED"}
                              [] c.kind = "MONITOR"   -> {"MONITORING"}
                              [] OTHER                -> {})
    /\ channels' = IF c.kind = "SUBSCRIBE" /\ ~c.p THEN Add(channels, c.names, callback) ELSE channels
    /\ patterns' = IF c.kind = "SUBSCRIBE" /\ c.p THEN Add(patterns, c.names, callback) ELSE patterns
    /\ replies' = IF ListOf(c) = "replies" THEN Append(replies, callback) ELSE replies
    /\ invalid' = IF ListOf(c) = "invalid" THEN Append(invalid, callback) ELSE invalid
    /\ obuf' = Append(obuf, id)
    /\ issued' = Append(issued, c)
    /\ scheduled' = scheduled \cup {"write"}
    /\ UNCHANGED <<err, hook, rbuf, thread, network, server, done, counts>>

\* redisAsyncFree: at once, or when the callback has returned.
Free ==
    /\ MayCall
    /\ flags' = flags \cup {"FREEING"}
    /\ pc' = IF "IN_CALLBACK" \in flags THEN pc ELSE "free"
    /\ UNCHANGED <<err, replies, invalid, channels, patterns, hook, obuf, rbuf, cb, it, caller,
                   run, scheduled, network, server, history, counts>>

\* redisAsyncDisconnect: at once if no reply is awaited.
Disconnect ==
    /\ MayCall
    /\ IF "IN_CALLBACK" \notin flags /\ replies = <<>>
       THEN AsyncDisconnect(err, flags \cup {"DISCONNECTING"})
       ELSE flags' = flags \cup {"DISCONNECTING"} /\ UNCHANGED <<err, pc>>
    /\ UNCHANGED <<replies, invalid, channels, patterns, hook, obuf, rbuf, cb, it, caller, run,
                   scheduled, network, server, history, counts>>
-----------------------------------------------------------------------------
(* Redis and the network.                                                  *)

\* What is subscribed to after the first n keys of a command.
SubscribedTo(c, n, before) ==
    LET keys == {<<c.p, c.names[i]>> : i \in 1..n} IN
    IF c.kind = "SUBSCRIBE" THEN before \cup keys ELSE before \ keys

\* Redis sends a message for each key, with the number of subscriptions then.
Acknowledged(c, before) ==
    [n \in DOMAIN c.names |->
        Message("ARRAY", 0, IF c.kind = "SUBSCRIBE" THEN "subscribe" ELSE "unsubscribe",
                c.p, c.names[n], Cardinality(SubscribedTo(c, n, before)))]

\* Redis serves the next command; a subscribed client may only quit.
Serve ==
    /\ conn = "open" /\ wire # <<>>
    /\ wire' = Tail(wire)
    /\ LET id == Head(wire)
           c == issued[id]
       IN  IF c.kind \in {"SUBSCRIBE", "UNSUBSCRIBE"}
           THEN /\ subs' = SubscribedTo(c, Len(c.names), subs)
                /\ inbox' = inbox \o Acknowledged(c, subs)
                /\ UNCHANGED <<monitors, conn>>
           ELSE /\ \E type \in {"STATUS", "ERROR"} :
                     /\ c.kind # "GET" => type = "STATUS"
                     /\ c.kind = "GET" /\ subs # {} => type = "ERROR"
                     /\ inbox' = Append(inbox, Reply(type, id))
                /\ monitors' = IF c.kind = "MONITOR" THEN id ELSE monitors
                /\ conn' = IF c.kind = "QUIT" THEN "closed" ELSE conn
                /\ UNCHANGED subs
    /\ UNCHANGED <<context, thread, scheduled, history, counts>>

\* Somebody publishes, or sends a command that is monitored.
Publish ==
    /\ conn = "open" /\ Count("messages", MaxMessages)
    /\ \/ \E s \in subs : inbox' = Append(inbox, Message("ARRAY", 0, "message", s[1], s[2], 0))
       \/ monitors # 0 /\ inbox' = Append(inbox, Reply("STATUS", monitors))
    /\ UNCHANGED <<context, thread, scheduled, conn, wire, server, history>>

\* There is a connection, or none, or Redis has too many.
Accept ==
    /\ conn = "connecting"
    /\ \/ conn' \in {"open", "failed"} /\ UNCHANGED <<inbox, counts>>
       \/ conn' = "closed" /\ inbox' = <<Reply("ERROR", 0)>> /\ Count("upsets", MaxUpsets)
    /\ UNCHANGED <<context, thread, scheduled, wire, server, history>>

\* The connection is closed, or lost, or Redis sends what is no reply.
Upset ==
    /\ conn = "open" /\ Count("upsets", MaxUpsets)
    /\ \/ conn' = "closed" /\ inbox' \in {inbox, <<>>}
       \/ inbox' = Append(inbox, Reply("BAD", 0)) /\ UNCHANGED conn
    /\ UNCHANGED <<context, thread, scheduled, wire, server, history>>

Over == pc \in {"freed", "aborted"} /\ UNCHANGED vars

Library ==
    \/ ProcessReply \/ ProcessEnd \/ CallbackReturns \/ FreeNext \/ FreeContext
    \/ ConnectFails \/ HandleRead \/ HandleWrite

Next ==
    \/ Library \/ SetCallbacks \/ Free \/ Disconnect
    \/ \E c \in Commands : Command(c)
    \/ Serve \/ Publish \/ Accept \/ Upset \/ Over

Spec == Init /\ [][Next]_vars

\* The loop runs the handlers of events that are due, callbacks return, Redis
\* is reached and serves.
FairSpec == Spec /\ WF_vars(Library) /\ WF_vars(Accept \/ Serve)
-----------------------------------------------------------------------------
(* Properties.                                                             *)

Ids == 0..MaxCommands
Callbacks == [fn : BOOLEAN, id : Ids, pending_subs : 0..MaxCommands]
Regular(id) == issued[id].kind \in {"GET", "QUIT"}
DictOf(p) == IF p THEN patterns ELSE channels

\* Type invariant: also, the dicts are as IsDict says (dict.c).
TypeOK ==
    /\ flags \subseteq {"CONNECTED", "DISCONNECTING", "FREEING", "IN_CALLBACK",
                        "SUBSCRIBED", "MONITORING"}
    /\ err \in {"none", "IO", "EOF", "PROTOCOL", "OTHER"}
    /\ {replies, invalid} \subseteq Seq(Callbacks) /\ cb \in Callbacks
    /\ IsDict(channels, Callbacks) /\ IsDict(patterns, Callbacks)
    /\ hook \in [{"connect", "disconnect"} -> {"unset", "set", "OK", "ERR"}]
    /\ {obuf, wire} \subseteq Seq(Ids) /\ issued \in Seq(Commands)
    /\ pc \in {"idle", "process", "callback", "free", "freed", "aborted"}
    /\ caller \in {"none", "process", "free"}
    /\ run.id \in Ids /\ done \subseteq Ids
    /\ scheduled \subseteq {"read", "write"}
    /\ conn \in {"connecting", "failed", "open", "closed"}
    /\ it \in 0..Len(Subscribed)

\* A callback gets the reply to its command, or a message of a channel or
\* pattern it was registered for, or none; one of a regular command runs once,
\* after those of the regular commands before it (async.c:426-504).
RepliesMatch ==
    pc = "callback" =>
        /\ \/ run.reply = NULL
           \/ run.reply = Reply("ERROR", 0)     \* from a Redis that is full
           \/ run.reply.for = run.id
           \/ /\ issued[run.id].kind = "SUBSCRIBE"
              /\ run.reply.p = issued[run.id].p
              /\ run.reply.name \in Range(issued[run.id].names)
        /\ Regular(run.id) =>
             /\ run.id \notin done
             /\ \A id \in 1..(run.id - 1) : Regular(id) /\ issued[id].fn => id \in done

\* When the context is gone every callback of a regular command, and every one
\* that was still subscribed, has run, and the user was told so if it had been
\* connected; while it goes, commands are refused (async.c:276-318).
NoneForgotten ==
    /\ pc = "freed" =>
         /\ \A id \in DOMAIN issued : Regular(id) /\ issued[id].fn => id \in done
         /\ \A i \in DOMAIN Subscribed : Subscribed[i].val.fn => Subscribed[i].val.id \in done
         /\ hook["disconnect"] = "set" => "CONNECTED" \notin flags
    /\ pc = "free" => flags \cap {"DISCONNECTING", "FREEING"} # {}

\* How many of a sequence are in a set.
Among(S, seq) == Cardinality({i \in DOMAIN seq : seq[i] \in S})

\* How many replies to a SUBSCRIBE are still to come for a key.
Subscribes(p, name) ==
    {id \in DOMAIN issued : issued[id].kind = "SUBSCRIBE" /\ About(issued[id], p, name)}
Pending(p, name) ==
    Among(Subscribes(p, name), obuf \o wire)
        + Among({m \in Range(inbox \o rbuf) : m.kind = "subscribe" /\ m.p = p /\ m.name = name},
                inbox \o rbuf)

\* Nothing about subscriptions is on its way.
Quiet ==
    /\ \A i \in DOMAIN (obuf \o wire) :
         issued[(obuf \o wire)[i]].kind \notin {"SUBSCRIBE", "UNSUBSCRIBE"}
    /\ \A i \in DOMAIN (inbox \o rbuf) :
         (inbox \o rbuf)[i].kind \notin {"subscribe", "unsubscribe"}

\* pending_subs is the number of replies to come; when none is, the context
\* has a callback for what Redis has it subscribed to, and for nothing else,
\* and knows whether it is subscribed at all (async.c:391-417, 626-648).
SubscriptionsAgree ==
    conn = "open" =>
        /\ \A p \in BOOLEAN, name \in Keys :
             LET entry == dictFind(DictOf(p), name) IN
             /\ Pending(p, name) =
                    IF entry = {} THEN 0 ELSE dictGetEntryVal(entry).pending_subs
             /\ Quiet => (entry # {} <=> <<p, name>> \in subs)
        /\ Quiet => ("SUBSCRIBED" \in flags <=> subs # {})

\* No assert fails: a reply that comes when no regular callback waits finds a
\* context that is subscribed or monitoring, and a clean disconnect leaves no
\* callback (async.c:341, 478).
NeverAborts == pc # "aborted"

\* The callback of a regular command or of MONITOR runs some time, and a
\* context that is to be disconnected or freed is freed some time, unless it
\* waits for a line of MONITOR.
CallsSettle ==
    /\ \A id \in 1..MaxCommands :
         (id \in DOMAIN issued /\ issued[id].fn /\ (Regular(id) \/ issued[id].kind = "MONITOR"))
            ~> id \in done
    /\ (flags \cap {"DISCONNECTING", "FREEING"} # {}) ~> (pc = "freed" \/ "MONITORING" \in flags)
=============================================================================
