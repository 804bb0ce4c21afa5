# A TLA+ model of telepathy-fetion

telepathy-fetion is a Telepathy connection manager for the Fetion network: a
process that Telepathy clients talk to over D-Bus, and that talks SIP-C (a
variant of SIP) to the Fetion servers. This directory holds TLA+ modules
translated from its C source, TLC configurations that check them on small
instances, and TLAPS proofs about them. `PROJECT.json` maps every definition to
the lines it models and lists the runs, the theorems and the hazards they are
aimed at. Paths below are relative to the source tree; `fetion.c`, `fx_*.c` are
in `plugin/`, `account.c`, `blist.c`, `connect.c`, `config.c`, `eventloop.c`,
`conv.c` in `lib/`.

Contents: 1 the system, 2 what is modelled, 3 the conversation engine, 4 login
and session, 5 the configuration cache, 6 the contact list, 7 the stream and the
text channels, 8 what comments say and the code does not do, 9 what is proved,
10 what is not, 11 plan.

## 1. The system

Everything runs in one GLib main loop: sockets, timers, D-Bus calls and
GTK dialogs are dispatched one at a time, and no callback is interrupted. What
is hard is therefore never a data race. It is the order of callbacks: a reply,
a pushed message, a timeout, a closed socket and the user's next click may
come in any order, most callbacks keep a pointer to something an earlier one
may have freed, and a failed step seldom undoes what the steps before it did.

| component | state it keeps | operations | talks to |
|---|---|---|---|
| conversation engine (`fx_msg.c`, `fx_trans.c`, `fetion.c`, `fx_account.c`) | per `fetion_account`: `trans_list`, `trans_wait_list`, `channel_ready`, `who`; the global `channel_list` and call id; SMS timers | send a text, StartChat / Register / Invite, User-Entered and User-Left, replies, SMS timeout, keep alive, close | the sockets, the contact list (`fetion_buddy_find_by_userid`), Telepathy channels |
| login and session (`fx_login.c`, `account.c`, `connect.c`, `connection.c`) | watches of the loop, `ac->source`, `ac->sk`, `ac->verification`, the global `verify_data`; `HybridAccount.enabled`, `connect_state`, keep alive source | Connect, the chain SSI, configuration, Register, authentication, the picture codes, errors, Disconnect, going offline | Telepathy's connection status, the configuration cache, the contact list |
| configuration cache (`fx_config.c`, `config.c`, the end of `fx_login.c`) | `account.xml`, `personal.xml`, `buddies.xml`, `blist.xml`; the XML tree in memory; the versions in memory | load at login, compare versions, save documents, flush the tree | the server's answer, the tables of buddies |
| contacts (`fx_buddy.c`, `fx_group.c`, `blist.c`, `account.c`, `roster.c`) | the contact list four times: `fetion_account.buddies` and `groups`, `HybridAccount.buddy_list` and `group_list`, the `TpHandleSet` of contacts, the XML tree | add, remove, move, rename a buddy; add, rename, remove a group; pushed presence, sync and requests to be added | requests and replies on the main connection, D-Bus calls, the cache |
| Telepathy text channels (`im-factory.c`, `im-channel.c`) and received messages (`fx_msg.c`, `conv.c`) | the table of channels by handle, the pending messages of each channel | request, incoming text, send, acknowledge, Close, Destroy, end of the connection | Telepathy, the conversation engine |
| SIP stream (`hybrid_push_cb` in `fx_login.c`, `process_pushed` in `fetion.c`, `fx_sip.c`) | `ac->buffer` | cut the received bytes into messages, dispatch each by its type | every handler of pushed messages and replies |
| account cache (`account.c`, `xmlnode.c`) | `accounts.xml`, the list of accounts | load, create, update, remove | process start-up |
| presence, aliases, avatars (`conn-*.c`) | none of their own | getters and setters | the tables of buddies |
| portraits, utilities, process shell, packaging | none that matters | HTTP fetches, string helpers, `main`, build files | |

What makes each part correct:

* conversation engine: a text is sent at most once, to the buddy it was typed
  for, in order, only on a channel that is ready; it is not held for ever; every
  reply finds the one transaction it answers; no timer outlives its transaction;
  no destroyed account can be reached;
* login: the chain of callbacks does not fork; exactly the keep alive timer
  that can be removed runs, and only while connected; what a callback reads
  without a check is there; an error ends in a closed account;
* configuration cache: a version on disk never describes another document,
  wherever the process dies; a login gets the list the server described; the
  user sees the server's list and nobody else;
* contacts: the four copies agree; nobody a list no longer has is shown; the
  online count of a group is the number of its visible buddies;
* text channels: one channel per contact, announced once; no received text is
  lost before it is acknowledged; a closed connection leaves no channel behind;
* SIP stream: the messages handled are those sent, once each and in order,
  however the bytes are cut; the buffer is not used after it was freed.

The hazards, each at the line where it bites, are in `PROJECT.json`.

## 2. What is modelled

| module | what it is |
|---|---|
| `FxChat` | the conversation engine: state, actions, `Spec` |
| `FxChatProperties` | its invariants, action properties, refinement and fairness |
| `ChatDelivery` | the abstract delivery of texts that `FxChat` implements |
| `MCFxChat` | small instances for TLC, and which constants are symmetric |
| `FxChatProofs` | proofs about the state of `FxChat`: types, lists, call ids, timers |
| `FxDeliveryProofs` | proofs about what becomes of a text in `FxChat`, and the refinement of `ChatDelivery` |
| `FxLogin` | login and session, with its properties |
| `FxLoginProofs` | proofs about `FxLogin` |
| `FxConfig` | the configuration cache, with its properties |
| `FxConfigProofs` | proofs about `FxConfig` |
| `Contacts` | the contact list in its four copies, with its properties |
| `MCContacts` | which constants of it are symmetric |
| `ContactsRestart` | `Contacts` over more than one process: the tree that blist.xml brings back |
| `ContactsProofs` | proofs about `Contacts` |
| `ImChannels` | the Telepathy text channels of a connection: their operations and invariants |
| `FxIncoming` | the received stream, `process_pushed`, texts to the client; composes with `ImChannels` |
| `Inbox` | the abstract delivery of received texts that `FxIncoming` implements |
| `FxStreamProofs`, `ImChannelsProofs`, `FxIncomingProofs` | proofs about the stream, the channels and both together |

Conventions. One action is one callback of the main loop with every call it
makes (in `FxConfig`, where the process may be killed, a callback is split at
its writes). What a server or the network delivers is a choice among all that
lead to different branches. Freed memory is not left out: an action that reads
it may set `crashed`, or go on with what the memory last held; once `crashed`
holds nothing happens any more. A definition whose comment starts with "Slip"
is not part of the model: it is a mistake one could make in the definition that
follows it, kept to show that a property notices (`PROJECT.json`, "mutants").

| run | instance | distinct states | expected |
|---|---|---|---|
| `chat_safety` | 1 buddy, 2 texts, 2 channels, call ids below 7, symmetry | 466 228 | pass |
| `chat_delivery` | 2 buddies (one unknown to the plugin), 2 texts, 1 channel, keep alive | 769 368 | pass |
| `chat_liveness` | 1 buddy, 2 texts, 1 channel, fairness | 32 556 | pass |
| `dead_channel` | 1 buddy, 1 channel | | violated |
| `login_sessions` | 2 connections, one after the other | 166 275 | pass |
| `login_error` | 1 connection | | violated |
| `config_cache` | 2 buddies, 3 versions of the list, 2 of the personal information | 2 664 310 | pass |
| `stale_blist` | 2 buddies, 2 versions of the list | | violated |
| `contacts` | 2 people, 2 groups, 2 logins, 1 request, 2 changes or pushes, symmetry | 1 805 986 | pass |
| `default_group` | the same | | violated |
| `ungrouped_renamed` | 1 person, 3 connections, 1 request, 1 change or push, restarts | | violated |
| `incoming` | 2 contacts, 4 messages, reads of up to 5 cells | 995 478 | pass |

`CHECK_DEADLOCK FALSE` stands where the system may stop: the process is gone, or
every text was typed and every call id of the bound is used.

## 3. The conversation engine: `FxChat`

A text to an offline or invisible buddy leaves on the main connection. A text to
an online buddy goes through a channel: the reply to StartChat names an
address, the `fetion_account` is cloned and put on `channel_list`, the clone
connects, registers, invites the buddy, and is ready when the server pushes
User-Entered. A text typed before that waits in the clone's `trans_wait_list`.

State: `status`, `conn`, `ready`, `who` of each account, `channel_list`;
`trans` and `wait` are `trans_list` and `trans_wait_list`; `pend` is the
transaction in the data of a pending connect; `timers` are the SMS timers;
`callid` is the global counter. `addr` and `emitted` are history variables.

| action | code |
|---|---|
| `ChatSend` (`SendOnMain`, `SendOnChannel`, `StartChat`) | `hybrid_conv_send_message`, `fx_chat_send`, `fetion_message_send`, `fetion_message_new_chat` |
| `Reply` (`StartChatGranted` / `Refused`, `Registered`, `Invited`, `SmsAnswered`, `KeepAliveAnswered`) | `process_sipc_cb` and the callback of the transaction |
| `ConnectDone`, `StaleConnect` | `process_invite_conn_cb`, `invite_connect_cb` |
| `InviteReceived`, `UserEntered`, `UserLeft` | `fetion_process_invite`, `process_enter_cb`, `process_left_cb` |
| `SmsTimeout`, `KeepAlive` | the two timers |
| `Close`, `PeerClosed`, `RecvFailed` | `hybrid_account_close` with `fx_close`; `hybrid_push_cb` |

Properties:

* `CallidUnique`: each account copies the global call id before it is
  incremented; still no two pending transactions share a number.
* `ListedIffOpen`: `channel_list` is exactly the allocated clones, once each.
* `ReadyGate`: nothing was sent before User-Entered, nothing waits after.
* `TimerMatch`: an SMS timer for exactly the pending SMS transactions.
* `OneOwner`: the text copied from transaction to transaction has one owner.
* `NoMisdelivery`: everything that carries a text names the buddy it is for.
* `FirstComeFirstSent`: what an account sent followed by what waits there only
  ever grows at its end.
* `ImplementsDelivery`: the refinement of `ChatDelivery`, where a text is typed,
  held, and then sent once to its buddy or lost. `fate` is computed from who
  owns the text: a freed account owns nothing, and `emitted` is what was sent.
* `SmsResolved` and `HeldResolved`, the liveness properties.

Bounds. Two texts are the least for an overtaking and for two StartChats in
flight; two channels the least for a clone of the same buddy beside another;
two buddies the least for a misdelivery. A
text that opens a channel uses four call ids (StartChat, Register, Invite, the
text), a text on the main connection or on a channel that is there uses one.
With call ids below 9 (`chat_liveness`) both texts can open a channel and get
to the wire; below 7 (`chat_safety`) one opens a channel and both are sent on
it, or both open one and get as far as Register or Invite; below 5
(`chat_delivery`) one opens a channel to one buddy, and other mixtures of texts,
refusals and keep alive rounds compete with it. `KeepAliveBelow` keeps the
rounds from using the numbers up. Each text is typed once;
retyping is a new text.

Fairness, in `chat_liveness` only. `TimerFairness`: GLib dispatches a timer
that is due. `ServerFairness`: what a client has to assume of the server and
TCP, namely that on a connection that lives every request but a text is
answered, that a connect ends, and that User-Entered comes. Nothing is assumed
about SMS replies: for them the code has its timer, and `SmsResolved` shows that
the timer is enough, whatever happens to the channel. `HeldResolved` excepts
texts whose account has no working connection any more: there the code does
nothing, and that is what `dead_channel` is about.

Abstractions. The result of `send()` is a choice where the code branches on it.
Addresses, credentials and bodies are left out; an answer that lacks them is a
branch of its own.

## 4. Login and session: `FxLogin`

Each Telepathy connection makes a `fetion_account` of its own, here a session;
all share one `HybridAccount` and the global `verify_data`. A session is a
record: the watches the loop dispatches for it (`armed`), the one whose id
`ac->source` holds (`source`), whose socket `ac->sk` is, whether the
authentication is asked for, the state of `ac->verification` and of the dialog.
An action `Dispatch`es one watch; what follows is one of several outcomes, each
with the changed record and the number of times the error is reported.

What makes it hard is that `hybrid_account_close` removes only the watch that
`source` names. The rest of the chain of a closed session goes on, may be
accepted, and then acts on the connection requested last. `login_sessions` runs
two connections, which is the least for one session to act on another's, and
still `OneKeepAlive`, `OneStep` and `VerificationPresent` hold. Three sessions
would add nothing new: a callback knows its own session, the session started
last and the connection requested last, and the theorems hold for any number.

The model assumes that a client requests a connection when the one before is
disconnected, as Telepathy's account manager does (`NewConnection`).

Left out: what is in `ac->buffer`, beyond the branch it selects; the text of
the picture's answer; which of two push watches of one session a byte reaches,
when that session logged in twice; `SSL_CTX_new` without memory.

## 5. The configuration cache: `FxConfig`

The server numbers the versions of the personal information and of the contact
list. The client sends the numbers `account.xml` holds, and the answer names the
current ones and carries what the client does not have. `parse_sipc_resp` then
reads its own copy where the numbers agree, saves the received document where
they do not, and writes `account.xml` last. The buddies shown come from a second
copy, the XML tree of which `blist.xml` is written at every twentieth flush:
`hybrid_account_clear_buddy` empties the tree when a new list arrives, and
`load_blist_from_disk` shows what it holds when none does.

State: `lists` is every version of the list the server had, `profile` the
version of the personal information; `account_xml`, `file`, `blist_xml` are the
disk; `version`, `reply`, `buddies` the login; `cache` and `buddy_list` the tree
and the table. A file that cannot be parsed is version 0. `failed` and
`downloaded` are history variables.

The callback is split at its writes, since the process may be killed between or
inside them (`KilledInSave`, `KilledInSaveAccount`, `Exit`); only the server
moves in between. Saves fail or are cut short, and the code does not look.
Which flush is the twentieth depends on pushes and avatars, so `Flush` is a
choice over what the tree held at the calls.

* `VersionNamesCopy`: wherever the process dies, if `account.xml` names the
  server's version, the copy is complete and of that version, unless the last
  save of the copy itself failed.
* `ListOfTheAnswer`: a login ends with the list of its answer.
* `ExactOnceDownloaded`: a process that downloaded a list shows exactly the
  server's buddies at that and each later login, also after changes made
  elsewhere and after its own additions, for which it keeps the old version.

Three versions let a copy be current, behind, and behind a list it had skipped;
two buddies let a list lose one and gain another.

Left out: groups (every buddy has one that exists), the custom configuration
and the server addresses (in `account.xml` beside their own versions), and two
logins at a time, which `FxLogin` explores.

## 6. The contact list: `Contacts`

The process keeps the contact list four times: `ac->buddies` is the protocol's,
`buddy_list` and `group_list` those of `HybridAccount`, `contacts` the set of
Telepathy handles, and `tree` the account's part of the XML tree from which the
next login starts. A call of the client changes none of them: it sends a request,
and the answer or a push changes them. Removing, moving and renaming change
nothing even when they are answered: the change shows at the next login, because
the server's list then has another version.

| action | code |
|---|---|
| `Login` | `get_contact_list`, `hybrid_account_set_connection_status` with `load_blist_from_disk`, `fetion_groups_init`, `fetion_buddies_init` |
| `Handle` (`HandlePresence`, `HandleSync`, `HandleApplication`, `HandleAdded`, `HandleInfo`) | `process_pushed` and the handlers it gives these messages to |
| `User` (`SetContactGroups` ... `RequestAliases`) | the methods of `roster.c`, `conn-aliasing.c`, `conn-presence.c` |
| `Disconnect`, `SetOffline` | `hybrid_account_close` with `fx_close` |
| `Server` | external: the list on the server, its answers and pushes, other clients |

Properties: `KnownShown`, `ContactsResolve`, `TreeMatches` relate the copies;
`StatesAgree` and `OnlineNamed` say that presence reaches both entries of a
buddy, in every order of presences and answers and when a buddy is added again;
`CountsMatch` that the counts of a group, which the code only ever adjusts, stay
those of its buddies; `AuthorizedSettled` that a buddy is authorized if and only
if that is the last thing the server said; `DefaultProtected` that no client
removes or renames the group "0" in any session of a process; `ExactAtLogin` that a login shows the server's
list, be it from the tree or from the answer.

The environment. Everything comes over one connection, in the order written, so
`inbox` is a queue. The server answers a request once or never, does not add
somebody who is listed already, and tells of a relation that changes. `Listed`,
`Grant`, `Refuse` are written from the requests the code forms and the answers
its parsers accept.

Bounds. Two logins are the least for the tree of one to matter to the next; two
people the least for a list to lose one and gain another; one request and two
server steps put an answer among two pushes about the same buddy, or a change by
another client before and after a login. The theorems of section 9 hold without
these bounds.

`DefaultProtected` does not hold by a guard. Every group that is made is
renamable (`blist.c:68`), and so is every group of a loaded tree, whatever its
node says: adding it writes "renamable" into the node before the node is read
(`blist.c:679-685`, `account.c:1082-1093`). Only afterwards does
`fetion_groups_init` protect group "0", if the list of this login has it
(`Renamable`). What the property needs is that a tree never has that group at a
login whose list has not. Within one process this is so: only a change on the
server takes the last ungrouped buddy out of the list, and a changed list empties
the tree first. `ContactsRestart` adds blist.xml and the end of a process to the
same actions: the tree of the next process is the one of some earlier flush,
while the versions are those of the last login, and the property fails (section
8, `ungrouped_renamed`). Three connections are the least for it: one whose close
writes the tree, one that learns of the new list, one that starts with the old
tree.

Left out: failed and torn saves (`FxConfig` has those), several groups for one buddy,
moods and mobile numbers, a failing `send()`, and several accounts.

## 7. The stream and the text channels: `FxIncoming`, `ImChannels`

`hybrid_push_cb` appends what one `recv()` returned to `ac->buffer`, and takes
complete messages off its front until there is none (`goto recheck`). A message
is complete when the blank line that ends its headers is there and, if they have
an L header, the body it announces. `process_pushed` gives it to a handler, and
handlers do more than read it: an authentication that fails frees `ac->buffer`,
and a deregistration closes the account and its socket, while the loop goes on
with what it had read. A pushed text is answered 200 OK, its sender looked up by
sid among `ac->buddies`, and given to the Telepathy channel of the sender, made
when there is none.

The wire is a sequence of cells: one of headers, one for the blank line, and one
or two of body (`Cells`), each marked with the message it belongs to. Every
place where the code branches on what has arrived is between two cells: no
headers, headers without the blank line, part of the body, all of it, and the
same of the messages behind. What the code reads out of a message, it reads from
the front of the buffer, as the model does (`BodyLength`): were the buffer cut in
the wrong place, `handled` would say so.

| action | code |
|---|---|
| `Recv` | `recv()` and appending; `sipmsg[n] = 0` one past the end when it is full |
| `HandleMessage` | one turn of the loop: `process_pushed` with one of its handlers, and the move |
| `PushReturns` | no complete message: the callback returns |
| `PushFails`, `PushEnds` | `recv()` is -1, is 0 |
| `AuthAccepted`, `AuthFails`, `ChallengeUnreadable`, `CodeEntered` | `sipc_auth_cb`, `pic_code_ok_cb` |
| `BuddyAdded`, `InfoReceived`, `Presence`, `AddContact` | where buddies, and their sid, come from |
| `TextShown`, `TextDropped`, `AckFails` | `fetion_process_message`, `hybrid_conv_got_message` |
| `Deregistered`, `SetOffline`, `Disconnect` | the ways the account is closed |
| `Request`, `Receive`, `Close`, `Destroy`, `CloseAll` of `ImChannels` | `FetionImFactory` and `FetionImChannel` |
| `ServerWrites`, `Acknowledge` | external: the server, the message mixin of telepathy-glib |

Properties:

* `HandledInOrder`: `process_pushed` gets the messages the server wrote, whole
  and in order, however they are cut and whatever handlers do in between.
* `NothingWaits`: no complete message is left in the buffer between two reads,
  where it would wait for the next message the server happens to send.
* `AckedIffShown`: a text on a channel has been acknowledged, and one that was
  acknowledged is on its channel unless its sender was not in the list of the
  login. The exception is in the code: a buddy just added has no sid until the
  answer to GetContactInfo, and a text from it is acknowledged and dropped.
* `AnnouncedIffListed`, `TextsKept`: what the client knows of the channels is
  what the factory has, and a text stays on its channel until it is
  acknowledged, also when the channel is closed while it waits.
* `EverythingHandled`: every message is handled in the end, unless the session
  ends first. As the server writes at most `MaxMessages`, "again and again all
  that was written is handled" says this of every message.
* `ImplementsInbox`: the refinement of `Inbox`, where the texts of a contact
  arrive in order, each at most once, and are unread until acknowledged. A text
  is the number of its message; the texts on their way are those of the messages
  not handled, the unread ones those pending on a channel.

The environment. The server says nothing but its answers before it accepts the
authentication, nothing between a challenge and the code, and may push messages
nobody handles after a refusal; without the first, a text could come before the
list, and without the second it could meet a buffer being freed. It deregisters
a session at most once. A request is answered at most once at a time.

Fairness. `WF` of `Push` (`Recv`, `HandleMessage`, `PushReturns`): GLib polls
the socket as long as it can be read and dispatches the watch, and the loop of a
callback that runs goes on. Nothing is assumed of the server or the client.

Bounds. Five cells in one read are the least for a deregistration (3 cells) with
the headers of a text behind it, or a whole message with part of another. Four
messages: the authentication, and three of an answer with a sid, a text, a
second text, a deregistration. Two contacts: one in the list and one added
later, and texts of both in any order.

## 8. What comments say, and the code does not do

* `dead_channel`: `fx_chat_send` (`fetion.c:694-696`) is to send through a channel
  that "has been established". It takes any listed clone, also one whose connect
  failed, and the text waits for ever.
* `login_error`: `account.h:289` has `hybrid_account_error_reason` close the
  account. The call is commented out, and when Connect itself fails nobody else
  closes it.
* `stale_blist`: `config.h:82-83` has a flush synchronize the file. It does at
  every twentieth call, so a restart may bring back removed buddies.
* `default_group`: `roster.c:104` assumes that an account always has the default
  group. `get_contact_list` makes it only when some buddy is in no group; without
  it three methods of `roster.c` fail an assertion, and a pushed request to be
  added uses NULL.
* `ungrouped_renamed`: `fx_group.c:266` says that the group "Ungrouped" can't be
  renamed. That is so only where `ac->groups` has it. A process that starts with
  a blist.xml from before the last ungrouped buddy went, and is told that the
  list has not changed since the last login, shows the group from the tree, as
  one that can be renamed, and sends the request.

Seen without a run of its own: `fx_account.c:37-39` has `channel_list` destroyed
when the account is closed. `fx_close` leaves it as it is (`Close` of `FxChat`
does not change it), and the clones of the closed login go on with a pointer to
freed buddies (`DanglingBuddies`); `ListedIffOpen` covers these states too.

## 9. What is proved

For every value of the constants that the assumptions allow
(`ConstantAssumption`: the main account and "nobody" are not channels, buddies or
texts; `SessionAssumption` and `VersionAssumption`: bounds are positive;
`SizeAssumption`: a read takes at least one cell; `SelfAssumption`: the user is
none of the contacts; `NullAssumption`: NULL is no table of channels;
`UsersAssumption`, `GroupAssumption`, `BoundAssumption`: people are finitely
many, so that they can be counted, group "0" is a group, bounds are numbers):

| theorem | statement |
|---|---|
| `FxChatProofs!TypeCorrect` | `Spec => []TypeOK` |
| `FxChatProofs!ListCorrect` | `Spec => []ListedIffOpen` |
| `FxChatProofs!CallidsUnique` | `Spec => []CallidUnique` |
| `FxChatProofs!GateCorrect` | `Spec => []ReadyGate` |
| `FxChatProofs!TimersMatch` | `Spec => []TimerMatch` |
| `FxDeliveryProofs!LineIsKept` | `Spec => FirstComeFirstSent` |
| `FxDeliveryProofs!OwnerIsUnique` | `Spec => []OneOwner` |
| `FxDeliveryProofs!ReachesItsBuddy` | `Spec => []NoMisdelivery` |
| `FxDeliveryProofs!DeliveryRefined` | `Spec => ImplementsDelivery` |
| `FxLoginProofs!TypeCorrect` | `Spec => []TypeOK` |
| `FxLoginProofs!KeepAliveSafe` | `Spec => []OneKeepAlive` |
| `FxLoginProofs!ChainNeverForks` | `Spec => []OneStep` |
| `FxLoginProofs!VerificationThere` | `Spec => []VerificationPresent` |
| `FxConfigProofs!TypeCorrect` | `Spec => []TypeOK` |
| `FxConfigProofs!CopiesCorrect` | `Spec => []VersionNamesCopy` |
| `FxConfigProofs!AnswerKept` | `Spec => []ListOfTheAnswer` |
| `FxConfigProofs!ShownCorrect` | `Spec => ExactOnceDownloaded` |
| `ContactsProofs!TypeCorrect` | `Spec => []TypeOK` |
| `ContactsProofs!ListsAgree` | `Spec => []KnownShown` |
| `ContactsProofs!HandlesResolve` | `Spec => []ContactsResolve` |
| `ContactsProofs!CountsCount` | `Spec => []CountsMatch` |
| `ContactsProofs!SameState` | `Spec => []StatesAgree` |
| `ContactsProofs!NameIsShown` | `Spec => []OnlineNamed` |
| `ContactsProofs!TreeSaysShown` | `Spec => []TreeMatches` |
| `ContactsProofs!UngroupedIsKept` | `Spec => []DefaultProtected` |
| `ContactsProofs!LoginShowsList` | `Spec => ExactAtLogin` |
| `ContactsProofs!AuthorizedIsTold` | `Spec => []AuthorizedSettled` |
| `FxIncomingProofs!TypeCorrect` | `Spec => []TypeOK` |
| `FxIncomingProofs!CutAtMessages` | `Spec => []HandledInOrder` |
| `FxIncomingProofs!BufferEmptied` | `Spec => []NothingWaits` |
| `FxIncomingProofs!AcknowledgedShown` | `Spec => []AckedIffShown` |
| `FxIncomingProofs!ChannelsKnown` | `Spec => []AnnouncedIffListed` |
| `FxIncomingProofs!NoTextLost` | `Spec => []TextsKept` |
| `FxIncomingProofs!InboxRefined` | `Spec => ImplementsInbox` |
| `FxIncomingProofs!ShownInOrder` | `Spec => []UnreadInOrder` |

The arguments:

* `FxChat`. `TypeOK` is inductive: the helpers (`Request`, `Hold`, `Emit`,
  `ProxyConnect` ...) are shown to keep the types they touch, once each, and the
  actions cite them. `ListedIffOpen` is inductive together with `TypeOK`; the
  one delicate step is `Unlist`, whose sequence without one entry is treated in
  a lemma. `CallidUnique` alone is not inductive: the Register of a pending
  connect is recorded once per carried transaction, so one must know that it
  carries at most one (`CarriesOne`). Every step is then shown to be `Numbered`:
  what it adds has numbers from the counter on, each once. `ReadyGate` is
  inductive. `TimerMatch` rests on `CallidUnique`: the timer that a reply stops
  must be that of the transaction it answers and of no other.
* What becomes of a text (`FxDeliveryProofs`). `OneOwner` and `NoMisdelivery`
  speak of four lists of every account, and a text is copied from one to another
  in eight actions. So the proofs keep books: an entry is a text, its buddy and
  its place (which list, and where in it), `HeldIn(a)` are the entries of what
  `a` still has to send and `SentIn(a)` of what it handed to `send()`. The
  invariant `BookInv` says that a text has one entry (`Singly`), that the entry
  names the buddy the text was typed for and that a channel has entries for its
  own buddy only (`Directed`), and that the memory of a new clone has no entries
  and only an allocated one waits for its socket (`Fresh`). Neither of
  `OneOwner` and `NoMisdelivery` is inductive alone: a connect that ends moves
  what is pending to a channel, whose buddy must be known to be that of the
  text, and a channel that is granted starts from empty lists only because of
  `Fresh`. `StepKinds` then shows that every action is one of four kinds of
  steps on the books: a text is typed (`Typed`); some entries of one open
  account, all for one buddy, are kept in another place, sent or dropped
  (`Moved`); the text of a StartChat goes to the new channel or is dropped
  (`Granted`); nothing changes but a channel may be opened or freed (`Steady`).
  That a carrying transaction is one entry needs `CallidUnique`, that an
  allocated clone is not allocated again `ListedIffOpen`. The acknowledgement of
  a text is awaited by a transaction that has no entry; `SmsSent`, proved apart,
  says that its text was sent. `FirstComeFirstSent` needs `ReadyGate` only: a
  text goes to the end of what was sent while nothing waits, to the end of what
  waits, or all that waits goes behind what was sent.
* `ImplementsDelivery`. The initial states map to the initial state, and under
  `BookInv` each kind of step maps to a step of `ChatDelivery`: `Typed` to
  `Type`; `Moved` to `Send` when the entries are sent; every other step leaves
  what was sent and makes no text held that was not, and is then `Lose` for the
  texts that are held no more, or a stutter (`QuietRefines`). That a held text
  was not sent before is `Singly`; that it goes where `to` says is `Directed`.
* `FxLogin`. The two properties of a session are made one predicate `Good` of
  its record, kept by each way a record is changed, so that each action is a
  step on one record. The invariant adds `EnabledHasData` (an enabled account
  has a session for `fx_close`) and `Unstarted` (a session not started has an
  untouched record, which is why Connect finds nothing pending).
* `FxConfig`. `Inv` adds `Progress`, which says in each phase of the callback
  what is known of version, copy and answer (`Pending` before a document was
  dealt with, `Done` after), and `Tree`: once a list was downloaded, the tree
  holds nobody but buddies of the list that equal versions would make the next
  login read. `ExactOnceDownloaded`, an action property, follows from `Inv`
  at the one step that shows the list.
* `Contacts`. `IInv` has the four copies agree (`TablesInv`), says that nothing
  of them but handles and tree is left when the account is closed (`Idle`), and
  what the tree is worth at the next login (`TreeInv`): unless the server's list
  has changed since, it has exactly the buddies of that list in their groups.
  This holds through a session since whatever adds a buddy changes the list on
  the server first (an answer on its way implies `changed`). Under the same
  condition the tree has group "0" only if somebody in the list is in it; this is
  what `DefaultProtected` rests on, since a group "0" that came with the tree
  alone would be renamable (lemma `UngroupedIsListed`). Each thing the
  handlers do to the tables (`SetStatus`, `AddBuddy`, `SetStateAndName`) is
  shown to keep the tables once. `AuthorizedSettled` speaks of an empty inbox
  only; `TellInv` says instead that the last unread message about somebody, or
  else what is shown of him, is what the server told last. A handler may only
  fail to follow an answer about a group that was not there at the login, and
  such a group never goes from the server's list before the next login, since
  only groups that are here are asked to be removed (`Backed`).
* `FxIncoming`. `HandledInOrder` is not inductive: what the loop will hand out
  next depends on the cells still in the buffer and on the wire. `Fits` says of
  them that there are positions, one for each message not yet handled, the first
  at the front of the buffer, at which the cells of these messages lie one
  behind the other, as far as they go; while the watch is there they go to the
  end of the last. `FxStreamProofs` shows of plain sequences how appending a
  message, and taking the first one, move these positions; the blank line found
  first is then that of the first message (the others lie behind it), so that
  `MessageEnd` is its end. `AuthInv` says that the one answer on its way finds
  its request, that nothing follows a challenge until the code is entered, and
  that a deregistration follows an acceptance; this is why a freed buffer had
  nothing more in it unless the process crashed. `ListInv` says that the buddies
  of the login's list keep their sid while the session is open, from which
  `AckedIffShown` follows at each text. `ChannelInv` is inductive for each
  operation of `ImChannels` alone (`ImChannelsProofs`), and every action of
  `FxIncoming` is one of these operations or leaves the channels alone.
* `ImplementsInbox`. `HandleFacts` (from `Fits`) says that the message the loop
  takes is the first one not handled; if it is a text it is therefore the oldest
  of its sender on the way, and `Arrive` of `Inbox` is what `TextShown` or, when
  it is lost, `TextDropped` and `AckFails` do. What the server writes has a
  higher number than all before; what the client does is an `Acknowledge` or
  `Drop` of one contact, the end of the connection is `End`, and all else is a
  stutter. `ShownInOrder` then looks at the steps of `Inbox` alone: what waits
  on a channel is in the order of the wire, since it is older than what is still
  on its way (`Older`).

## 10. Only model-checked, and not modelled

Only model-checked: liveness under fairness (`SmsResolved`, `HeldResolved`,
`EverythingHandled`), which is out of the prover's reach. Every invariant,
action property and refinement that a passing run checks is also proved.
The refutations of section 8 are runs only; `ContactsRestart`, which
exists for one of them, has no theorem.

Not modelled, for good: string, XML, SSL and HTTP plumbing; avatars and
portraits, on which nothing else depends; `accounts.xml`, whose contents the
parameters of a connection replace; logging; packaging. Of the modelled parts:
calls nobody makes (the text to oneself, SMS settings, the `message-received`
signal); the answer to D-Bus calls, which some early returns of `roster.c` never
give; and what happens after memory that was freed has been used, beyond that it
may crash.

## 11. Plan

Done: `FxChat` with `ChatDelivery`, `FxLogin`, `FxConfig`, `Contacts`,
`ImChannels` with `FxIncoming` and `Inbox`, and the theorems above.

Left, in this order:

1. `FxLogin` and `FxConfig` have no abstract specification yet: the status of
   a connection as a Telepathy client sees it, and the cache as an atomic pair
   of version and document, would each be one to refine, and to prove.
2. Several groups for one buddy, which `Contacts` would need to follow
   `fetion_buddies_init` through its list of numbers.
3. The parts of `account.xml` with versions of their own (custom configuration,
   server addresses) in `FxConfig`.
