# TLA+ project for hannah-webui

hannah-webui is the browser front end of the voice assistant Hannah: a Flask
application under gunicorn that keeps almost nothing itself. What it shows and
changes lives in Hannah Core, reached over gRPC. The state it does have sits in
places that are easy to get wrong: a signed cookie that travels with every request, forms
that were rendered some time ago, URLs the browser may re-enter, files written at
the first start. The modules here model that state, together with the
overlapping requests, failing RPCs, retries, crashes and restarts it meets, check it with
TLC on small instances, and prove the main results with TLAPS for all instances.

Paths are relative to the repository (`src/` = its root). `PROJECT.json` maps
every definition to the lines it models.

## Inventory

| component | state | operations | interacts with | hard part | what makes it correct |
|---|---|---|---|---|---|
| Login session: `blueprints/auth.py`, `extensions.py`, `app.py`, `wsgi.py` | the cookie (`user_id`, `display_name`, `trust_level`, flash messages, `entra_flow`), the secret of each worker | login, logout, `login_required`, `trust_level_required`, every page (flash messages) | browser, two gunicorn workers, Core | requests of several tabs overlap, the answer replaces the cookie as a whole, workers restart | one identity per cookie; gates serve only trust Core gave; a logout stays one; only logging in or out changes who is logged in |
| Entra linking: `me.entra_login`, `me.entra_callback` | `entra_flow` in the cookie | start, redeem, link | identity provider, Core | the session may have changed hands before the callback | the account is linked to the user who started |
| User records: `users.edit_user`, `me.update_my_password`, `users.delete_user` | none; forms and records just read | read, fill in, three RPCs | Core | read-modify-write without version; half-applied saves; ignored results | a save without warning is whole but for what Core silently refused; nothing is undone but by overlap |
| Presence sources: `users.presence_sources`, `_parse_presence_source_rows`, the page's script | the form in the browser | choose, enter, tick, remove, save row by row | Core | lists put together by position; partial failure; retry; ignored results | every row is stored as shown; a row only reaches its own source |
| TLS certificate: `tls.py`, `config.py`, `gunicorn.conf.py` | two files | generate if missing, load | systemd | crash between two writes | a trusted certificate stays; own files stay |
| Activity log: `blueprints/activity_log.py`, its template | cursors in the URL | older, previous, first, revisit | Core's log, which grows and shrinks | links are stale when clicked | nothing skipped; the way back is exact |
| Triggers: `blueprints/triggers.py`, `route_helpers.py`, `trigger_edit.html` | the form | rows to parallel lists and back | Core | entries left out of one list, values wandering between inputs, parts no input stands for | what is shown is what is stored |
| Log bundle: `blueprints/logs.py`, `log_collector.py`, its modal | the modal, one channel per request | open, tick, download; list sources, stream a bundle | log collector, gunicorn | overlapping loads, streams that break or hang, lost session | channels are closed; only whole archives are saved; the button comes back |
| Chat and account links: `blueprints/chat.py`, `blueprints/me.py`, `users.py` (residents) | token in localStorage | authorise, link, unlink | Core, Telegram | results nobody looks at, a second token | what a page announces is so, unless Core's refusal was ignored |
| Alarms, satellites: `blueprints/me.py`, `satellites.py` | none; a page just read | set, delete; read, negate, write back | Core | two clicks, a click repeated after an error | a click without a warning holds; nothing else is changed |
| Groups, cars, BLE tags, settings: their blueprints | none; a form | create, save (groups: two RPCs), delete | Core | forms that cannot show everything, blank and ragged inputs, half-saved groups, ignored results | the same; only what fits is stored |
| gRPC client: `grpc_client.py` | channel, connectivity | one RPC per method; reset the stub | Core of either generation | no deadline: Core may hold every worker | every click is answered all the same |
| Messages: `blueprints/messages.py` | none | send, reply, delete | Core | - | - |
| Rooms, devices, version, log shipping, static files, deployment | none | display, configuration | - | - | - |

Handlers of one request run to the end in one worker; two requests interleave
only through the browser's cookie jar and through Core. So an action of a module is
either a whole handler (WebSession: its only shared state is the cookie it was
sent and the one it sends back) or one RPC of a handler (UserAdmin, PresenceSources,
RecordForms: other requests run between two RPCs) or, in LogBundle, one step of a stream.

## Modules

**WebSession** (`MCWebSession` for TLC, `WebSessionProofs`). `jar` is the
browser's cookie, `slot[s]` a request with the cookie it carried, then its answer
with the cookie it sets, if the handler modified the session. One action per handler:
`Login`, `Logout`, `EntraLogin`, `EntraCallback`, `AdminView` (a view under both
decorators) and `View` (all the others; they touch the session through
flash messages alone). `Deliver` overwrites the jar, `Lose` drops request or answer,
`RestartWorker` voids what a random secret signed. A login has a number, a ghost in the cookie,
so that the properties can speak of *the* login an identity came from. The
flash messages themselves are left out: whether some are queued is a nondeterministic
choice each time a page is rendered, and decides whether the answer sets the cookie. A worker that cannot
read the cookie sees an empty session, with no message to show, so its redirect to the login page sets no cookie.

**UserAdmin** (`MCUserAdmin`, `UserAdminProofs`). One user's record in
Core and the requests that write it: the edit form opened, submitted, the user
looked up (`Find`), `Update`, `SetTrustLevel`, `SetSystemMessages`, each its own
step; the password form with `Find` and `Update`. Every RPC may be
refused, fail unapplied, or fail after having been applied; the error page lets
the form be sent again. A refusal of `set_trust_level` or `set_system_messages` is not looked at
(`users.py:72-73`): the handler goes on, and the save ends without a message. Three history fields per request,
`asked` (fields its author changed), `foreign` (fields others changed since they were read) and
`refused` (fields Core silently refused), carry the properties.

**PresenceSources** (`PresenceSourcesProofs`). The form as a sequence of rows, the four edits of the page's
script and inputs, `Parsed` (position by position, checkboxes by the number given at
rendering) and `Used` (the rows that are not skipped), then one step per used row in their order:
`RowDone`, `RowRefused`, `RowFailed`. After a refusal the save goes on with the next row. A refused update or creation leaves a message (`warned`),
a refused deletion none (`users.py:120`); the history variable `kept` holds the ids of the latter. While the rows are carried out nobody edits the form they were sent
from, so the rows still to do are kept as positions. A hidden row equals one emptied by hand, so hiding needs no state.

**TlsCert** (`TlsCertProofs`). The steps of a start: exists check, key opened (truncated), key
written, certificate opened, certificate written, loaded; a crash between any
two. A file holds nothing, a torn content, or half of a numbered pair.

**ActivityPaging** and **PageStack** (`ActivityPagingProofs`). The page on
the screen, its URL, Core's log with entries coming and going. `PageStack` is what
the breadcrumb in the URL promises, a stack of cursors; `ActivityPaging` implements
it with the list in the URL plus the current cursor as the stack and the browser's
history as the set of stacks visited.

**TriggerForm** (`MCTriggerForm`, `TriggerFormProofs`). One trigger in Core and the form it is edited in: four
blocks of rows, each row with its device list or free text and four value inputs of
which one is enabled. `Switch` is what the page's script does when a device or the
mode changes; `SentStates`, `SentCmps`, `SentValues` are the lists the browser sends
(without what is disabled or not selected), `Parse` puts them together by position,
`Attached` and `AlsoOf`/`UnlessOf` are the two directions of the shared blocks.
`Accepted`, `Refused`, `Failed`, `BadRules`, `EmptySlug` are the ways out of
`create_trigger` and `save_trigger`. Whether an input is shown does not matter, since
hidden inputs are sent; so only the enabled one is modelled. `Kept` is the list of the rows at
some positions, its k-th entry the position with k chosen ones up to it (`Nth`): the
library's recursive selection is the same list, but nothing can be proved about it without
induction. The `cooldown` input can be emptied, which stands for an hour (0 stays 0: the
text `"0"` is not empty). `Unshown` are the parts without an input, `say` and `cancel_when`: a trigger made elsewhere may have them, and
`Sent` has none, as the code passes `""` and `None` (`triggers.py:98-99`, `170-171`). `TriggersAssumption` types the triggers others make: conditions an engine can use, with an
operator only where `also` is not empty, as `_extract_also_unless` reads them.

**LogBundle** (`LogBundleProofs`). The modal (list of boxes, error, disabled button) and the requests it
makes; each request is taken up by a worker, passes the gates, opens its channel, and
ends by an answer, an error, a break or the worker's timeout. An answer of an older load is
handled like that of a newer one, as the script does.

**RecordRequests** and **RecordForms** (`MCRecordForms`, `RecordFormsProofs`). The forms and buttons
that change one record of Core: an alarm, a satellite, a group, a car, a BLE tag, a
setting, or the accounts linked to one user; `kind` says which, `record` is its content
point by point, where a point is what some handler writes or treats apart. RecordRequests
has what all requests share. `OpenPage` reads the record, `Shown` says what the page can
show of it (an owner only if active, a setting in a typed editor or as raw JSON),
`Click` posts any form or button of the page with any input it allows: no room, no owner, no satellites, an emptied or
raggedly typed text, blank or repeated entries of a setting (`Choices`). `Sent` is what the handler makes of them, `Tidied`
unless the raw editor was used, and `Fits` what may end up in the record. `Accepts` gives the longest
waiting request to a free worker, and an RPC `Reads`, `Sets` or `Deletes`: applied or
refused by Core, answered or failed. `Refused` tells the handlers that look at the result (a
message, `warned`) from those that ignore it; either way it is recorded (`refused`). `Resubmit` sends the same form again after
the error page. RecordForms has one operator per RPC wrapper of `grpc_client.py`, with what it
carries, and one per handler, with the RPCs it makes in their order; then the surroundings: gunicorn kills a
worker (`KillWorker`), something else changes the record (`ChangedElsewhere`) or who is
active (`UserActivation`). A behaviour follows one record, since requests about different records share
nothing but the workers. Five history fields per request carry the properties: `asked` (what
the click was to change), `foreign` (what others changed since), `blurred` (what the
page could not show), `refused`, and `slipped` (an earlier attempt took effect although it failed).

## Runs

| run | instance | distinct states | what it shows |
|---|---|---|---|
| `web_session` | 2 users, 2 tabs, 2 workers, 1 flow, 2 trust levels, 2 logins | 1.05 million | identities, gates, links, logouts, logins kept by the other worker |
| `user_admin` | 2 requests, 2 values per field, a form changes at most 2 fields | 4.8 million | silent saves are whole but for silent refusals, undone only by overlap |
| `tls_cert` | both paths own or both default, 4 crashes, 2 restarts | 486 | the certificate survives, starts end |
| `tls_mixed` | one path configured | - | violated: an own file is overwritten |
| `activity_paging` | 2 users, 5 entries, pages of 2, 4 URLs | 0.77 million | nothing skipped, end is end, stack of pages |
| `presence_sources` | 2 stored, 2 blank rows, 3 edits, 2 sendings | 8.6 million | rows stored as shown where they stayed, but for refused deletions |
| `presence_shift` | 1 stored, 2 blank rows | - | violated: a shifted row loses its tick |
| `trigger_form` | 3 triggers, 3 devices, 2 changes | 0.37 million | rows stored as shown, nothing lost, untouched saves keep what is shown |
| `trigger_shift` | two thresholds, 2 changes | - | violated: a comparison or value of the next row |
| `log_bundle` | 2 loads, 2 downloads, 2 workers, 2 chunks | 1.37 million | channels closed, no broken archive, ticks kept, one download at a time, button returns |
| `log_bundle_page` | the same | - | violated: a page saved as the archive |
| `record_forms` | 7 kinds of record, 2 pages or requests, 1 worker, 1 user, 2 contents, 3 tokens, 1 change elsewhere | 1.56 million | clicks hold, no side effects, only what fits is stored, every click answered |

Why the bounds are enough. Two tabs give every overlap of two answers, two logins
every exchange of identities, and the hazards concern pairs. `OneLoginWithoutSecret` limits the
random secrets to one login, since their only effect is to empty a cookie. Two flows or more,
any number of logins and any mix of secrets are covered by the proofs. In `user_admin` a change of two fields already separates
a field the form asked for from one it only carried (`FewChanges`); the proofs
need no such bound. Pages of two among five entries give three
pages, the last of them partial, and entries between and around the cursors. Three
edits suffice to remove one row, fill and untick another; four crashes cover every
pair of steps twice. In `trigger_form` a disagreement needs one change that makes
a row leave something out and one that moves it or its neighbours; the triggers
differ in what the form can and cannot show, and one blank row in `when` and `then` stands
for the two the page renders. Three requests at most are under way
in `log_bundle`, more than there are workers; with three loads and one
download the run passes as well (4 million states). In `record_forms` one worker for two
requests is the smallest pool in which a request waits, and two pages are a click and
what crosses it; with one more change elsewhere in between, each page can be opened, clicked,
overtaken, refused, failed and repeated. One user is active, inactive or no owner; two contents and a ragged one
tell asked from stored; three tokens let both requests draw a new one and one draw again. A group has
a name at the start, because every way to make one (here and in Core) asks for one; a satellite comes without.
An RPC takes effect before its request ends or fails; a request
that a hung Core applies long after the worker was killed is not modelled. Every run but those of
`TriggerForm` turns the deadlock check off, because all bounds are in the guards and a
bounded instance simply ends; another user's change is always possible in `TriggerForm`.

Fairness is assumed in three runs. `tls_cert`: weak fairness of the start's own steps,
which systemd provides (`Restart=on-failure`, `RestartSec=5s` in
`deploy/hannah-webui.service`) and the operating system for a running process.
Crashes and stops are bounded, not fair.
`log_bundle`: weak fairness of handlers starting when a worker is free, of the browser
going on with an answer, and of the master killing a worker after `timeout`
(`gunicorn.conf.py:8`); none of the collector, whose stream has no deadline. Without the kill
`ButtonReturns` would not hold.
`record_forms`: weak fairness of a posted request being accepted when it is first in the
queue and a worker is free (the listening socket's queue is served in order,
`waiting`), and of `KillWorker` (`timeout = 60`, `gunicorn.conf.py:8`). Nothing is assumed of Core: an
RPC has no deadline and may wait for ever. Without the kill `EveryClickAnswered` fails, which is its mutant.

What `ClicksHold` excepts is what the code does. Seven handlers (`Ignoring`) do not look at Core's answer: `create_group`,
`save_group`, `telegram_unlink`, `entra_unlink`, `link_resident`, `unlink_resident`, `chat_authorize`; the property names
them, so a refusal that any other handler swallowed would break it, and so would one of these that changed something else. A blank
name is dropped silently; a toggle repeated after a failure that took effect negates twice. Typed inputs are stored tidied:
texts, list items, keys and values stripped, blank items and keys dropped, of a repeated key the last value; `ClicksHold` demands exactly
that form and, of the raw editor, exactly what was entered. Blank rooms, addresses, labels, car names and empty groups are what the
forms offer and the handlers store, so they are contents like any other. What `ChangesWereAsked` excepts is
what a page cannot show: an inactive owner, a ragged setting. In `user_admin` and `presence_sources` the exceptions are
the silent refusals `refused` and `kept`. Where a hazard itself is such an exception, `PROJECT.json` lists it without a property and says
so. One of them touches a promise:
`CHANGELOG.md:47` calls the chat's token permanent, but a second browser's authorisation of the same
user replaces the link in Core and with it the first browser's token (`link_account` sets one per
service).

### Findings

* `tls_mixed`: `config.py:20-22` promises that an explicitly configured file is used
  and never made again while it exists. `load` fills the two paths in separately and
  `ensure_self_signed_certificate` regenerates both if either is missing, so a configuration with
  only one of them loses the operator's file at the first start: in TLC's trace only the key is configured, and
  the first write opens and so tears it.
* `presence_shift`: `presence_sources.html:71-72` says a blank row can simply be removed.
  The checkbox is looked up by position among the rows sent but named by
  position at rendering, so every new row after the removed one loses its tick.
  Saved rows are hidden, not removed, and precede the blank ones, which is why
  `SavedInPlace` holds. It does not matter whether the stored source is still there.
* `trigger_shift`: `_macros.html:19-20` says the parser need not change for the device lists.
  It reads by position, but a selected comparison that has become disabled, and
  a list with nothing selected, are not sent: all later rows of the block take their
  neighbour's entry. `StoredAsShown` says how far the form can be trusted: up to the first
  such row; `NothingLost`: states and texts never shift.
* `log_bundle_page`: `logs.py:2-3` says errors reach the modal as JSON, never as a redirect. The
  decorators redirect, `fetch()` follows, and the script saves the login page as
  `hannah-logs.tar.gz`.

## Proofs

All theorems hold for every value of the constants that satisfies the named
assumptions (distinct names, natural bounds).

* **WebSession.** `SafeInv` (typing, and `CookieOK` for every cookie wherever it
  is: jar, request, answer) gives `IdentitiesNeverMix`. It is inductive because each
  handler builds its cookie from the one it received; `HandlerSummary`
  states that once, and the proof of a step uses it instead of the handlers. `LinksGoToStarter`
  needs in addition that a flow in a cookie was started by the cookie's user or crossed a
  login. `OrderInv` relates the jar to what requests carried as long as no answer overtook another
  and gives `NothingResurrected`; `LoginInv` (a request that is no login or logout answers with the identity
  it carried or with no cookie) gives `LoginsKept`. `GatesHonest` needs `AdminLevel > 0`,
  because a missing trust level counts as 0.
* **UserAdmin.** `AdminInv` says of each request what it may know in each phase: which
  fields already reached Core, which entries are blank, and that a field
  written equals Core's unless it is in `foreign`. `Goes` keeps every other
  request's part, since it adds what changed to `foreign`.
* **TlsCert.** Under `Setups \subseteq {"default", "own"}` (the two paths are configured
  together; the run `tls_mixed` is the case left out): the pair on disk is complete or the
  writer is between the two files.
  `FilesTyped` needs no such assumption.
* **PresenceSources** (`PresenceSourcesProofs`). `SourcesInv`: boxes are distinct, a source has one row, rows of sources
  precede the new ones and so never move (`FormOK`); what was made for a row is no other row's
  source, and a row waiting for its turn has made less than one per sending (`MadeOK`); rows in place that had
  their turn are stored as shown (`StoredOK`). `CarriedRow` says once what an RPC for a row does
  to all of this; `RowDone`, `RowFailed` and `NoForeignSource` use it.
* **ActivityPaging.** `PagingInv`: everything above the current cursor and up to the horizon
  has been seen, and the URL's list descends. `CursorsAreAStack` proves the refinement.
* **LogBundle** (`LogBundleProofs`). `BundleInv` adds to the typing that an answer exists only for a
  request that is over (`AnswersTrue`, with "ended means all chunks were sent") and that without
  overlap at most one load is under way and the list is empty until then (`ListOfOneLoad`).
  `OneDownload` is the safety half of `ButtonReturns`.
  `RouteStep` says once what the eight steps of a route have in common.
  `ChannelsAreClosed` is about the requests the modal makes: a time beyond 64 bits, for which `ExportRequest` cannot be
  built (`log_collector.py:55`) and the channel would stay open, cannot come from its inputs (`Date` ends at 8.64e15).
* **RecordForms** (`RecordFormsProofs`). `IInv` adds to the typing that Core's record is one it can hold
  (`RecordHolds`) and `Sound` for every request: which operation and inputs it can
  have in its phase (`ClickedOn`), that ragged text is typed in or was shown so (`Combed`), that a page shows what is in Core
  but for what is foreign or blurred (`ShownStill`), what the handler is about to write (`Carried`,
  `Named`), for a toggle that the value it read is the one it negates (`TogglesAway`, `Negates`), for
  a group that the first of two RPCs holds while the second is pending (`HalfSaved`), and for a request
  that is over the property itself (`Held`). `IInv` is inductive because another request's part only
  loses by entries of `foreign` (`News`), shown once for all steps, and because the 21 handlers consist of a
  few shapes (called, read, set, delete), each with a lemma. `NoSideEffects` follows from `Carried`: what
  is written and not asked, foreign or blurred equals what is there (`UntouchedIsSent`). `OnlyWhatFits` goes through the shapes
  once more: what a whole form sends fits, because tidying a fitting input fits (`TidiedFits`) and the handlers with a name
  look whether it is blank.

* **TriggerForm** (`TriggerFormProofs`). `TypeOK` is inductive as it stands: it says which comparison, value
  and text each kind of row can hold, and every change in the form keeps that, hidden inputs
  included. With `SavedInv` (after a save Core has what the form sends) it gives the two
  properties of a saved form. The lists are compared by counting: among the chosen positions the
  k-th is the one with k of them up to it, ranks of later positions are higher and reach from 1 to their number
  (`RankGrows`, `NthRank`), so two selections of the same rows agree place by place, without an induction over
  the rows. `RowsStoredAsShown`: up to the first row that leaves something out every list has an entry for every
  row (`NthUpTo`, `NthFirst`), so position and row agree. `ConditionsKept`: states and texts have no such
  rows at all. `UntouchedSaved`: for each condition the form can show, `ToRow` and what its row means are inverse,
  with the script's set-up between them; and the shared blocks attached are those extracted. `Representable` limits
  the theorem to triggers the form can show, but for `Unshown`, which the save wipes and the theorem says so.

Only model-checked: `ComesUp`, `ButtonReturns` and `EveryClickAnswered`, because liveness under
fairness is out of the prover's reach. Every invariant and action property of a passing run is
also a theorem. The models contain no recursive operators.

## Not modelled

Core itself: it is an environment that stores, refuses or fails. Conversions without
interaction (settings' display, device overview, WAV header, slugs, signatures), layout, and
operations of one RPC that make something new and keep nothing: `create_user`, `create_alarm`,
`create_car`, `create_ble_tag`, `start_voice_enrollment`, `trigger_firmware_update`, messages,
`chat_send`. Their only hazard, a creation repeated after a failure that took effect, is
`OnePerSending` in PresenceSources. `telegram_link` asks Core for a link and leaves; the code behind it is redeemed
between Core and the Telegram adapter, and the page only polls. Which generation of the API is spoken
(`_on_connectivity`, `resolve_translated`) is decided and cached in `hannah-grpc-lib`, which is
not part of the repository: its locking would have to be invented.
Of `users.presence_sources`: the confidences, which travel like references, and the redirect for a
user who is gone. Back to a form from the error page, edited and sent again, is a new form in the
models. Several browsers of one user are independent cookies; they meet in UserAdmin and
RecordForms, not in WebSession.

## Plan

1. `create_user` and the other creations, with the lists their pages show, if they come to
   interact with anything.
2. An abstract specification of a record with atomic changes, which RecordForms implements for
   the operations that do not read first.
