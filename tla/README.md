# Specifications of ESP-Firmware-Over-The-Air

TLA+ models of the repository's own logic: the sketch that updates a unit in
the field, the server that publishes firmware and answers check-ins, the
migrations of its database, and the dashboard's session, publishing form and
device page.  TLC checks each on a small instance; TLAPS proves, for every
value of the constants, every safety property that the passing runs check of
any of them.  Liveness is left to TLC.

## The system

| Part | State it keeps | Operations | What makes it correct |
|---|---|---|---|
| Device, `esp32/main/main.ino`, `ota.cpp` | two application slots, boot selection, staged `/firmware.bin`, the standing offer, offers skipped or failed (RAM) | `setup`, `loop`, `check`, `downloadFirmwareToFS`, `OTA` | always bootable, always a fallback, flashes only what was signed for it, neither retries for ever nor suppresses a fix |
| Publishing, `application/upload_firmware.py`, `local_storage.py` | table `firmware`, directory of blobs, each account's key | upload, withdraw, replace the key | one identity per row on both axes, a row has a file and a signature, refusals are explained |
| Check-in, `application/check_update.py`, `domain/ota_history.py` | tables `devices`, `device_events` | check, download, register, enable, disable | offers fit the unit, the history explains the row, a standing offer does not fill the log |
| Version order, `domain/signing.py`, `ota.cpp`, `frontend/src/version.ts` | none | parse, compare | three implementations, one order |
| Session, `application/session.py`, `api/auth.py`, `AuthProvider.tsx` | table `refresh_tokens`; a tab's session and its renewal in flight | login, refresh, logout, reset, `authFetch`, reload | handles stay single-use, the tab never spends one twice, logging out and resetting hold |
| Upload form, `frontend/src/views/FirmwareUpload.tsx`, `crypto/signing.ts` | the image read, the imported key, the fields, the signature | choose an image or a key, type, sign (an effect), submit | the signature covers what the form shows, the label belongs to the image, the form never stays stuck |
| Device page and fleet statistics, `pages/DeviceList.tsx`, `domain/fleet.py`, `application/device_stats.py` | the last answered poll | poll, register, enable, disable | cards and rows agree, the page comes to show what there is |
| A unit under its owner's catalogue, all of the above between `check()` and `/api/check` | what the server remembers of the unit | poll, publish, withdraw | a refusal has a cause, the unit comes to rest or reflashes an image that is known to make it, the owner sees why |
| Migrations, `backend/alembic/` | the database file: schema, recorded revision, rows | `alembic upgrade`, `downgrade`, the server in between | schema and revision belong together, no row is lost, every row can be served |
| Other pages (`FirmwareList`, `PublicKey`, login and password forms) | one answer each | load, submit | not modelled |
| Scripts, configuration | files | run by hand | not modelled |

How they interact: a device posts its version, identity and last error to
`/api/check`, and follows the download link in the answer.  The server reads
the firmware table that uploads write.  The dashboard reaches everything
through `authFetch`.  Upload, check-in and download are plain `def` routes: the
server runs them in threads, several at once, and each commits in several
steps.  The session routes are coroutines that never suspend (the account
store is synchronous underneath), so each runs to its end on the event loop.

What is hard to test in it: threads that interleave between two commits, a
request or the server that breaks off there, power lost at any moment of a
flash, answers lost or late, caches in RAM that must match what is in flash,
the same order computed three times, and migrations that stop half way on a
database without transactional DDL.  `PROJECT.json` lists each such
hazard at its line, with the properties that would catch it.

## Modules

* `VersionOrder`: the order on parsed versions, one definition used by all.
  `VersionParsing` takes strings (as sequences of dot-separated segments)
  through the three parsers and compares what they decide: `int()`, which raises
  on a superscript or on more than 4300 digits, `toInt()`, which is `atol()` with
  the white space and the signs that takes and 32 bits, and `Number()`, which is
  a double.
* `Device`: one unit.  `pc` says where `setup()` and `loop()` stand; one action
  per exit of each function.  An answer of the server is any version and
  signature, a download any image: the server is the environment here.  The
  hash and the RSA check appear as `Covers`, the manifest that a signature
  verifies for.  `TwoSlots` is what a unit promises: a selected image, perhaps a
  fallback, and how far the selected one is confirmed.  `Device` implements it
  (`KeepsPromise`), with the slot's content, the boot selection and the
  bootloader's state as the refinement mapping.  `DeviceHistory` adds two variables that only observe.
* `Catalogue`: the abstract specification of the firmware table, with the query
  for the latest version.  `Publishing` implements it (`KeepsCatalogue`);
  `CheckIn` is composed with it, its next-state relation holding the
  catalogue's steps as the environment.
* `Publishing`: upload requests as threads.  A step is what the code does
  between two accesses to shared state.  `Fail` ends one request and
  `ServerStops` all of them at any point.  `put` is two steps, since opening
  the file truncates it.
* `CheckIn`: check-in requests as threads, with the query, the flush and the
  events' commits as separate steps.  Refusals (unknown, disabled, wrong secret,
  wrong model) are `TurnAway`.  An answer that gets out adds its row to `links`;
  a download is an action of its own that needs a link and nothing else, and is
  logged against whichever device id the query names, registered or not.
* `DashboardSession`: the handle table and one tab.  What follows an answer in
  JavaScript without a further `await` on the network is one step, so a settled
  renewal wakes all who awaited it at once (`Wake`).  Requests that nobody waits
  for any more (a logout, a renewal whose tab was reloaded) are `mail`, served
  late or never.
* `Rollout`: `Device` composed with `Catalogue` and the columns of the unit's row
  that a check-in writes.  The unit's poll is answered by what the catalogue
  offers the version it reports, and its download by the row the link belongs
  to, withdrawn or not.  The two sides keep what each has of its own: rows may be
  signed with a key that the unit's `config.json` does not hold (`OtherKey`), and
  a label is one version to the server and may be another to the unit's 32 bits
  (`DeviceReads`).  An image may be built for another model, report another
  version than its label, carry no digest, or never get through `setup()`
  (`Boots`).  A poll or its answer may be lost at any time; what the unit has no
  answer to and what passes (lost power, lost WiFi, a digest that cannot be read
  this once) is `Trouble`, which comes finitely often.  An image that restarts in
  `setup()` every time is not trouble: its restarts are steps of the unit.
* `Migrations`: a revision is the list of its operations, and an `alembic`
  command goes through them one by one.  `disk` is what is committed, `db` what
  the connection sees: they differ from the first statement that writes rows
  until the revision is recorded, because the driver opens a transaction there.
  Between two commands the server uploads, registers and deletes, by the rules
  of the recorded revision.
* `UploadForm`: the form's React state.  Each `await` (reading an image,
  importing a key, signing) is a set or queue of what is under way, and its end
  is an action of its own.  The signing effect runs within a change event
  (`Flush`) and some time after the render of an awaited result (`RunEffect`).
  What is posted meets the server's rule for the label and the signature
  (`Acceptable`).
* `DevicePage`: composed with `Catalogue`.  A poll is a record that fills as the
  server answers its three requests, the statistics in two reads; polls under
  way are a sequence of which any may be next, since the code neither numbers
  nor cancels them.  The buttons
  appear as the change they make to the tables and, since a `refreshKey` only
  starts a poll early, as `Fetch`.  A reported version is null, the empty string,
  or what any other string parses to: the page tests it for being truthy, the
  server for being `None`.
* `VersionOrderProofs`, `DeviceProofs`, `PublishingProofs`, `CheckInProofs`,
  `SessionProofs`, `UploadFormProofs`, `MigrationsProofs`, `DashboardProofs`: the
  theorems.  `DeviceProofs` has those about `Rollout` too, and `DashboardProofs`
  those about `VersionParsing` and `DevicePage`.
* `MC*`: the instances TLC checks.

Definitions whose comment begins with "mutant" are plausible slips of the
definition after them; no behaviour uses them.  They show that the property
they are paired with in `PROJECT.json` can fail.

## Runs

| Configuration | Shows | Instance |
|---|---|---|
| `MCDevice` | bootability, fallback, clean exits, retry budget, no fix suppressed, implements `TwoSlots` | four images: factory, a successor that halts in setup, an unmarked one, one built for another model; three versions of which one is a prefix of another |
| `MCVersionParsing` | server, device and dashboard agree | all strings of up to four segments over lists of telling ones: empty, padded, signed, with white space, with digits that are not ASCII, at and beyond the largest `long` (16 here), among and beyond the exact doubles (up to 32 here, then every second number up to an infinity of 40), and longer than `int()` reads (3 digits here) |
| `MCPublishing` | files, signatures, explanations, implements `Catalogue` and so keeps identities unique | three uploads, two accounts, two images, five forms chosen to clash in every way, one of them signed with another key |
| `MCCheckIn` | offers fit, history, log growth | one unit and one identifier that is no unit's, two requests at a time, two releases, two accounts; calls with the right and the wrong secret, registrations under the right and the wrong model, links followed in either name |
| `MCUploadForm` | the signature fits the image, reading always ends | two images, one with a build marker; two keys, one of them the account's; two labels; two reads and two imports under way; a signature to paste |
| `MCDevicePage` | cards agree with rows, the page catches up | one unit, registered or not, that reports a version or the empty string; a model with one version and a newer one to publish; two polls under way; two changes or failures |
| `MCDashboardSession` | single-use handles | one account, two requests, three handles, one reset, one letter adrift |
| `MCDashboardReturns` | every waiting request goes on | as above with two handles and no reset, without symmetry |
| `MCMigrations` | schema, revision, rows and links through any sequence of upgrades and downgrades | two labels of one model, two binaries, three rows, one account; commands to revisions 0, 5, 9, 11 and 14, between which lie the revisions that look at rows; one crash |
| `MCRollout` | what a unit refuses, whether it comes to rest, and what the owner sees | any two of: a marked successor without digest, under the unit's key or another; an image that cannot read this unit's configuration; one that never boots; one built for another model; two whose builds are older than their label, which is beyond the unit's largest number, one with a digest and one without; trouble once |

Each violation run checks one sentence of the repository against the code:

| Configuration | The sentence | What happens |
|---|---|---|
| `MCUploadFormLeftovers` | `FirmwareUpload.tsx:41`, an image that does not name itself "must not leave the previous image's values sitting there" | two images chosen in quick succession: the first one's read fills the fields after the second choice cleared them |
| `MCDashboardLogout` | `AuthProvider.tsx:184`, no one who pressed logout is left looking at the dashboard | a renewal in flight at logout signs the tab in again |

Bounds.  `MaxLog` stops new check-ins once the log is so long (requests under
way may add to it): two rows of the unit, so that two requests under way can add
a third and a fourth, of which `RepeatsBounded` forbids the third repetition, and
one of the stranger, whose log holds downloads only.  `MaxHandles` bounds logins and
renewals: three allow a login, a renewal, and a later login that an old answer
can overwrite.  `MaxResets` and `MaxMail` bound resets and late requests.  The
device needs no bound: its attempts are counted by the code, up to four.  Three
uploads allow two that pass the same pre-check and a third that fails between
opening and writing the blob they share.  Uploads and requests are symmetric
where only safety is checked.  `MaxReads` and `MaxImports` bound what the form
has under way: two let an older read overtake or undo a newer one.  `MaxPolls`
is two for the same reason.  `MaxEvents` bounds the changes to the tables and
the polls lost, together: one change tears a poll or leaves an older one
behind, two let a version come and go, or a unit register and check in.
`MaxRows` and `MaxUsers` of the migrations allow three rows, of which two share
a version or a binary and the third neither; `Goals` are where commands stop,
so that every revision is crossed both ways and every refusal is met.  Once a
file is torn (`cut`) it stays so, and no second crash is needed.  In `Rollout`,
`MaxRows` of two lets a second version replace the first at any point of its
update, and `MaxTrouble` of one lets power fail at any point of an update or of
the trial of its image, once: what a second failure finds is what `Device` has,
where power fails any number of times.  It does not check for deadlock: a unit whose configuration
is unreadable halts, and the rest may have come to rest by then.
`Moments` are two readings of the clock, apart by exactly the three intervals
after which a unit counts as offline.

Fairness is assumed of browsers and, once, of the server.  `DashboardSession`
takes a fetch to end, with an answer or an error, because browsers do: weak
fairness of the end of a renewal and of each request; the server need not
answer.  `UploadForm` takes the reading of a file to end, either way.
`DevicePage` takes the interval's timer to go on firing and polls to be answered
and delivered, except for the lost ones that `MaxEvents` allows: a page whose
server has gone shows an error for ever, rightly.  `Rollout` takes the unit to
go on: every wait of the sketch has a limit after which it polls again or
restarts, and `loop()` is called for ever, so weak fairness of its own steps
together with answered polls; a poll may be lost any number of times, but not
every one from some time on.  `Settles` and `StallIsShown` are about a unit that
is left alone from some time on, which is what the two bounds amount to.  They name
the two loops that nothing in the code ends (`Loops`: an image that never boots,
and one that reports an older version than its label and has no digest to be
known by) and the two units that a row says nothing of (`Silent`: halted in
`loadConfig`, or turned away for its model); without either clause TLC refutes
them.
Nothing is assumed of operators, publishers or power.

## Proofs

Proved for all images, models, versions, signatures, accounts, keys, forms and
numbers of uploads, from the assumptions the modules name:

* `VersionOrderProofs`: the order is irreflexive, transitive and total up to
  equal segments, for versions of at most three segments.  It also holds what
  `CheckInProofs` and `DashboardProofs` share: of finitely many rows one is the
  first in that order (`SomeFirst`), sets of numbers closed under successor hold
  all numbers (`Induction`), and a recursive function that is given by its base
  and its steps exists (`Recursion`).  The last two speak of sets and functions,
  so that no theorem with an operator for a parameter is needed.
* `DeviceProofs`: `Spec => []IInv`, where `IInv` adds to the types that the
  running slot is the selected one except between the flash and the reboot, that
  the trial image's other slot is whole, that a staged file is complete and was
  verified, and that no skip survives a reset.  `BootSlotComplete` alone is not
  inductive: nothing in it says that the slot being written is not the selected
  one.  From `IInv` follow the invariants and, with one lemma on the only action
  that fills a slot, the action properties.  `RetryBudget` rests on an invariant
  that ties the history's streak to `failed_attempts` and the place in the poll.
  Under the same `IInv`, each step of `Device` is a step of the
  abstract unit or leaves it alone.  `FlashEnds` is `Install`, which needs that
  the staged file was verified for this model and a newer version; the
  bootloader is `Try`, `GoBack` or `Stay`, which needs that the slots it tells
  apart are two and that what it goes back to is whole.
* `DeviceProofs`, of `Rollout`: `RIInv` adds to `IInv` that every row is what its signature
  covers, or is signed with another key, and that the offer being followed was such
  a row, of the unit's model and newer, as the server reads it, than its image:
  the catalogue may change, a row's content may not, and the running image changes
  only with a reset, which clears the offer.  `RefusedForCause` alone says nothing
  of an update that has not failed yet.  `NothingRefused` is what it comes to where
  no cause can arise: while all rows are signed with the unit's key (`KeyKept`) and
  its 32 bits order all labels as the server does (`OrdersAgree`), no offer is
  refused for its signature or its version.  `KeepsBoth` shows that the composition is a behaviour
  of `Device` and of `Catalogue`, so all that is proved of either holds of it.
* `PublishingProofs`: `IInv` adds to the invariants what makes them inductive.
  An upload past the signature check has a verified name and a key its owner
  held (`Checked`, `KeysHeld`), one past the write has its file (`Opened`), and
  one whose insert was refused still has a row to be explained by, because rows
  never leave the table (`Explicable`).  `ImplementsCatalogue` is the
  refinement: a successful insert is `Publish`, a withdrawal is `Withdraw`, and
  all other steps leave the table alone.
* `CheckInProofs`: for any finite number of requests at once.  What carries it is
  what does not change while a request is between two of its accesses: a row of
  the firmware table keeps its account, model and version, a registered unit its
  account and model, and the log only grows.  So an offer that fitted when it
  was looked up fits when it is answered, and one that was logged before its link
  was handed out stays logged; a download needs a link that is out.  `RepeatsBounded` says nothing of the requests that
  are past the look at the log's newest row and about to add to it; `TailBounded`
  counts them (`Pending`) with the repetitions the log ends in.
  `HistoryExplainsRow` says nothing of a unit with a check-in under way;
  `Explicable` says of it that this is the only one (`Alone`), that what it has
  read is what the row holds (`UpToDate`), and that the log explains the row
  unless a transition is about to be logged (`Logged`).
  `ReadsTheCatalogue` is the composition, and `LatestIsOne` shows that the query
  for the latest version has exactly one answer when there is anything to offer:
  at most one because the order is total on versions, at least one because, were
  there none, the shortest part of the table without one would have one.
* `SessionProofs`: for any number of requests, handles, accounts and resets.
  `NoSelfReplay` alone is not inductive, as it does not say who else may hold a
  handle.  `IInv` adds that there is one renewal at a time and whoever waits
  waits for that one (`OneRenewal`, `Waits`), that every handle anyone holds was
  issued (`Issued`), that what is sent and not waited for spends a handle the tab
  has written off (`MailExcused`), that an answer on its way brings a handle
  still good or taken away by something else (`AnswersHold`), and that nobody but
  a login on its way holds the handle it brings (`SignInApart`).
* `MigrationsProofs`: for any rows.  The first two results hold whether or not a
  crash tore the file.  `RowsServable` needs `Full`: a column that a revision fills, if it is there at
  all, is full from that revision on, and within the revision from the operation
  on that fills it.  The schema is in it because a torn downgrade leaves rows
  without links under a revision that has links; the schema then is not that of
  the revision, and no server runs.  `RowsKept` needs that what the connection
  sees holds every row of the file, or a later one of its version (`Kept`), as it
  is what the next commit writes.  Both rest on what each operation of the
  fourteen revisions may not do (`UpsAreMild`, `DownsSpare`): no drop takes away
  what a row is known by, and a filled column is created in one place.
  `SchemaMatchesRevision` says nothing of a command under way; `SchemaOk` says
  that it has applied the first so many operations of its migration to the
  schema of the recorded revision (`After`), and where it may still refuse, none.
  It is inductive because every migration ends at the schema of the revision it
  goes to (`TheMigration`).  `SchemaAt` defines that schema for upgrades only, by
  what they create and later ones do not remove, so what takes the work is that
  each downgrade takes its upgrade back: `Reverses`, once for each revision, from
  a table of what each revision has (`Stands`), which is shown to be `SchemaAt`
  (`SchemaStands`).  The same lemmas show that no operation of an upgrade meets
  a table, column or index that should not be there (`Smooth`), the schema's part
  of `UpgradesComplete`.  The rows' part is `DataOk`: every unique index that is
  there holds, and the rows meet the ones that the upgrade is about to create
  (`Cleared`), because the upgrades create them in known places only
  (`UniquePlace`): after 0003 has deleted the older rows, after 0010 has looked
  for shared binaries, after 0012 has drawn a link for each row, and for the
  indexes of each account because they cover more columns than the ones they
  replace.
* `UploadFormProofs`: `RestIsSigned` needs `SignInv`, which says of the form at
  work what `SettledSignature` says of it at rest: what is being signed is what
  the form holds unless the effect is due, and a read under way excuses nothing,
  since it changes the form only when it ends and then makes the effect due.
  Any number of reads and imports may be under way.

* `DashboardProofs`, of `VersionParsing`: for all strings of any number of
  segments, of any length, for any largest `long`, and for any set of doubles that
  is exact up to some number and includes the next.  `OffersAgree` goes from
  the characters to the numbers, one parser against the other: on plain ASCII all
  three find the same segments and the same run of digits in each
  (`AsciiSegments`, `PlainSegments`, `RunsAgree`), so that the server reads the
  number (`ServerReadsExactly`), the device, where no sign and no white space is in
  front, the lesser of that number and its largest (`DeviceSaturates`), and the
  dashboard the nearest double (`PageReadsDoubles`).  Unless both versions are cut
  or rounded so, they compare alike in each position, and versions that do are
  ordered alike (`SameOrder`).  `DashboardAgrees` needs that the first position at
  which two versions differ decides (`FirstDifference`).  What `int()` makes of a
  run of digits is used in one respect only: it is a natural number
  (`DecimalIsNat`, by `Recursion`).
* `DashboardProofs`, of `DevicePage`: for any number of units, polls under way
  and changes.  `CardsMatchRows` is about the poll shown and says nothing of the
  ones under way.  `PageInv` says of these (`PollHolds`) that a poll all of whose
  reads have seen as many changes as there are now holds what a read finds now,
  that it counted what it listed, and that an answered one that is not torn
  matches.  A change of the tables leaves all older polls behind
  (`LaterHolds`); a read either finds what the others found or marks the poll
  torn (`FillingHolds`).  That three answers about the same tables match
  (`SameTablesMatch`) rests on `PageFindsTheLatest`: the page's pass through
  the list, newest row first, ends with the row that the server's query sorts
  first, because the order is total (`PicksFirst`, by `Induction` along the
  list).  The units behind fall into those that the banner names and those that
  report the empty string, which only the card counts.

What the assumptions say: versions are parsed ones, special values such as
`NoRow`, `NoVersion` and `NULL` are not rows, versions or ids, and requests and
units are finitely many where they are counted; of `Rollout`, that every row's
signature covers its manifest if it was made with the unit's key, and nothing the
unit can verify if not.  TLC evaluates all of them.

Model-checked only: `RequestsReturn`, `NeverStuckReading`, `PageCatchesUp`,
`Settles` and `StallIsShown` are liveness properties under fairness and stay with
TLC, as does anything that concerns ENABLED.  Of `Decimal` it is proved that its
result is a natural number, not which: the three parsers are compared, and
whether they read a decimal number as one is left to the definition.

## Known divergences that no run states

* `signing.py:172` says that a malformed segment becomes 0 "instead of raising";
  `"²".isdigit()` holds and `int("²")` raises, so a check-in that reports such a
  version ends in a 500.  `VersionParsing` has it as `Raises`: no offer is made.
  `int()` also raises on more than 4300 digits, which `VERSION_FORMAT` lets an
  upload carry: every check-in of the account for that model is then a 500.  The
  agreements are of versions the server can read (`Readable`).
* `signing.py:166` says that `parse_version` mirrors the device.  `toInt()` is
  `atol()`, which skips white space and takes a sign: a unit whose build says
  `+1.0.0` or ` 1.0.0` reads 1.0.0 and the server 0.0.0, so the server offers it
  1.0.0, which it refuses as a downgrade; and `-1.0.0` is below zero to the unit
  only.  No upload can carry such a version, and a unit can report it:
  `OfferAgreement` is of reports without (`Plain`).
* `signing.py:168` says that `parse_version` matches the device; for a segment
  beyond 32 bits the device's `toInt()` saturates and the server counts on.
  `OfferAgreement` holds of such versions too, but not of two that the device
  cannot tell apart.  In `Rollout` such an offer is refused as a downgrade, and
  `RefusedForCause` says that it takes one.
* `version.ts:1` says that the page orders as the server does.  `Number()` is a
  double: 1.0.9007199254740993 and 1.0.9007199254740992 are one version to the page
  and two to the server.  `DashboardAgreement` leaves out pairs of versions that
  both have a segment beyond 2^53 - 1.
* `DeviceList.tsx:171` tests the reported version for being truthy, `fleet.py:83`
  for being `None`.  A unit that reports the empty string (`routes.py:109` sets no
  minimum) is offered whatever is newer than nothing and counted as behind by the
  card, while the page shows it as up to date and does not name it.
  `CardsMatchRows` counts such units apart (`Unnamed`).
* `architecture.md:147` says of the download route that "a caller holding a
  download id can write a download event against any device id string", and so it
  is: a download in the log does not say that this unit was offered the row, or
  that it asked.  `DownloadsWereOffered` says that some unit of the row's account
  and model was, on record.
* `tutorial.md:179`: replacing the account's key does not reach the fleet.  Every
  unit refuses what is signed with the new one, for its signature, four times an
  offer: in `Rollout`, the rows of `OtherKey`.
* `tutorial.md:181` says that an image is flashed again and again "only" if it
  has no build marker and is published under a version that its build does not
  report.  Without an appended digest to tell the image by, it is so for ever;
  with one, `isImageAlreadyRunning` stops it, unless the digest cannot be read
  (`ota.cpp:197` fails open).  But a marked image that fails in `setup()` each time
  is rolled back, is still the newest on the server, and is flashed again for ever
  too: in `KeepsPromise` it is another round of `Install`, `Try` and `GoBack`.
  `Settles` names both as `Loops`.
* A unit that comes to run an image built for another model is turned away with a
  403 before anything of it is recorded (`check_update.py:138`; `routes.py:164`:
  the log "is the only place an operator can see" it).  Its row keeps the version
  it had, without an error, and it is offered nothing that would help.  A unit that
  halts in `loadConfig` sends nothing at all.  `StallIsShown` names both as
  `Silent`.
* `upload_firmware.py:124` calls the overwriting of a blob harmless.  It is
  truncated first, under a row that may be published: `TornOnlyByReupload` says
  that nothing else leaves a row with an incomplete file.
* `0012_owner_scoping.py:83`: the downgrade first drops the indexes of each
  account and then asks for the ones over all accounts.  If two accounts hold
  the same model and version it stops there, with the schema between two
  revisions and the revision recorded as 12.  `docs/development.md` asks
  migrations to validate before the first `ALTER`; `SchemaMatchesRevision`
  excuses the downgrade.
* An upgrade from before 0011 to the newest revision in one command drops all
  accounts in 0011 and so finds no first owner in 0012: every row stays without
  an owner.  `RowsServable` says what is left of it: each row has its link.
* A crash during 0006's downgrade or upgrade leaves columns behind that the
  recorded revision does not have, and the next command stops at a duplicate or
  missing column.  `SchemaMatchesRevision` says that it takes a crash.
* A check-in that breaks off between its two commits (`check_update.py:149` and
  `:165`) has recorded a version without logging the change, for good.
  `HistoryExplainsRow` excuses such a unit (`muddled`).
* `fleet.py:76` says that `is_behind` is whether a unit "would be offered an
  update on its next check"; a unit that is switched off counts too, and the
  page's banner says that it will update.

## What the models leave out

* `initFS` formats a partition that it cannot mount, and with it `config.json`
  goes; `RunningImage \in ConfigReaders` is constant in time here.
* TLS, WiFi, SNTP and JSON appear by their outcome.  Cryptography is perfect.
* A halted device (`while (true)`) stays so until power is cut; `PowerLoss` is
  always possible and never certain.
* The database's isolation: a commit is atomic, and a query sees all commits
  before it.
* A duplicated browser tab, which would copy `sessionStorage` and with it the
  single-use handle.
* `setHasPublicKey` changes the account shown and not the handle, so it is a
  stuttering step of `DashboardSession`.
* On the publishing form: the model and version fields are one label, and
  notices, notes and key generation are left out.  On the device page: the
  one-time secret, error texts, search and filters.
* The statistics look up the latest version of each model in turn; they are one
  read here.
* The migrations' row data beyond what an index, a check or a later revision
  reads; a row's SHA-256 stands for its size too, as the two go together, and its
  id for the link drawn for it.  Alembic's own version table is `revision`.
* In `Rollout`: a second unit, a unit moved to another account or model, a wrong
  secret, a unit whose `config.json` is given a new key, and the owner's switch,
  all of which would end in polls without an answer; whether an image gets through
  `setup()` is a constant of it; a row is shown as its columns say, and
  `DevicePage` has what the page makes of them.
* Event rows without a device id (downloads by hand-typed links), and links that
  were got otherwise than from an answer to a check-in.
* The spelling of a version, but in `VersionParsing`: the catalogue and the
  check-ins take versions as parsed, so that 1.2.3 and 1.2.03 are one version, of
  which the catalogue refuses the second where the code takes both and offers
  the later row.

## Plan

1. Done: version order, device and its abstract unit, catalogue, publishing,
   check-in, session, upload form, device page, migrations, and the composition
   of device and catalogue; the proofs of all the safety properties.
2. Later models: the list of firmware (`FirmwareList.tsx`, which withdraws and
   reloads) and the public key form against uploads under way; the key tool's
   two files, of which one may be missing.
