# Verification of ayatana-indicator-power

TLA+ models of the power indicator service, the TLC runs that check them on
small instances, and TLAPS proofs of what must hold for every instance. The
reference is the C code under `src/src/`; the tests and the D-Bus interface
files were read with it. `PROJECT.json` maps every definition to the lines it
stands for.

## 1. The system

`ayatana-indicator-power-service` is one process with one GLib main loop. It
listens to UPower on the system bus, chooses the most interesting device,
exports a panel header and menus on the session bus, and warns the user of a
low battery. There are no threads: what interleaves is the order in which the
main loop dispatches D-Bus signals, replies, timers and user actions, and what
other processes (UPower, the notification server, repowerd, the user) do in
between.

```
 UPower --signals, replies--> device-provider-upower --devices-changed--> service --> header, menus
                                        |                                    |
 Testing object --> device-provider-mock +---- device objects ---------------+ set_battery
                                                      | notify::percentage/state
                                                      v
                              notification server <-> notifier --> D-Bus object .../Battery
 repowerd, Unity.Screen <-> brightness, keep-screen-on      sysfs/binder <- flashlight
```

### Inventory

| component | state it keeps | operations | what makes it correct |
| --- | --- | --- | --- |
| notifier (`notifier.c`) | watched battery, last level and discharging flag, the notification and its weak reference, server capabilities, the Battery skeleton | set_battery, property changes of the battery, notification closed/finalized, set_bus, dispose | warns exactly when the battery gets worse while discharging; never nags; IsWarning, the notification and the screen agree; a late "closed" harms nobody |
| UPower provider (`device-provider-upower.c`) | table of devices, queued paths, 500 ms timer, subscriptions, bus, name watch | name appeared/vanished, EnumerateDevices and GetAll replies, DeviceAdded/Removed/Changed, Resuming, PropertiesChanged, timer, dispose | the table follows UPower through restarts and calls in flight: no ghost, no lost device, no outdated charge; listeners are told of every change |
| choice of the primary device (`service.c`) | none (pure) | merge batteries, compare, sort, pick | the documented criteria decide, the order of the list does not; a merged battery speaks for all |
| service (`service.c`, `main.c`) | devices, primary device, header, menus, device-state action, settings, provider, bus name, exports | devices-changed, set_device_provider, settings changed, bus acquired, name lost, dispose | everything shown is computed from the devices as they are; the notifier watches the primary device; nothing is left behind |
| settings section (`service.c`, auto-brightness in `brightness.c`) | the section's items, the auto-brightness switch, its property and its key in the schema | toggled, key written, repowerd answers, section rebuilt | each switch shows what is behind it; the section offers what is supported |
| testing object, mock provider (`testing.c`, `device-provider-mock.c`) | mock battery, which provider is in use | MockBatteryEnabled/Level/State/MinutesLeft, set_bus | the service shows the provider in use |
| device (`device.c`) | kind, state, percentage, time, timer since the estimate was lost | property setters, texts, icon names | the texts say what the properties are; the estimate's age is right |
| brightness (`brightness.c`) | percentage, repowerd's parameters, its owner, the schema's value | parameters ready, owner changed, brightness changed, schema changed, set_percentage | the saved brightness survives; the slider and repowerd agree |
| keep-screen-on (`keep-screen-on.c`) | cookie of the request, action state | toggle (two synchronous calls that may fail, or whose reply is lost) | a request that is held can be taken back |
| flashlight (`flashlight.c`, `flashlight-binder.c`, `deviceinfo-flashlight.c`) | kind of torch, `activated`, client of the camera provider, action state | probe, toggle | the torch is lit by the switch alone, and dark when it is off |
| utilities, data files (`utils.c`, `datafiles.c`) | none | lookups | none worth a model |

### What is hard

* *Calls in flight*: a GetAll reply may arrive after the device was removed or
  UPower's name vanished; device lists change between the subscription and the
  reply to EnumerateDevices.
* *Restarts of other processes*: UPower, the notification server, repowerd,
  Unity.Screen, Android's camera provider.
* *Steps that fail on one side only*: a call whose reply is lost, a file of two
  that does not open, a write the driver ignores.
* *Late signals*: "closed" of a notification that was replaced.
* *Batching*: paths wait for a timer that is started by the first of them.
* *Half-applied messages*: the properties of one PropertiesChanged message are
  set one by one, and the notifier acts after each.
* *Replaced objects*: a merged battery is a new object each time, so the
  notifier is given another battery with each devices-changed.
* *A comparison that is not an order*: two equal devices are both "less".

`PROJECT.json` lists each of these as a hazard, at its line, with the properties
that would catch it.

## 2. The modules

| module | code | role |
| --- | --- | --- |
| `PowerDevice` | `device.h`, head of `notifier.c` | kinds, states, charge in tenths of a percent, power levels |
| `Notifier` | `notifier.c` | state machine of the notifier and its environment |
| `NotifierProperties` | | its invariants, action properties, liveness |
| `LowBatteryWarning` | | abstract specification: what the user may rely on |
| `NotifierProofs` | | TLAPS proofs about `Notifier` |
| `UPowerProvider` | `device-provider-upower.c` | state machine of the provider, UPower and the bus |
| `UPowerProviderProperties` | | its properties |
| `UPowerProviderProofs` | | TLAPS proofs: queue and owners; ghosts, lost devices and outdated charges |
| `PrimaryDevice` | `service.c:146-307`, `1479-1612` | comparison, merging, choice, as operators |
| `BatteryTotals` | | what the comment `service.c:1472-1479` says of the merged battery, in terms of sets: the reference for the loop |
| `PrimaryDeviceProperties` | | every list of devices that can come about, and what the choice must do |
| `PrimaryDeviceLemmas` | | TLAPS: what the operators of `PrimaryDevice` compute, for lists of any length |
| `PrimaryDeviceProofs` | | TLAPS proofs of its properties |
| `PowerService` | `service.c`, `testing.c`, `main.c`, parts of `device.c` | provider, service, Testing object and notifier composed |
| `PowerServiceProperties`, `PowerServiceProofs` | | what they achieve together, and the TLAPS proofs of it |
| `Device` | `device.c`, the setters of `device-provider-upower.c` | one device: properties set in turn, timer, texts, icons |
| `DeviceProperties`, `DeviceProofs` | | its properties and TLAPS proofs |
| `Brightness` | `brightness.c` | slider, backlight, saved brightness, repowerd |
| `BrightnessProperties`, `BrightnessProofs` | | its properties and TLAPS proofs |
| `KeepScreenOn` | `keep-screen-on.c` | the switch and Unity.Screen |
| `Flashlight` | `flashlight.c`, `flashlight-binder.c`, `deviceinfo-flashlight.c` | the switch, the torch and the camera provider |
| `SettingsSection` | `service.c`, auto-brightness in `brightness.c` | the phone's settings section; composes the two above |
| `SettingsSectionProperties`, `SettingsSectionProofs` | | its properties and TLAPS proofs |
| `MC*` | | instances for TLC |

**PowerDevice.** A charge is an integer in tenths of a percent, so that the
thresholds 2.0, 5.0 and 10.0 can be met exactly and just missed. The truncation
of `get_battery_power_percentage` to whole percents is kept.

**Notifier.** One action per handler: `SetBattery`, `BatteryChanges` (the
percentage or state of a watched object, which calls
`on_battery_property_changed`), `BatteryKindChanges` (no handler is connected to
it), `SetBus`, `Dispose`, `NotificationClosed`. `notification_show` and
`notification_clear` are whole: closing the old notification, the failed call if
there is no server, asking once for the capabilities. libnotify's calls are
synchronous, so a call is answered inside the step that makes it. The "closed"
signal is in flight (`closing`) until it is delivered, and a delivery runs
`g_object_unref`, which finalizes the object and calls the weak reference, if it
is still there (`weak_refs`). The environment: the user dismisses, the server
expires a notification (unless it is persistent), stops (its notifications are
`lost`, without a signal) and starts, with or without support for actions.

**UPowerProvider.** The bus delivers to one connection in the order of sending,
so messages are one queue (`inbox`): owner changes of UPower's name, signals of
the subscribed owner, replies. `Dispatch` takes the first and runs its callback
whole, including `emit_devices_changed` (whose effect is that listeners have read
the table: `announced`). Calls in flight are a set; an answer is computed when
UPower takes the call and is then in the queue. A device's properties are two
classes, "charge" (taken over as they come) and "time" (ignored when 0 in
PropertiesChanged, but not in a GetAll reply).

**PrimaryDevice.** `device_compare_func` is the list of its rules, the first
non-zero of which decides. `HeadOfSorted` models `g_list_sort`, a merge sort, as
far as the head is concerned: with a comparison that is no order, the outcome
depends on which elements meet. `create_totalled_battery_device` is its loop over
the list with its eight variables (`Tally`) and what is made of them; the rule of
the comment above it is stated apart from it, in `BatteryTotals`.

**PowerService.** `INSTANCE Notifier` with device objects for batteries. A
callback of a provider is a step that begins it, a step for each property it
sets (the notifier reacts to each), and `EmitDevicesChanged`, during which
`on_devices_changed` runs whole: list, primary device, notifier, device-state
action, header and menus. The provider's message queue is not modelled again
here: any message may come at any time. The list's order is arbitrary (a hash
table). When the bus is acquired the Testing object, the actions and the menus
are exported, and any of these exports may fail (`ExportOutcomes`); the Testing
object gets the same bus, changes the mock battery and switches the provider.
`on_name_lost` and the end of `main` take everything down. The header's label is
its parts (which time is shown, which charge), its icon the properties it
depends on.

**Device.** One device as UPower's messages set it: a message is a sequence of
properties, set one at a time, after each of which `set_property` looks at the
timer of a lost estimate. The label is made when a whole message has been taken
over, and when settings change, but not as time passes: the clock ticks in
steps of 15 s up to 90 s, past the two thresholds of 30 and 60 s. The label, the
menu item's text and the text read aloud are made by the code's three functions
and are records of what they tell (a word, or hours and minutes with what is said
of them; the text read aloud leaves hours out if there are none); the icon names are a sequence, the preferred one first. `lost_since` is
a history variable: when the message that lost the estimate was dispatched.

**Brightness.** The state is the object's, the schema's, and repowerd's as its
proxy sees it. `set_brightness_global` asks Unity.Screen for the brightness
(`sent`) and writes the schema, whose change is reported inside the call and sets
the percentage; a write of the value that the key has already may be reported or
not. Unity.Screen belongs to repowerd, so `sent` is what the *running* repowerd was
last asked for: nothing when it has just started. A restart of repowerd forgets its
bounds; the answer with the new ones restores the saved brightness, or saves the
hardware's default in the user's first session. When repowerd stops, the proxy reports its property as 0 before it
reports the owner, as GDBusProxy does. Percentages are exact fractions here, not
doubles.

**KeepScreenOn.** A change of the action's state is a toggle, whatever state was
asked for. Each of the two calls fails without effect, or takes effect with its
reply lost. Unity.Screen may restart and forget its requests; the service may
restart and forget its cookie. `held` are the requests that keep the display on;
the history variable `unheard` has those whose cookie was never heard, or whose
process is gone.

**Flashlight.** Five kinds of torch: none, one file, a brightness file with and
without a switch, and a camera behind Android's provider. A toggle first reads
the action's state, then writes; for the switched kind the order in which the
two files are written, and that the second file may fail to open, are kept. A
driver may ignore what is written; a file may fail to open; the camera provider
is looked for once, and its clients die with it; the torch may go out by itself.

**SettingsSection.** Extends the two and adds the auto-brightness switch, bound
by a property of the brightness object to a key of the schema that other programs
write too, and the section's items, which are rebuilt when repowerd has answered
whether the phone can adjust its brightness. The service may be restarted at any
moment.

## 3. The runs

| run | instance | what it asks |
| --- | --- | --- |
| `notifier` | 2 batteries, 2 notifications, charges 2.0, 10.0, 10.1, two kinds and two states | the inductive invariant's parts (but for the types), four action properties, the refinement of `LowBatteryWarning`, and that a closed warning ends; 279216 states |
| `provider` | a device, a thermometer, the composite device; calls time out, removals go unheard; 2 starts of UPower, 2 messages waiting | what holds whatever fails; 53429 states |
| `provider_live` | 1 path, 2 charges, 2 starts, 3 messages waiting; calls do not time out | no ghost and no lost device; devices are listed and unlisted in the end; the table has their last charge once all is quiet; 93809 states |
| `primary_device` | every list of up to 3 of 37 devices | the documented criteria; the order matters only in ties; the merged battery is the one the comment describes; 52060 states |
| `service` | 2 UPower devices, the mock battery, merged batteries, 2 notifications, exports that fail | nothing shown is stale, the primary device is watched, warnings are deserved, a new battery is warned of, nothing is left behind, and the whole implements `LowBatteryWarning`; 448508 states |
| `device` | a battery in 25 readings and a mouse, a clock of 90 s | the age of a lost estimate, three texts that agree, honest icons; 168581 states |
| `brightness` | 2 kinds of hardware (0 to 2, 1 to 5), 2 starts of repowerd | each repowerd is asked for the saved brightness once its bounds are known, and where the slider stands then; repowerd never changes what is saved; 50670 states |
| `settings_section` | all five torches, 3 cookies, 2 starts of the camera provider, restarts of the service | the display's request can be taken back, an off switch means a dark torch, switches agree with what they stand for; 299520 states |
| `bus_discharging`, `label_ageing`, `primary_order`, `brightness_restore` | | violations, see section 6 |

**Bounds and why they are enough.** Two batteries are what it takes to replace
one by another; two notifications, one shown and one replaced with its "closed"
still in flight. With three, which lets a second replacement come before the
first "closed", the safety properties were explored once (162450 states up to
symmetry), and the proofs hold for any number. The charges lie on a threshold,
below another and just above. Two starts of UPower are one restart with messages and calls of the old
instance still around; `MaxInbox` limits how many *unsolicited* messages wait at
once (replies are not limited), three being enough for UPower to vanish, to come
back and to say something about a device before the provider has seen any of it.
The parts of the provider's inductive invariants were explored with two devices
besides (1.7 million states). Three devices are what a comparison that is not
transitive, or not antisymmetric, needs to show; each list also arises in every
order; of the batteries in them two may be idle while a third discharges, so that
a sum of times differs from the longest, and one may be empty. In `service` one battery alone is low (10.0%), two batteries are not
(10.0% and 12.0% averaged), so merging and splitting changes the warning. In
`device` the clock passes both thresholds of the label and goes on for half a
minute; readings lie on either side of an hour, of a day and of "no estimate". Three cookies
are one held, one unheard and a fresh one; two starts of the camera provider are
one restart with a client of the old one. Permutations of interchangeable model
values are a symmetry of `service` alone; runs that check liveness use none.

**Deadlock.** The check is off where the system may stop: the provider when it is
disposed of and its bounds are used up, the service after it lost its name, the
brightness object when it is disposed of and repowerd is not started again.

**Fairness.** Only in `notifier` and `provider_live`. In `notifier`: a signal that
was sent is dispatched by the main loop, weakly fair for each notification. In
`provider_live`: the main loop dispatches messages (`Dispatch`) and timers
(`on_queued_paths_timer`), and each call is answered or fails: the calls are made
with the default timeout (-1), after which GDBus reports an error. Nothing is
assumed of UPower's starts and stops, of devices, or of the user.

## 4. The proofs

All constants are arbitrary: any batteries, notifications, charges, paths, any
number of restarts and of waiting messages, lists of any length. Every inductive
invariant was first checked by TLC as an invariant of the same instances. Every
invariant and action property that a passing run checks is a theorem, and so are
both refinements.

**NotifierProofs.** `NotifierInv` (types; `WarningMatchesScreen`, which is that a
warning is tracked, honest and the only one on the screen;
`WarnsOnlyWhenEndangered`; `MirrorAgrees`) is inductive as it stands. One lemma
states what `notification_show`, `notification_clear` and
`on_battery_property_changed` each do to the tracked state; every action is one
of these with other arguments. From it follow

* `Safety`: the invariant, with its parts `TypesHold`, `BusAndScreenAgree`,
  `BusAndBatteryAgree` and `WarningIsDue`: a warning is up only while the watched
  battery is low and discharging;
* `WarnsOnlyForAReason` and its converse `WarnsWhenItWorsens`: a new warning about
  the same battery needs a worse level or the start of discharging in that very
  step, and each of these brings one up unless there is no server;
* `LateClosedHarmsNobody`: the end of a replaced notification leaves its successor
  alone; `DisposedForGood`, from `DisposedInv`: a disposed notifier watches and
  shows nothing, so that no late signal finds anything to change;
* `Implementation`: every behaviour of `Notifier` is one of `LowBatteryWarning`
  under the mapping watching = there is a battery, level = the remembered level,
  warning = IsWarning. `MirrorAgrees` is what makes the remembered values those
  the abstract specification compares with.

**UPowerProviderProofs.** The difficulty is that the provider's state
(`subscriptions`, `bus`) lags behind the bus: what a callback finds depends on
messages sent long before. `OrderInv` gives each message an owner before and an
owner after it (NameAppeared: from 0 to the owner; NameVanished: from the owner
to 0; all others: the same). Then the queue is a path: the first message starts
at the owner that the provider is subscribed to (`InOrder`), each next one where
the last ended, and the last one ends at UPower's present owner (`EndsAtOwner`);
all but NameVanished come from a running UPower (`SentByOwners`) and none come
after disposal. So a reply or a signal is never dispatched without an owner,
which is what `TableInv` needs:

* `QueueIsServed`: a queued path has its timer, and the timer its bus connection
  (`p->bus` at line 187 is never NULL);
* `TableFollowsOwner`: without an owner nothing is listed, queued or subscribed
  to, no matter what was in flight;
* `ListenersKnowTheTable`: whoever listens has read the table as it is;
* `IgnoredStayOut`: thermometers and the composite device are never listed. The
  invariant behind it says that they are not asked for, and that no reply about
  one is on its way;
* `TypesHold`.

What the table holds builds on these. `NamesInv` says where news of names stand
in the queue: a provider that is not subscribed to the running UPower has its
NameAppeared still ahead, one that is has no news of names ahead, and no name
change precedes a waiting DeviceRemoved.

* `GhostsVanish`, if no removal goes unheard. Its invariant `GhostInv` looks
  ahead: of a device UPower lacks, the table's entry and each reply in the queue
  that would bring one back are followed by a message that takes it off.
* `NobodyIsLost`, if calls do not fail. `LostInv` says that a missing device is
  queued, asked for or brought by a message; it needs `ReturnInv`, that a waiting
  DeviceRemoved about a device that is there again is followed by the message
  that has it asked for again.
* `QuietTableIsRight`, if neither happens: when nothing is on its way and no timer
  runs, the table holds UPower's devices with the charges it last told. The
  charge may be wrong meanwhile in many ways: a reply computed before a change may
  be dispatched after it, a device may leave and return with another charge while
  its old entry is still listed. `ChargeInv` says of each device that either the
  table is right and nothing outdated is waiting, or something is still to come
  that puts it right, and nothing after that undoes it: a message with the charge
  as it is now, or one that makes the provider ask again, or a path in the queue
  or a call that is unanswered. Each message is judged by what it does to one
  device (`Takes`, `Refreshes`, `Corrects`, `Outdated`), and `DispatchEffect` is
  the one lemma that looks into the callbacks. With nothing on its way all the
  alternatives but the first are empty.

**DeviceProofs.** `TimerIsRight`: between messages the timer's age is that of the
message that lost the estimate, though it is looked at after each property. The
invariant `EstimateInv` speaks of the device as it will be when the message is
taken over (`TakenOver`): if it lacks an estimate before and after, so do all
devices half-way, because each takes its kind, state and time from the two; so
the timer is never stopped in between. A message that loses the estimate may
start and stop it, but only at the present time. From it, `TextsTellTheSame`: that
the three functions agree rests on `hours * 60 + minutes` being the time in minutes
in each of the two ways they are told, and on hours being 0 exactly below an hour.
`IconsTellTheTruth` is about tables in the code (`device.c:346` and on): each is a
chain of comparisons of which the first that holds decides (`LookupFirst`,
`Closest`, `Fallback`), and `NamesAre` lists the names for each kind of device;
what is left is arithmetic on the row's bounds.

**BrightnessProofs.** `ParamsInv`: known bounds are those of the repowerd that
runs, and whoever knows or awaits them has a proxy and a repowerd, so that what is
restored is also sent, to that repowerd. Then `BacklightIsRestored`: after each
restart the new repowerd was asked for what is saved (another program's write to
the schema sets no backlight, in the code as in the theorem);
`RestartsKeepWhatIsSaved`; and `SliderIsCurrent`, which says where the slider stands
whether or not GSettings reports writes that change nothing. `BrightnessStaysInRange` is the types: a percentage
converted to a brightness and back stays within its range for any bounds, which
rests on two lemmas about truncating division (`QuotientBetween`,
`PercentageType`) and on the percentages that can be asked for.

**PrimaryDeviceLemmas, PrimaryDeviceProofs.** The sums of a merged battery, and
the head of the sorted list, are defined by recursion over sets of positions and
over ranges of a list. The library's induction theorems, which take a predicate,
cannot be used here; `LeastNumber`, `NumberInduction` and `SubsetInduction` state
induction for a *set* instead, and are proved from the well-foundedness of strict
inclusion between finite sets. `FoldExists` gives the function that a recursion
describes, after which `SumUnfolds`, `MergeUnfolds` and `HeadUnfolds` are its
equations. On these rest, for lists of any length,

* `PrimaryIsChosenByTheCriteria`: `HeadIsBest` shows that a merge sort's head is
  best by any order that the comparison respects; `CompareKeepsPreference` that it
  respects the documented one, though it is itself no order;
* `OrderOfTheListOnlyBreaksTies`: two lists that differ by a swap of neighbours
  have the same merged battery (`ReorderedTotal`) and best devices of the same
  interest;
* `MergedAsDocumented`: the loop's merged battery is `DocumentedTotal`. `TallyUnfolds`
  unfolds the loop; `IsTally` says what its variables hold when it has seen a set of
  the batteries (counts, maxima and sums over the part of each class seen so far);
  `TallyBegins`, `TallyContinues` and `TallyIsComplete` carry that through the loop,
  with `SetGrows` for what one more battery does to a count, a maximum and a sum. All
  that is proved of merged lists elsewhere goes through this lemma
  (`TotalIsDocumented`), since a set of batteries has no order.

**SettingsSectionProofs.** `RequestIsTakenBack` (the switch is on exactly while it
has a cookie, and no other heard request is held), `SwitchIsTrue` and
`OnlyTheSwitchLights` for the torch, `SwitchesFollow`. The torch's theorems hold
toggle by toggle, because the state is read again at each.

**PowerServiceProofs.** `EverythingIsTakenDown`: `HeldInv` ties the notification
on the screen to the one the notifier holds, so that clearing it clears the
screen; `EndInv` says that after the end no callback runs that could bring
anything back. It holds for any set of failing exports.

The other theorems are about a running service between callbacks, so the invariant
has to say what holds *during* them. `ServiceInv` has six parts. `ShownInv`: what
is shown and watched is current (`Current`) unless the callback that is running
still has to emit for the provider in use. `CallbackInv` and `DevicesInv`: a
callback changes a device of its own provider, and devices are what they say they
are, so the callback of a provider that is not in use cannot disturb what is
shown. `WatchInv`: the notifier knows the watched battery (`Knows`) as long as
that is a battery. It does not hear of a change of kind, so `KindInv` is needed:
a kind that is still to be set on the watched device makes it no battery, and it
will be dropped by the emission. `WarningInv`: a warning speaks of what the
notifier remembers. Then, with what `PrimaryDeviceLemmas` has about choosing and
merging lists of any length,

* `NothingShownIsStale`, `NotifierWatchesPrimary`, `BusTellsOfPrimary`,
  `NoWarningWithoutDanger`: what is shown, watched, published and warned of between
  callbacks is the primary device as it is;
* `NewBatteryIsEvaluated`: a battery that is handed over and worse off than the
  last is warned of in the same step;
* `Implementation`: providers, service and notifier together implement
  `LowBatteryWarning`. Each step of the service is `Watch` or `Unwatch`
  (`on_devices_changed` with another battery, or the end), `Change` (one property
  of a message, as the notifier hears it), `End`, or invisible. `IsWarningInv`, that
  IsWarning says whether a notification is held, is the strengthening it needs.

**Assumptions.** Those named in the modules: `NULL` is no battery, notification,
reading or set of bounds; charges are within 0..1000 tenths; the composite
device's path does not look like a thermometer's; repowerd's bounds differ and
its default lies between them; Unity.Screen's cookies are positive (0 would be
taken for none); the objects of UPower's devices, the mock battery and merged
batteries are different, none of them is `NULL`, and there are two objects for
merged batteries, so that a new one can differ from the watched one. Three
theorems about the table (`GhostsVanish`, `NobodyIsLost`, `QuietTableIsRight`) carry
an assumption of their own, given above.

**Only model-checked.** Liveness, which is out of reach of TLAPS 1.4.5 together
with `ENABLED`: `ClosedWarningEnds`, `DeviceIsListed` and `DeviceIsUnlisted`.

## 5. Not modelled, and limits

* The wording, icon and sound of notifications; padding and translation of texts;
  names of icons in a theme other than the charge and state they stand for.
* Menu items that never change, and actions that only start other programs.
* The lookups of `utils.c` and `datafiles.c`; the tests, which were read as
  statements about the program.
* The parcels of the binder calls and the search for a file in sysfs: which torch
  there is, is a choice.
* The translation of D-Bus data into C values. Messages of UPower are assumed
  well-formed. A device without a Model property is given an uninitialised
  pointer as its model (`device-provider-upower.c:113`); no property depends on
  the model.
* Cancellation: a cancelled call's callback only returns, so it is modelled as no
  callback at all.
* When the bounds arrive, the slider is brought up to date only if the write of the
  saved brightness, which is the value that the key has, is reported; nothing in the
  code makes sure that it is, so `PercentageIsCurrent` allows it to stay at 0 until
  something else is reported. Equal bounds, which would divide by zero, are excluded.
  When repowerd stops, the slider's percentage may be negative until its bounds are
  forgotten. The slider is moved within 0 to 100%: `on_brightness_change_requested`
  (`service.c:662-671`) passes any number on that another program sends as the
  action's state, and what that saves is not modelled, so `TypeOK` speaks of requests
  within those limits only.
* `TotalIsAsDocumented` takes the comment `service.c:1472-1479` to speak of batteries
  with some charge left where it speaks of percentages, as the code does
  (`service.c:1504`): it shows that the exception is kept to everywhere, not that
  there should be one.
* The averages of merged batteries are truncated to tenths of a percent; they are
  exact for the charges of the instances. A merged battery is a new object each
  time, so the age of its lost estimate starts anew with each devices-changed, and
  a warning about it is taken down by the next devices-changed, though it is as
  low as before: it is another battery, and no worse than the last
  (`LowBatteryWarning`'s `Watch` says so).
* `NoGhost` is checked, and proved, with `RemovalsUnheard = FALSE`: UPower does not
  drop a device in the short time between its start and the provider's
  subscription to its signals. With TRUE, TLC shows a ghost: the reply to a GetAll
  that was still meant for the old UPower is given by the new one, which then
  drops the device before the provider has subscribed; EnumerateDevices only adds
  devices, though the comment at `device-provider-upower.c:478` says "rebuild our
  devices list".
* `ScreenMaySleep` leaves out requests whose reply was lost: nobody has their
  cookie, and they keep the display on until Unity.Screen restarts or notices that
  the service ended. After a restart of Unity.Screen the switch stays on with
  nothing held; the next toggle calls for a request that is no longer there.
* `OffMeansDark` leaves out drivers that ignore what is written (the code does not
  look at what a write achieved) and torches that an earlier process left on. A
  camera provider that restarts leaves the service with a dead client, and one
  that was absent at the start is never looked for again. The flashlight's warning
  item goes by the state before the last toggle, so no property claims it.
* `IconsAreHonest` has a gap the code has: between 20.1% and 20.9% the preferred
  icon shows 20, while the fallback shows 40. It leaves out line power and
  monitors, whose icons show no charge.

## 6. Where the code and its documentation disagree

* `bus_discharging`: after the battery is gone `IsDischarging` keeps its last
  value; set_battery (`notifier.c:617`) resets PowerLevel and IsWarning only.
  Battery.xml describes it as "Whether or not the battery is discharging".
* `label_ageing`: a TimeToEmpty or TimeToFull of 0 is ignored
  (`device-provider-upower.c:329`), so the panel goes on telling a time that was
  withdrawn; this is what the run shows. The comment at `device.c:785` has the time
  told only "if estimable". The other half of that comment is not kept either, though
  the run stops before it comes to that: nothing rebuilds the header as time passes,
  so a label that says "estimating" stays, where it should change to "unknown" after
  30 seconds and to nothing after a minute.
* `primary_order`: two devices charging for an unknown time compare as 1 both
  ways (`service.c:245`), so the list's order decides, whatever their charges. In the
  run these are two batteries, one at 6% and one at 0%; they are not merged, because
  one at 0% does not count. `test-device.cc:1005` reverses lists "to confirm that list
  order doesn't matter". (`ListOrderDoesNotMatter` speaks of lists without equal
  charges only: between equal devices the order has to decide.)
* `brightness_restore`: while repowerd's bounds are unknown, at the start or
  during its restart, the slider's percentage is converted to 0
  (`brightness.c:195`) and saved, over what the previous session had saved. When the
  bounds arrive, 0 is restored: it is neither the brightness that the previous
  session saved, of which `brightness.c:256` says "restore the previous session's
  brightness", nor the one that the user has chosen since, which the property would
  accept as well.

Not checked by a run: batteries at 0% are not counted (`service.c:1504`), so one
charged and one empty battery are not merged, unlike the comments at
`service.c:1474` and `service.c:1568` say; MockBatteryMinutesLeft is stored as seconds
(`testing.c:180`), though `tests/manual:6` speaks of minutes; PowerLevel is ""
until the first battery is set, a value `Battery.xml` does not list.

## 7. Plan

Done: all components that keep state, their compositions within the process, the
abstract specification of warnings, and the proofs of section 4. Left:

1. `PowerService` with the queue of `UPowerProvider` in place of "any message at
   any time": a refinement showing that the provider implements the environment
   that `PowerService` assumes.
2. The icons and texts of `Device` in the service's header, in place of the
   properties they depend on.
