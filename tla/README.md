# A TLA+ model of prl_nettool

`prl_nettool` is the program that Parallels/OpenVZ guest tools call inside a guest
to list and to change its network configuration: `prl_nettool [get] ...` prints it,
`prl_nettool set --ip <MAC> <addr> --gateway <MAC> <gw> ...` changes it. It is a
sequential C program, started once for every change, and most of what can go wrong
lies between invocations (two at the same time, one killed half-way), between the
program and the system (adapters that appear late, scripts and `netsh` that fail) and
between the many small rewrites of the same files within one invocation.

This directory holds TLA+ modules of those parts, TLC configurations that check them
on small instances, and TLAPS proofs. Paths below are relative to the repository
(`src/nettool.c` is its `nettool.c`). `PROJECT.json` lists components, runs,
mutants, the source lines behind every definition, findings, hazards and theorems.

    tlc -config AppLock.cfg AppLock                # check a run
    tlapm AppLockProofs.tla                        # check the proofs of a module

## 1. Inventory

| Component | State | Operations | Hard behaviour | Correct when |
|---|---|---|---|---|
| Application lock, Unix (`nettool.c:596-653`, `exec.c`) | record lock on `/tmp/prl_nettool.lock`, attempts left; the scripts an invocation has running | `single_app_lock`, `single_app_unlock`, `run_cmd` | concurrent invocations, kills, failing `open`/`fcntl`, scripts that outlive their invocation | one works at a time, the lock is never left behind, every invocation ends, no update is lost |
| Application lock, Windows (same lines) | named mutex, its owner, handles, abandonment | the same | abandonment after a kill, 240 s timeout, a wait that fails | the same; nobody works on what a killed run left half-changed |
| Adapter state, Windows (`setnet.c:425-548, 984-1127`, `nettool.c:237-293`) | which adapters are off; the registry list of those turned off | `enable_adapter_name`, `save_adapter_disabled`, `restore_adapter_state`, `enable_disabled_adapter` | kills between two operations, `netsh` and registry failures | an adapter turned off is recorded, and on again in the end |
| Wait for adapters (`netinfo_common.c:254-310`) | device list, polls done | `wait_for_start` and the check of the options after it | late, vanishing adapters; transient failures; a timeout | success only if all requested adapters are there; it ends |
| Setting parameters (`nettool.c:319-532`, `Linux/setnet.c`, `Linux/scripts/`) | option list, per-adapter flags, configuration files | `apply_parameters`, `set_dhcp`, `set_ip`, `set_gateway`, `set_dns`, `set_route`, ... | seven phases of scripts that rewrite each other's files; failing scripts; stale flags | the stored configuration is the one asked for; other adapters are untouched; failures are reported |
| Option parser (`options.c`) | option list | `parse_options`, `add_set_opt`, `get_opt_mac` | repeated options, early return of `--all` | the list says what the command line says |
| Name lists (`namelist.c`) | lists of strings | `namelist_split`, `namelist_compare`, ... | substring comparison | equal iff the same names |
| Comparison (`nettool.c:60-235`) | `changed` flags | `is_equal_*` | values reported by the kernel, not the files | only what is as asked is spared |
| Device lists (`Linux/netinfo.c`, `netinfo_common.c`, `BSD/netinfo.c`, `netinfo.c`) | `netinfo_head` | `get_device_list`, `netinfo_new`, `netinfo_add`, `netinfo_search_*` | five netlink dumps while links and addresses come and go; dumps that fail; two devices with one MAC | an adapter that is named and there is found |
| Settings, BSD (`BSD/setnet.c`, `rcconf*.c`, `rcprl.c`, `resolvconf.c`, `netinfo.c:92-160`) | `/etc/rc.prl_nettool` as a list of items, its sublist of routes, the lines of `/etc/resolv.conf`; the kernel's default gateways; DHCP flags in memory | `set_ip`, `set_dhcp`, `set_gateway`, `set_route`, `set_dns`, `set_search_domain`, `set_hostname` over load, get, set, save | files rewritten in place, items moved between lists, results nobody looks at, a command that fails between two stores | what a successful call stored is what the next load yields, after any earlier kill; nothing else changes; kernel and files agree |
| Other Linux scripts (Debian, SUSE, netplan, NetworkManager) | configuration files | `*-set_*.sh`, `netplan-cfg.py` | moves through a backup directory, crashes | as for Red Hat |
| Settings, Windows (`setnet.c`) | addresses, servers, gateways and routes of the adapter; names and the search list in the registry | `set_dhcp`, `set_ip`, `set_gateway`, `set_dns`, `set_route`, `set_hostname`, `set_search_domain`, `restart_adapter` over `netsh` | `set_dhcp` and `set_ip` look at each other's options; commands that fail, kills between two of them | as for Linux; no address is missing without an error; names change in a safe order |
| Report (`nettool.c:534-594`) | none | `print_parameters` | `--all`, kinds asked for with and without a MAC | what was asked for is printed |
| Detection, logging, build files | none | | | |

How they interact. `main` parses the options and calls `do_work` (`nettool.c:655`),
which takes the application lock, restores the adapters an earlier run left off
(Windows), waits for the requested adapters, calls `apply_parameters` and exits.
`apply_parameters` lists the devices, drops options of devices not listed, decides
which adapters change, and calls one handler per option in the fixed order of
`all_flags`; on Linux a handler runs a shell script by `system()`. Invocations share
the lock, the configuration files and, on Windows, the registry list.

## 2. Modules

| Module | Models | State ↔ code |
|---|---|---|
| `Mutex` | abstract: who is between `single_app_lock()` and the end | `inside` |
| `AppLock` | the Unix lock, invocations and their scripts | `pc`: place in `single_app_lock`/`do_work`; `count`: the loop counter; `guard`: whether the invocation holds the lock or has gone on without it; `lockOwner`: the kernel's record lock; `script`, `snapshot`, `config`: the copy-edit-rename of `put_param` (`scripts/functions:60-82`) |
| `WinAppLock` | the Windows mutex | `owner`, `handles`, `abandoned`: the kernel object; `pc`: the wait and its outcomes |
| `AdapterState` | turning adapters off and on, the registry list, restore | `up`, `reg`; `phase`, `todo`: the run's loops; `act`, `cur`: the operation inside `enable_adapter_name`; `disabled`: `netinfo.disabled` |
| `WaitForStart` | `wait_for_start` and the exclusion of options after it | `present`: what the system lists; `list`: `netinfo_head`; `polls`: the attempts |
| `Options` | `parse_options`, a turn of its loop at a time, and the list it builds | `argv`, `argn`: the rest of the command line; `action`, `flags`, `macs`, `compare`: `net_opts`; `pc` |
| `NameList` | `namelist_add`, `_search`, `_compare`, as operators on sequences | a sequence: `namelist`; `Part`: which names are substrings of which |
| `LinuxDevices` | the five netlink dumps of `get_device_list` on Linux and the list made of them | `kernel`, `guest`: what is really there; `dump`, `step`: the dumps so far; `netinfo`: the list |
| `Compare` | composes the three above: parser, device list, then `print_parameters` or the `is_equal_*` functions of the set loop | `changed`: the flags; `printed`: what has been printed |
| `Ifcfg` | what each Red Hat script leaves in an adapter's files, as operators on a record | fields: the keys of `ifcfg-<name>`, its alias files |
| `ApplyParameters` | `apply_parameters` and the Linux handlers over `Ifcfg` | `opts`: `net_opts.macs`; `changed`, `dhcp4`, `dhcp6`: the `netinfo` flags; `cfg`, `routes`, `dev6`, `dns`: the stored configuration; `phase`, `at`, `i`, `word`: the loops; `rc`, `rc2` |
| `ScriptFiles` | `redhat-set_ip.sh` and `redhat-set_dhcp.sh` file by file, over `Ifcfg` as the statement of what they do | `main`, `alias`: the files in use; `bak`: the directory; `pc`, `word`, `half`: the place in the script |
| `Settings` | abstract: values under keys and a list of routes, of which a step changes only what is asked for | `conf`, `routes`; `want`: the request; `damaged`: a write was cut short |
| `RcConf` | the operations of `rcconf.c` and `rcconf_sublist.c`, as operators on sequences of items | an item: `struct rcconf_item`; keys `<<"route", n>>`: `prl_route_<n>`; `ListKey`: `static_routes` |
| `ResolvConf` | the operations of `resolvconf.c`, as operators on the lines of a file | a line: `struct resolvconf_line`, read; `ended`: a final newline |
| `BsdSettings` | the handlers of `BSD/setnet.c`, in the order `apply_parameters` calls them, over the two modules above | `rcFile`, `resolv`: the files; `kernel`: default gateways; `flags`: `configured_with_dhcp`, `_dhcpv6`; `pc`, `op`, `at`: the place in a handler; `phase`: the place in `all_flags` |
| `WinSettings` | the handlers of `setnet.c` as lists of commands, in the order `apply_parameters` calls them, and the restart at the end | `win`: the adapter and the registry; `opts`: the options by kind; `found`: `netinfo` as listed; `differs`, `restart`: its flags; `phase`: the place in `all_flags`; `todo`: the commands the handler still has to run; `rc2` |
| `MC*` | constants, symmetry and command lines for TLC | |
| `*Proofs` | theorems and proofs about the module of that name | |

`AppLock` and `WinAppLock` are both shown to implement `Mutex`
(`M == INSTANCE Mutex WITH inside <- Inside`), and `BsdSettings` to implement
`Settings`, whose `conf` and `routes` are what loading the file yields. `ScriptFiles`
implements the operators of `Ifcfg` in the sense of `EndsAsAsked`; `ApplyParameters`
uses these operators as atomic steps. `AdapterState` models one run at a
time and rests on `WinAppLock` for that; both builds are considered, by a variable
that never changes (`longhorn`; `build` in `WaitForStart`). `ApplyParameters` and
`Compare` model one run, `BsdSettings`, `WinSettings` and `ScriptFiles` runs one after
the other, and they rest on the lock too. Variables commented "history" are in no
program; no guard reads them. Counters such as `faults`, `changes`, `scripts`, `runs`
count against the bounds of the model (`MaxFaults`, `MaxChanges`, `MaxScripts`,
`MaxRuns`), which are named in the `.cfg` files.

What the abstractions keep and leave out:

- `AppLock`: a configuration file is one entry per invocation slot, and a script
  rewrites its own entry: enough to tell a lost update. A script's failure can come
  before or after the copy, never between the rename's parts (`mv` is one rename).
- `AdapterState`: adapters are identified with their names; the registry operations
  are atomic, as `RegSetValueEx` is.
- `WaitForStart`: time is the number of polls. On Windows listing can fail part of the
  way, with an error. On Linux and BSD `get_device_list` always returns 0, and what it
  has read may be any part of what is there (`Readings`): a netlink dump that fails
  leaves the list empty. `incomplete` remembers that the last reading was such a one.
- `Options`: a text of the command line is the sequence of its blank-separated words.
  The build is one with IPv6; `--verbose` and `--debug` only change messages.
- `NameList`: of a name only the relation "is a part of" is kept, because
  `namelist_compare` is `strstr`.
- `LinuxDevices`: the netlink protocol is left out; a dump delivers what is there at
  that moment or nothing. DHCP comes from a script, which may fail.
- `Compare`: what is done to the adapters that differ is `ApplyParameters`.
- `Ifcfg`/`ApplyParameters`: scripts are atomic, with failures before or after their
  change, except `redhat-set_gateway.sh`, which is modelled word by word because it
  stops in the middle; NetworkManager is not running; kernel addresses, the restart of
  interfaces and of netplan are left out. A value is the sequence of its words. Of an
  address of IPv6 the relation `PartOf` is kept, because `add_ip6` asks `grep -qw`
  whether it is in the file already (`redhat-set_ip.sh:142`). In
  compare mode, whether addresses, gateways and name servers differ is a
  nondeterministic set, since it depends on the kernel's state (`Compare` models that);
  the DHCP difference is computed.
- `ScriptFiles`: a file is written in two steps, begun and complete. `mv` within the
  directory is one rename; `rm -rf` and `mv` take the files one at a time, the main
  file first, as its name sorts before those of the alias files. Other adapters' files
  are in `ApplyParameters`.
- `ResolvConf`: a save cut short leaves whole lines and a part of one more: of its
  keyword (`OtherLine`), or of its words, the last of which may be a beginning of the
  word it was (`Begins`; `Blank`: no character of it), or a whole line without its
  newline. The next line that is added runs into such a line, and its keyword into the
  last word (`Garbled`).
- `BsdSettings`: an invocation is a series of handler calls in the order of
  `all_flags`, each for one request; which requests, is up to the environment. A
  request's value is not empty. Between its steps a handler can be killed, a file may
  not open, a command fails, a save is cut short by a full disk (`rcconf_save` does not
  notice, `resolvconf_save` does) or by a kill. Of the kernel only the default gateways
  are kept, not addresses and routes; the section `rcprl_init` puts into `rc.conf` is
  taken to be there. The families DHCP is set for in `rc.conf` itself do not change
  (`MainDhcp`): the program never writes them. `set_gateway` builds its second command
  by an `snprintf` whose buffer is also an argument; the model takes it to keep the
  text, as FreeBSD's libc does. What a handler meets and does not report is in `note`:
  a save cut short, routes that do not fit, a file that does not open in `set_route`, a
  line appended to one without a newline, an adapter skipped because of DHCP, and a
  `set_ip` that returns `-EINVAL` after its save because the value does not fit its
  buffer with the command (`Overlong`), so that the flag of DHCP stays set.
- `WinSettings`: one adapter, the build for Vista and later. A command is done or
  fails; with what code decides, in some handlers, whether the rest is run. Of `netsh`
  the model keeps what each command makes of the adapter and when it refuses (deleting
  an address that is not there, adding one of either family that is). The build defines
  `DEBUG_OPT_COMPARE` (`Makefile.Windows:9`).

## 3. Runs

| Run | Question, bounds | Result |
|---|---|---|
| `AppLock` | 2 invocations at a time, 3 attempts, 2 scripts each, every fault; safety, liveness and the refinement of `Mutex`. Slots are reused, so any number of invocations follow each other; 3 attempts are a first, a middle and a last one; the safety properties are proved for any number of slots. 218,000 states, a minute | passes |
| `WinAppLock` | 3 invocations, every fault: an abandonment with two waiters and one who comes after | passes |
| `AdapterState` | both builds, 2 adapters, up to 3 faults of four kinds: a kill, a failing restore and another kill fit, and so does a fault on each adapter. 187,000 states | passes |
| `WaitForStart` | both builds, 3 devices that come and go, 2 requested, 6 polls: an adapter may appear before, between and after any of them; any reading may leave out any devices. 2,600 states | passes |
| `WaitForStart_index` | Unix, a requested MAC beginning with `00:` | violated |
| `Compare` | `get` and `set` with up to three options in every order, one to three of them out of place or incomplete, 4 devices of which three share a MAC, one change of the kernel's state between any two dumps, every dump and script failing or not. Three options are two that merge or hide one another and a third that must survive it. 1,004,000 states, two minutes | passes |
| `ApplyParameters` | every set of up to 3 of 17 options in one order, 3 initial configurations, both modes, every script failing or not, `eth1` next to `eth10`, an address of IPv6 that is a part of another before and after it. Three options cover every pair of phases and one more that could undo them; `--ip` also without addresses. 856,000 states, half a minute | passes |
| `ApplyParameters_gateway_order` | up to 2 options in every order | violated |
| `ScriptFiles` | 3 scripts one after the other, of 13 requests, on an adapter that is configured, uses DHCP or has no file, with a kill or a full disk at any step: one that dies, one that starts from what it left and may die as well, one that repairs. Three addresses of IPv6 of which each is a part of the next, in rising and falling order. 38,900 states; proved for any number | passes |
| `BsdSettings` | 4 initial `rc.prl_nettool` (none, empty, in use, cut short), a `resolv.conf` with a final newline and without, two servers of which one is a beginning of the other, an overlong value, up to 3 handler calls in one or more invocations, one fault of any kind at any step, 2 routes and 3 lines as the limits. Three calls are a setting, one that could disturb it and one that could repair or double it; after one fault two calls still follow. 578,000 states, two minutes | passes |
| `WinSettings` | every combination of `--dhcp`, `--ip` and `--dns` with 3, 8 and 1 values, an address of either family given twice among them, gateways given once and twice, names valid and not; two runs one after the other, one fault of any kind at any command: a run that fails or dies, then one that starts from what it left. 1,980,000 states, 25 seconds | passes |
| `WinSettings_search` | one run, no fault | violated |

Deadlock is checked but in the models of runs of the program that end
(`WaitForStart`, `ApplyParameters`, `Compare`), and where nothing has to call the
program again (`BsdSettings`, `WinSettings`, `ScriptFiles`).

Every property of a passing run is also checked against a mutant: an operator of the
module, commented `MUTANT of ...`, that stands for a plausible bug of the code and
violates it. The runs do not repeat invariants that the other properties and the proofs
make superfluous: the type invariants, `AppLock!MutualExclusion`,
`AppLock!LockNotLeaked`, `WinAppLock!MutualExclusion` and `WinAppLock!FreshWhenUnused`
are proved (section 4).

What a few of the properties say beyond the obvious:

- `NoLostUpdate` holds only for runs in which every script ran under its invocation's
  lock. A record lock is not inherited by the script, so a kill frees the lock while
  the script still runs; `overlapped` records that, and without this premise the
  property is false. The code does nothing about it.
- `GiveUpOnlyIfOwned`: exit status 2 means that a *live* invocation owned the lock at
  the last attempt.
- `DoomedNeverWork`: everybody who waits when an owner is killed leaves with status 2.
- `LeftDownOnlyIfRefused` has two halves: a run that is not killed needs no working
  registry, since it has its marks in memory; with a working registry kills do not
  matter. When a run was killed *and* the registry failed, the adapter stays off.
- `ReadyMeansListed` allows for one thing on Windows: entries that a failed poll has
  left in `netinfo_head` count as listed, and the device may be gone by then.
- `GivesUpOnlyIfMissing` and `ReadyMeansKept` except a reading that left devices out,
  each at the one reading where it matters: the last poll, and the reading that follows
  the wait. That *earlier* polls may be as bad is no exception: the wait goes on.
  `ReadyMeansListed` needs none, since a reading never invents a device.
- `AddressingAsAsked` allows one address to be missing: one of IPv6 that is a part of
  another which is there. Which of them `add_ip6` writes depends on their order; that
  going through the words file by file comes to the same is `EndsAsAsked`.
- `OptionsAsGiven` compares the list the parser builds, newest first and with `--dhcp`
  and `--dhcpv6` merged, with the command line as it was meant, for lines in which
  every option has its texts and no adapter is told `--dhcp` twice.
- `NamedIsHandled` spans parser, dumps and set loop: an adapter that was there when the
  links were dumped is in the list under its MAC, whatever came or went between the
  dumps and however many devices share the MAC, and is marked to be changed.
- `SparedIsAsAsked` relates what is spared to what is really there rather than to what
  was dumped; two names of which one is a part of the other are excepted.
- `GatewaysAsAsked` and `RoutesAsAsked` (Linux) are about the order of `all_flags`:
  each script erases what an earlier phase might have written.
- `OldOrNew` is claimed of *every* moment, also after a kill, when the script's files
  lie about in part; `EndsAsAsked` of a script that starts from what others left.
- `SuccessIsStored` (BSD) speaks of the *next load*, not of the list that was saved: a
  key that is in the file twice, a list of routes that names a missing item or half a
  line left by a kill would hide a new value from it. It is claimed of calls that have
  nothing in `note`; each of its exceptions is a hazard in `PROJECT.json`. Of several
  name servers in one value only the first is claimed: they go into one `nameserver`
  line, of which one word is read, although the usage text (`options.c:43`) says
  `--dns <MAC> <IPs> - set dns servers`.
- `ServersOnce` (BSD) is about the lines that end in a newline. A kill while `nameserver
  10.0.0.11` is written may leave `nameserver 10.0.0.1`, the address of a server that is
  listed already; with the next line that is added it becomes a line of two words.
- `ImplementsSettings` (BSD): the route items are deleted at load and renumbered at
  save; in between a save may be cut short. A route is never doubled or turned into
  another one, and either all routes are lost to a cut or none.
- `AddressesAsAsked`, `ServersAsAsked`, `GatewaysAsAsked` (Windows) are claimed of a run
  that meets no fault and starts from whatever an earlier one, killed or not, has left.
  `NoAddressSilentlyMissing` is claimed whatever fails.
- `DhcpIsRestarted` holds because of a debug option: the flags that ask for the restart
  are set in a comparison that is short-circuited without `--compare`
  (`nettool.c:403-405`), were it not for the `#ifdef DEBUG_OPT_COMPARE` that evaluates
  it first. Its mutant leaves the `#ifdef` out.

### Fairness

- `AppLock`: weak fairness of every invocation's own steps and of every script's. The
  kernel schedules both; that a script terminates is an assumption (the scripts have
  no timeout). Nothing is assumed of `Start` and `Kill`, nor of who wins the lock.
- `WinAppLock`: as `AppLock`; no wait has to fail. That the work under the mutex ends is
  not assumed: `EveryWaitEnds` follows from the timeout alone.
- `AdapterState`: weak fairness of `Run`, that is, a run continues until it is killed
  and after a killed run there is another one. The guest tools run the program
  for every change; without another run nothing can restore the adapter.
- `WaitForStart`: weak fairness of the program; none of the devices.
- The other modules are checked for safety only.

### Findings

Where the code differs from what its comments say; each is a run that TLC finds
violated.

1. `WaitForStart_index`: `netinfo_common.c:293` compares each device's `idx`
   with `atoi(MAC)`. On Linux and BSD `idx` is always 0, and so is `atoi` of a MAC
   that begins with `00:` (or with a letter), so the wait ends at once without the
   adapter.
2. `ApplyParameters_gateway_order`: `removev6` is worked off in the pass that sets,
   and so can erase `IPV6_DEFAULTDEV` just set for another adapter.
3. `WinSettings_search`: `--search-domain remove` stores a list with the domain
   `remove` (`setnet.c:379-384`), because the variable that was emptied is not the one
   the list is built from.

What the models take over from the code as it is, and a reader may not expect; the
properties except each of these by name or by a premise:

- an adapter enabled for the sake of an option loses that option:
  `enable_disabled_adapter` never sets `found` (`setnet.c:1046`), so the list is not
  read again;
- `Linux/setnet.c:311` sets the DHCP flags and never clears them; a switch from both
  families to one leaves the gateway and the routes out;
- `redhat-set_ip.sh:160` removes `ifcfg-eth1*`, which are the files of `eth10` too;
- in compare mode a `--route` alone is never applied (`nettool.c:413, 437`), and an
  address that is a part of a wanted one counts as wanted (`namelist.c:187`);
- `--dhcp` three times for one MAC abandons the rest of the line, and twice turns into
  both families (`options.c:412`); a value may swallow a `--compare` that follows it;
- a netlink dump that fails returns 0 with an empty list (`Linux/netinfo.c:424`), and BSD
  does not look at the result of `get_ifaces` (`BSD/netinfo.c:171`): the wait may give
  up with all adapters there, and options may be dropped after it (`nettool.c:336`);
- `redhat-set_ip.sh:142` passes over an address of IPv6 that occurs as a word in one
  already written, with another prefix length or as a part, and reports nothing;
- `redhat-set_gateway.sh:42`: `error()` without a code exits with 0, so that a gateway
  for an adapter without a file is lost and reported as a success;
- BSD: the results of `fprintf` and `fclose` in `rcconf_save`, of the sublist's load
  and of its save are not looked at; a line is run together with a last one without a
  newline (`resolvconf.c:143`), and a cut may leave a shorter address than was written;
  `set_ip` may fail after its save and before it clears the DHCP flag (`setnet.c:63`);
- Windows: `--dhcpv6` with `--ip` of IPv6 on an adapter that has manual ones is
  refused, since they are deleted twice (`setnet.c:212`); `set_dns` takes positive
  failure codes for successes; names are written before the domain is validated;
- `main` takes no notice of what `do_work` returns (`nettool.c:826`).

### Hazards

`PROJECT.json` lists what is hard to test in this code, each at its line, with the
properties that would catch it. Two have none: the wait of up to 300 seconds with the
lock held against the 240 seconds others wait for it, since time is attempts in one
model and polls in another; and the rename in `netplan-cfg.py`, whose scripts are not
modelled.

## 4. Proofs

TLC checks the instances above; the theorems hold for every value of the constants
that satisfies the named `ASSUME`s of the module.

| Theorem | Assumes beyond the named ASSUMEs | Argument |
|---|---|---|
| `AppLockProofs!MutualExclusionHolds`, `LockNotLeakedHolds`, `GiveUpOnlyIfOwnedHolds`, `RefinesMutex` | | `LockInv`: an invocation works with `guard = "locked"` iff it owns the record lock. `MutualExclusion` alone is not inductive: a step could take the lock from an owner not known to be recorded |
| `AppLockProofs!NoLostUpdateHolds` | | in addition, while nothing overlapped, only the owner's script can run, and its snapshot equals the file |
| `WinAppLockProofs!MutualExclusionHolds`, `DoomedNeverWorkHolds`, `FreshWhenUnusedHolds`, `RefinesMutex` | | the owner of the mutex, the open handles and the place of each invocation agree; `Mutex` is implemented step by step, with the abstract owner being whoever is between the wait and the release |
| `AdapterStateProofs!DisabledIsRecordedHolds` | | `RecordInv`: while an adapter is being turned off its name is already in the list, and it is removed only after a successful ENABLE |
| `AdapterStateProofs!LeftDownOnlyIfRefusedHolds`, `RestoredBeforeListingHolds` | | `MarkInv`: an adapter that is off on the program's account is marked, being operated on, refused, or waiting to be restored; that the list read at the start has those a killed run left off is `RecordInv` |
| `WaitForStartProofs!ReadyMeansListedHolds` | `IndicesApart`: no index equals the number of a requested MAC, and on Unix that number is not 0 | entries left from a failed poll are devices that are still there, if none has gone away |
| `WaitForStartProofs!ReadyMeansKeptHolds` | `IndicesApart` | `ReadyInv`: what was found in the poll that ended the wait stays there, if no device goes away, whatever that poll's reading left out |
| `WaitForStartProofs!GivesUpOnlyIfMissingHolds` | | the type invariant: a wait that goes on has polls left; a reading without a fault is all there is, so it misses an adapter only if that is not there |
| `ApplyParametersProofs!TypeCorrect` | | includes that no gateway record is left for an adapter that is not there, which the script's steps need |
| `ApplyParametersProofs!OthersUntouchedHolds` | | an action property from the type invariant: every step changes only the files of an adapter some option names, and of those whose names continue its name |
| `ApplyParametersProofs!FailureReportedHolds` | | `ReportInv`: the status of the set loop is not 0 exactly when a script has failed |
| `ApplyParametersProofs!RoutesAsAskedHolds`, `AddressingAsAskedHolds`, `GatewaysAsAskedHolds` | | `RouteInv`, `AddressInv`, `GatewayInv`: what each phase of `all_flags` that is over has left in the files, and that no later phase undoes it. For the gateways this goes word by word through the value of `--gw` (`Written`), since each word may erase the record an earlier one has written. For the addresses `PassedOverIsPart`: of the words an address is a part of, the first is written, and `PartOf` is transitive |
| `ScriptFilesProofs!OldOrNewHolds`, `EndsAsAskedHolds`, `FailureChangesNothingHolds` | | `IInv` says, place by place, what is in `bak` (`BakInv`: after n words, the files of n words) and in use (`FilesInv`: untouched until `bak` is complete; then without alias files until the main file is the new one). None of the three properties is inductive: that `bak` holds all of the new files when the old ones go is an induction over the words, which is the inductive step of `EndWord`, with `NextWord` and `LastWord` about the list of words. `FoundInFile`: what `grep` finds in the file is what it would find in the words before |
| `WinSettingsProofs!TypeCorrect` | | every list of commands a handler makes consists of commands, and what a command leaves is a system |
| `WinSettingsProofs!DhcpIsRestartedHolds` | | `RestartInv`: the flag a successful `dhcp` command calls for is raised before the restart is decided |
| `WinSettingsProofs!AddressesAsAskedHolds`, `NoAddressSilentlyMissingHolds` | | `AddressInv`: the adapter as it is and the commands still in the list together make up what the options mean (`Plans`: `DhcpSteps` in `set_dhcp`, `IpSteps` in `set_ip`, `Stored` afterwards). Neither property says anything of a run that has not ended, so neither is inductive. Each command done moves its part from the list to the adapter (`InvDone`); one that fails either ends the handler with an error or is one whose failure loses no address (`InvIgnored`, `InvStopped`). This needs the order of the commands (`Order`: the first address of IPv4 replaces the others, deletions come before what is put, the switch to DHCP last), proved of the lists the handlers make by an induction over the words |
| `WinSettingsProofs!ComputerNameLastHolds` | | an action property; `NamesOrdered` of the list of commands still to be run: whoever is before the computer name has been run, since the list only loses its head |
| `WinSettingsProofs!GatewaysAsAskedHolds` | | `KindInv`: the commands left are those of the handler at work. `GatewayInv`: in both passes of the gateways the commands left lead to the gateway meant (`Leads`), whatever the adapter has now: the family's last deletion takes everything and only the wanted one is added behind it. The list is proved to do so word by word and record by record, a record the first pass has handled or that repeats an adapter included |
| `WinSettingsProofs!ServersAsAskedHolds` | | `ServerInv`: the servers as they are and the commands of `set_dns` still in the list make up those meant (`Takes`); up to `set_dns` they are those found, but for the family a switch to DHCP has taken them from. That the list for the whole value takes the servers there follows by induction over its words: a family is emptied by its first word only |
| `WinSettingsProofs!RefusedForAReasonHolds` | | `FineInv`, beside `AddressInv`: each command still in the list whose failure would count finds what it needs when its turn comes - a switch to DHCP an adapter not on it, a deletion its address, an address to be added none like it, there or in the list (`NotTwice`), unless one that replaces all others (IPv4) or its deletion (IPv6) comes first |
| `BsdSettingsProofs!TypeCorrect` | | includes that only a route can leave `rc.conf` without the file between a save and the command after it |
| `BsdSettingsProofs!ServersOnceHolds` | `ListsServersOnce` of every initial `resolv.conf`; a file with a server twice is never cleaned of it | `SetServer` adds a server only if no line names it; a line of one word that is finished by running into the next has two words; what a cut leaves finished are lines that were there (`TornIs`, `RunOnIs`) |
| `BsdSettingsProofs!SkippedOnlyIfDhcpHolds` | | `FlagsInv`: each DHCP flag has its setting in the loaded list, but for the steps between the save and the command of `set_dhcp`, and after a `set_ip` that fails behind its save |
| `BsdSettingsProofs!SuccessIsStoredHolds`, `GatewayAgreesHolds` | | `SuccessInv`: the words before the one in hand are in the file already (`DoneBefore`, `LastBefore`). It rests on lemmas about the list of settings, whatever is in it: what `Load`, `SetItem`, `DelItem`, `Edit`, `Cleaned` and `SubListSave` make of the value of the key they are called for (`Val`), and that they keep those of all others (`SameBut`) |

Each module with proofs but one begins with its `TypeCorrect`; the typing of
`ScriptFiles` is a conjunct of `IInv`. Every invariant was first checked by TLC on the
instance of its run, then proved (`GatewayInv` and `ServerInv` in a form that TLC can
enumerate: their `Leads` and `Takes` quantify over lists and functions).

The named `ASSUME`s say what the code takes from outside: that the words of the command
line are none of the values that stand for a file, a setting or a word that is missing,
that a family is IPv4 or IPv6, that initial files consist of lines the loaders can read,
that a part of a part of an address is a part of it (`PartOf`). Of
Windows they say that no address is of both families (the code tells them apart by the
colon), that "remove" and "removev6" differ and are no address and no server or gateway
of IPv6, that "dhcp" is no server, and that an adapter on DHCP has no address of IPv4
by hand.

Inductions over lists are done in set form: the set of places for which a claim fails
has a least element (`Least`, `Induction` of `BsdSettingsProofs`, from `WFMin` and
`NatLessThanWellFounded`), since the library's induction theorems take an operator.
For the same reason `RcConf` and `ResolvConf` build their lists by recursive functions
and not by folds; `FlattenSeq`, which makes the lists of commands of `WinSettings`, is
one too.

Only model-checked:

- everything under fairness (`EveryInvocationEnds`, `LockAlwaysFreed`,
  `EveryWaitEnds`, `EventuallyEnabled`, `WaitEnds`), which the prover does not reach;
- `Compare`'s invariants: the parser and the comparison are folds over the command line
  and the list of devices, and the claims are about their results;
- `BsdSettings!ImplementsSettings`: the refinement holds for initial files that are
  well-formed and have no route twice, and `Settings!Added` selects by a predicate
  (`SelectSeq`), of which the prover knows nothing.

## 5. Plan

Done: the locks, adapter state, the wait, the set loop on Red Hat guests, the BSD
handlers, the parser with the device list, comparison and report, the Windows handlers,
the Red Hat scripts file by file; proofs of all safety properties but those listed
above. Left, in order:

1. Proofs: `ImplementsSettings` with `Added` in a form without `SelectSeq`, as
   `WinSettings` has it (`Selected`); `NamedIsHandled` of `Compare`.
2. Other Linux guests: the NetworkManager variants (one retry on status 8), the
   shared routes file of SUSE, Debian's `interfaces`, `netplan-cfg.py`'s save, the
   generic route commands whose result is that of the last command only.
3. `WaitUnderLock`: `AppLock` composed with `WaitForStart` under one clock.

## 6. Not modelled

- Debian, SUSE, netplan and NetworkManager scripts and the generic route commands
  (plan, item 2); `clean` and `restart`, which run one script each.
- The Windows XP branches of `setnet.c`, and how `netinfo.c` reads adapters from system
  tables: the lists are inputs of `WaitForStart`, `AdapterState` and `WinSettings`.
- The kernel's addresses and routes on BSD, the section `rcprl_init` adds to `rc.conf`.
- Distribution detection, logging, and the reading of sockets, netlink messages and
  system tables: they keep no state, and what they deliver is an input of the modules.
- The unit tests under `BSD/test` with their vendored framework `cheat.h`, and the
  build files.
