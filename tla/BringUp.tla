------------------------------ MODULE BringUp ------------------------------
(***************************************************************************)
(* How the kernel modules come up and go away: the SPEC's PCI driver       *)
(* (spec-pci.c, spec-fmc.c, spec-i2c.c), the fake carrier                  *)
(* (fmc-fakedev.c), the FMC bus (fmc-core.c, fmc-match.c, fmc-sdb.c) and   *)
(* its drivers (wr-nic-*.c with wr_nic/device.c and endpoint.c,            *)
(* fmc-chardev.c, fmc-trivial.c, fmc-write-eeprom.c), while interrupts     *)
(* come in, users use what is registered and the fake carrier replugs      *)
(* itself from a work item.                                                *)
(*                                                                         *)
(* All of this code has one shape: take things one by one, jump to a label *)
(* that gives back what was taken when one is refused.  So a function is a *)
(* record of labels, each a sequence of steps, and the actions below are   *)
(* the kinds of steps.  What is taken is an object <<kind, slot>>; memory  *)
(* contents, register values and messages are left out.                    *)
(***************************************************************************)
EXTENDS Integers, Sequences, FiniteSets

CONSTANT Scenes   \* what may happen on one machine: see SceneAssumption

(* A scene has one carrier, one FMC driver to load and unload, a bound on  *)
(* how often the carrier is created, the mezzanines on it (ff_nr_dev), and *)
(* whether users write the EEPROM.                                         *)
ASSUME SceneAssumption ==
    Scenes \subseteq
        [carrier : {"spec"}, gens : {1}, devs : {1}, writes : BOOLEAN,
         driver : {"wr_nic", "fmc_chardev", "fmc_trivial", "fmc_write_eeprom"}]
        \cup
        [carrier : {"fake"}, gens : {1, 2}, devs : {1, 2}, writes : BOOLEAN,
         driver : {"wr_nic", "fmc_chardev", "fmc_trivial", "fmc_write_eeprom"}]

VARIABLES
    scene,       \* the scene of this behaviour
    live,        \* objects that exist
    stale,       \* objects that are gone but whose pointers may remain
    lost,        \* kinds whose last pointer was dropped while they existed
    cur,         \* ff_current_dev: first slot of the fake carrier, 0 for NULL
    gen,         \* carriers created so far
    stack,       \* per thread, the functions it is in, innermost first
    via,         \* per thread, the registered object through which it was called
    faults       \* uses of objects that are not there: <<function, kind>>

vars == <<scene, live, stale, lost, cur, gen, stack, via, faults>>

Threads == {"adm", "usr", "irq", "wrk"}
None == <<"none", 0>>

(* Carrier number g has slots 2g-1 and 2g. *)
Base(at) == at - ((at + 1) % 2)
AllSlots == 1 .. 4
Global == {"wr_nic", "fmc_chardev", "fmc_trivial", "fmc_write_eeprom", "wrn_driver",
           "ff_text", "opened", "work", "seen"}
PerCarrier == {"pci", "spec", "bars", "plugged", "irqreg", "devarray", "hwdev"}
Object(k, at) == <<k, IF k \in Global THEN 0 ELSE IF k \in PerCarrier THEN Base(at) ELSE at>>

(* What only the fields of a struct fmc_device point to, and its flags.    *)
Pointed == {"sdb", "eeprom", "ids", "pdev"}
Flags == {"golden", "absent", "mezz", "bound"}

-----------------------------------------------------------------------------
(* The kinds of steps.  A refused step jumps to label l: "-" returns an    *)
(* error to the caller, "+" goes on regardless.                            *)

S(op, k, l) == [op |-> op, k |-> k, l |-> l]
Get(k, l) == S("get", k, l)        \* allocate or register; may be refused
Set(k) == S("set", k, "")          \* set a flag or an enable bit
Null(ks) == S("null", ks, "")      \* clear pointers, flags or enable bits
Put(k) == S("put", k, "")          \* free or unregister
Kfree(k) == S("kfree", k, "")      \* the same, of what may be NULL
PutDev == S("putdev", "fmc", "")   \* put_device(&fmc->dev)
Sync(k) == S("sync", k, "")        \* cancel_delayed_work_sync
Gone(k) == S("gone", k, "")        \* the text of a module is unloaded
Use(k) == S("use", k, "")          \* dereference, or access through it
If(k, l) == S("if", k, l)
IfNot(k, l) == S("ifnot", k, l)
Fake(l) == S("fake", "", l)        \* a call through fmc->op, on the fake carrier
Maybe(l) == S("maybe", "", l)      \* hardware, file system or user decide
Goto(l) == S("goto", "", l)
Call(f, l) == S("call", f, l)
Up(l) == S("up", "", l)            \* for (i = ...; i < n; i++)
Down(l) == S("down", "", l)        \* for (i--; i >= 0; i--)
First == S("first", "", "")
NextDev(l) == S("nextdev", "", l)  \* the bus's list of devices
NewGen(l) == S("newgen", "", l)
ReadCur(l) == S("readcur", "", l)  \* ff = ff_current_dev, l if it is NULL
SetCur == S("setcur", "", "")
ClearCur == S("clearcur", "", "")
Busid(l) == S("busid", "", l)      \* is the device in the driver's busid= list?

-----------------------------------------------------------------------------
(* The SPEC carrier. *)

(* The gateware's enable bits are reset with it.  The loader's answer is   *)
(* not looked at: DONE, ERROR or 2 seconds, and only after DONE are the    *)
(* configuration pins released.                                            *)
loader_low_level == [
    start |-> <<Use("bars"), Null({"vic", "vic_dio", "eic_nic", "eic_dio", "rings"}), Maybe("-"), Goto("words")>>,
    words |-> <<Use("bars"), Maybe("-"), Maybe("words"), Use("bars")>>]
gpiofix_low_level == [start |-> <<Use("bars")>>]
spec_load_fpga == [
    start |-> <<Use("bars"), Call("loader_low_level", "+"), Use("bars"), Maybe("-"), Call("gpiofix_low_level", "+")>>]
spec_load_fpga_file == [start |-> <<Maybe("-"), Call("spec_load_fpga", "-")>>]

spec_probe == [
    start |-> <<NewGen("-"), Get("pci", "-"), Get("spec", "-"), Get("bars", "unmap"),
                Call("spec_load_fpga_file", "unmap"), Call("spec_fmc_create", "unmap"), Set("plugged")>>,
    unmap |-> <<Kfree("bars"), Put("pci"), Put("spec"), Goto("-")>>]

spec_remove == [start |-> <<Call("spec_fmc_destroy", "+"), Put("bars"), Null({"plugged"}),
                            Put("spec"), Put("pci")>>]

spec_reprogram == [
    start |-> <<Use("spec"), Maybe("-"), Call("fmc_free_sdb_tree", "+"), Null({"golden"}),
                Call("spec_load_fpga", "-"), Maybe("golden"), Use("bars")>>,
    golden |-> <<Set("golden"), Use("bars")>>]

spec_irq_request(h) == [start |-> <<Use("spec"), Get(h, "-"), Set("irqreg")>>]
spec_irq_free(h) == [start |-> <<Use("bars"), Put(h), Null({"irqreg"})>>]
spec_irq_ack == [start |-> <<Use("fmc"), Use("spec"), Use("bars")>>]
spec_cfg_pin == [start |-> <<Use("spec"), Maybe("-"), Use("bars")>>]
spec_gpio_config == [start |-> <<Fake("-"), Call("spec_cfg_pin", "-")>>]
spec_test_handler == [start |-> <<Use("fmc"), Use("spec"), Set("seen"), Call("spec_irq_ack", "+")>>]

(* With test_irq; the answer of irq_request is not looked at. *)
spec_irq_init == [
    start |-> <<Use("bars"), Maybe("no_test"), Null({"seen"}), Call("test_irq_request", "+"),
                Use("bars"), Call("test_irq_free", "+"), IfNot("seen", "-")>>,
    no_test |-> <<>>]
spec_irq_exit == [start |-> <<Use("fmc"), Use("bars"), Call("spec_irq_ack", "+")>>]

check_golden == [start |-> <<Use("bars"), Maybe("-"), Call("fmc_scan_sdb_tree", "-"), Maybe("-")>>]

(* A byte that is not acknowledged is an error; only the address is looked *)
(* at.  A faked EEPROM is not read.                                        *)
mi2c_put_byte == [start |-> <<Use("bars"), Maybe("-")>>]
mi2c_get_byte == [start |-> <<Use("bars")>>]
mi2c_scan == [
    start |-> <<Use("fmc"), Use("bars"), Call("mi2c_put_byte", "none"), Use("bars")>>,
    none |-> <<Use("bars"), Goto("-")>>]
spec_eeprom_read == [
    start |-> <<Use("spec"), Maybe("fake"), Use("bars"), Call("mi2c_put_byte", "err"),
                Call("mi2c_put_byte", "+"), Call("mi2c_get_byte", "+"), Use("bars")>>,
    fake |-> <<>>,
    err |-> <<Use("bars"), Goto("-")>>]
spec_i2c_init == [
    start |-> <<Call("mi2c_scan", "none"), Get("eeprom", "-"), Call("spec_eeprom_read", "err")>>,
    none |-> <<Set("absent")>>,
    err |-> <<Put("eeprom"), Null({"eeprom"}), Goto("-")>>]
spec_i2c_exit == [start |-> <<Use("fmc"), Kfree("eeprom"), Null({"eeprom"})>>]

spec_fmc_create == [
    start |-> <<Get("fmc", "-"), Call("check_golden", "free"), Set("golden"), Call("spec_i2c_init", "free"),
                Call("spec_irq_init", "free"), Call("fmc_device_register_n", "irq")>>,
    irq |-> <<Call("spec_irq_exit", "+"), Goto("free")>>,
    free |-> <<Put("fmc"), Goto("-")>>]

(* free_irq takes the first handler that was requested for this fmc. *)
spec_fmc_destroy == [
    start |-> <<Set("pin"), Call("fmc_device_unregister_n", "+"), Call("spec_irq_exit", "+"),
                Call("spec_i2c_exit", "+"), IfNot("irqreg", "unpin"), If("irq_wr", "wr"),
                Put("irq_triv"), Null({"irqreg"}), Goto("unpin")>>,
    wr |-> <<Put("irq_wr"), Null({"irqreg"}), Goto("unpin")>>,
    unpin |-> <<PutDev>>]

-----------------------------------------------------------------------------
(* The FMC bus. *)

fmc_scan_sdb_tree == [start |-> <<If("sdb", "-"), Fake("-"), Use("bars"), Get("sdb", "-")>>]
fmc_find_sdb_device == [start |-> <<Use("sdb"), Maybe("-")>>]
fmc_free_sdb_tree == [start |-> <<Kfree("sdb"), Null({"sdb"})>>]
fmc_reprogram == [
    start |-> <<Fake("fake"), Call("spec_reprogram", "-"), Call("fmc_scan_sdb_tree", "-")>>,
    fake |-> <<Call("ff_reprogram", "-"), Call("fmc_scan_sdb_tree", "-")>>]

fmc_fill_id_info == [
    start |-> <<Use("fmc"), Fake("parse"), IfNot("eeprom", "none"), Goto("parse")>>,
    parse |-> <<Maybe("none"), Get("ids", "none")>>,
    none |-> <<>>]
fmc_free_id_info == [start |-> <<Use("fmc"), Kfree("ids"), Null({"ids"})>>]

fmc_device_register_n == [
    start |-> <<Use("fmc"), Get("devarray", "-"), Goto("check")>>,
    check |-> <<Use("fmc"), Fake("next"), If("absent", "next"), If("eeprom", "next"),
                Put("devarray"), Goto("-")>>,
    next |-> <<Up("check"), First, Goto("add")>>,
    add |-> <<Call("fmc_fill_id_info", "+"), Get("device", "out"), Call("fmc_match", "+"),
              Get("file", "out1"), Up("add")>>,
    out1 |-> <<Call("device_del", "+"), Goto("out")>>,
    out |-> <<Call("fmc_free_id_info", "+"), PutDev, Put("devarray"), Goto("loop")>>,
    loop |-> <<Down("undo"), Goto("-")>>,
    undo |-> <<Put("file"), Call("device_del", "+"), Call("fmc_free_id_info", "+"), PutDev, Goto("loop")>>]

fmc_device_unregister_n == [
    start |-> <<Use("fmc"), Put("devarray"), Goto("each")>>,
    each |-> <<Put("file"), Call("device_del", "+"), Call("fmc_free_id_info", "+"), PutDev, Up("each")>>]

(* fmc->op->validate: a driver may be given busid=, and the first carrier  *)
(* of fmc-write-eeprom always is.                                          *)
validate == [
    start |-> <<Use("fmc"), Fake("ff"), Use("spec"), Busid("-")>>,
    ff |-> <<Use("ff_text"), Busid("-")>>]

(* The driver core: a device is bound when the bus matches it and its      *)
(* probe succeeds.  The bus has no remove, so a driver is only forgotten   *)
(* and its devm_kzalloc memory given back.                                 *)
fmc_match == [
    start |-> <<If("bound", "no"), If("wr_nic", "wr_nic"), If("fmc_chardev", "chardev"),
                If("fmc_trivial", "trivial"), IfNot("fmc_write_eeprom", "no"),
                Call("fwe_probe", "failed"), Set("bound")>>,
    wr_nic |-> <<IfNot("ids", "no"), Maybe("no"), Call("wrn_fmc_probe", "failed"), Set("bound")>>,
    chardev |-> <<Call("fc_probe", "failed"), Set("bound")>>,
    trivial |-> <<Call("t_probe", "failed"), Set("bound")>>,
    failed |-> <<Call("devm_release", "+"), Goto("no")>>,
    no |-> <<>>]
devm_release == [start |-> <<Kfree("gc"), Kfree("dd"), Null({"gc", "dd"})>>]
device_del == [
    start |-> <<IfNot("bound", "gone"), Null({"bound"}), Call("devm_release", "+"), Goto("gone")>>,
    gone |-> <<Put("device")>>]

fmc_driver_register == [
    start |-> <<IfNot("device", "next"), Call("fmc_match", "+"), Goto("next")>>,
    next |-> <<NextDev("start")>>]
fmc_driver_unregister == [
    start |-> <<IfNot("bound", "next"), Null({"bound"}), Call("devm_release", "+"), Goto("next")>>,
    next |-> <<NextDev("start")>>]

fmc_read_eeprom == [start |-> <<Use("fmc"), Fake("ff"), If("absent", "ff"), Use("eeprom")>>, ff |-> <<>>]
fmc_write_eeprom == [start |-> <<Use("fmc"), Call("write_ee", "-")>>]
write_ee == [
    start |-> <<Use("fmc"), IfNot("golden", "-"), Fake("ff"), Call("spec_eeprom_write", "-")>>,
    ff |-> <<Use("ff_text"), Call("ff_eeprom_write", "-")>>]
(* Where no EEPROM answers, the address is not acknowledged; after the byte *)
(* it is sent until it is.                                                 *)
spec_eeprom_write == [
    start |-> <<Use("spec"), Maybe("-"), If("absent", "err"), Maybe("end"), Call("mi2c_put_byte", "err"), Goto("busy")>>,
    busy |-> <<Call("mi2c_put_byte", "busy"), Goto("end")>>,
    end |-> <<Use("eeprom")>>,
    err |-> <<Use("bars"), Goto("-")>>]

-----------------------------------------------------------------------------
(* The fake carrier. *)

ff_reprogram == [start |-> <<Use("ff_text"), Use("fmc"), Maybe("-"), Null({"golden"})>>]
\* Mutant: the carrier is replugged at once.
ff_eeprom_writeNow == [start |-> <<Use("fmc"), Call("ff_work_fn", "+")>>]
ff_eeprom_write == [start |-> <<Use("fmc"), Set("work")>>]

(* kmemdup is not checked: the structure is filled next. *)
ff_dev_create == [
    start |-> <<Get("hwdev", "-"), Goto("each")>>,
    each |-> <<Get("fmc", "+"), Use("fmc"), Set("golden"), Up("each")>>]

ff_work_fn == [
    start |-> <<ReadCur("null"), Use("hwdev"), Call("fmc_device_unregister_n", "+"), Put("hwdev"), ClearCur,
                NewGen("-"), Call("ff_dev_create", "-"), Call("fmc_device_register_n", "fail"), SetCur>>,
    null |-> <<Use("current")>>,
    fail |-> <<Put("hwdev"), Goto("-")>>]

ff_init == [
    start |-> <<NewGen("-"), Set("ff_text"), Call("ff_dev_create", "gone"),
                Call("fmc_device_register_n", "fail"), SetCur>>,
    fail |-> <<Put("hwdev"), Goto("gone")>>,
    gone |-> <<Gone("ff_text"), Goto("-")>>]

ff_exit == [
    start |-> <<ReadCur("cancel"), Call("fmc_device_unregister_n", "+"), Put("hwdev"), Goto("cancel")>>,
    cancel |-> <<Sync("work"), Gone("ff_text")>>]

-----------------------------------------------------------------------------
(* The wr-nic driver. *)

wrn_load_wrc == [start |-> <<Maybe("-"), Use("bars")>>]

(* The LM32 cannot be found or reset: the probe ends with the success of   *)
(* fmc_reprogram.                                                          *)
wrn_fmc_probe == [
    start |-> <<Call("validate", "-"), Get("dd", "-"), Call("fmc_reprogram", "-"),
                Call("fmc_find_sdb_device", "+"), Maybe("wrc"), Goto("up")>>,
    wrc |-> <<Use("bars"), Maybe("out"), Call("wrn_load_wrc", "-"), Goto("up")>>,
    up |-> <<Call("wrn_gpio_init", "-"), Call("wrn_eth_init", "gpio")>>,
    gpio |-> <<Call("wrn_gpio_exit", "+"), Goto("-")>>,
    out |-> <<>>]

wrn_gpio_init == [
    start |-> <<Use("dd"), Get("gc", "-"), Get("chip", "free")>>,
    free |-> <<Put("gc"), Goto("-")>>]
wrn_gpio_exit == [start |-> <<Use("dd"), Put("chip")>>]

(* A NIC core that is not found refuses the probe, a VIC that is not found *)
(* does not.  platform_device_register is not checked.                     *)
wrn_eth_init == [
    start |-> <<Call("wr_irq_request", "-"), Call("spec_gpio_config", "+"), Get("pdev", "mem"),
                Call("fmc_find_sdb_device", "mem"), Get("vic_core", "+"), Set("mezz"), Get("preg", "vic"), IfNot("wrn_driver", "vic"),
                Call("wrn_probe", "vic"), Set("pbound"), Goto("vic")>>,
    vic |-> <<Call("wrn_vic_init", "+")>>,
    mem |-> <<Kfree("pdev"), Call("wr_irq_free", "+"), Goto("-")>>]
wrn_vic_init == [start |-> <<Use("pdev"), Use("vic_core"), Use("bars"), Set("vic"), Set("vic_dio")>>]

wrn_handler == [
    start |-> <<Use("wr_nic"), Use("fmc"), IfNot("mezz", "ack"), Use("pdev"), Use("vic_core"), Use("bars"),
                IfNot("vic", "ack"), Maybe("nic"), Maybe("dio"), Goto("ack")>>,
    nic |-> <<IfNot("eic_nic", "ack"), Use("bases"), Goto("ack")>>,
    dio |-> <<IfNot("vic_dio", "ack"), IfNot("eic_dio", "ack"), Call("wrn_dio_interrupt", "+"), Goto("ack")>>,
    ack |-> <<Call("spec_irq_ack", "+")>>]
(* Without an EEPROM the board's interrupts are disabled for good, above   *)
(* 80% load the VIC's.                                                     *)
wrn_dio_interrupt == [
    start |-> <<IfNot("eeprom", "none"), Maybe("on"), Use("bars"), Null({"vic_dio"}), Goto("on")>>,
    on |-> <<Use("bars"), Use("dio")>>,
    none |-> <<Use("bars"), Null({"eic_dio"})>>]

wrn_init == [
    start |-> <<Get("wr_nic", "-"), Call("fmc_driver_register", "+"), Get("wrn_driver", "drop"), Goto("each")>>,
    each |-> <<IfNot("preg", "next"), Call("wrn_probe", "next"), Set("pbound"), Goto("next")>>,
    next |-> <<NextDev("each")>>,
    drop |-> <<>>]
wrn_exit == [
    start |-> <<IfNot("pbound", "next"), Call("wrn_remove", "+"), Null({"pbound"}), Goto("next")>>,
    next |-> <<NextDev("start"), Kfree("wrn_driver"), Call("fmc_driver_unregister", "+"), Gone("wr_nic")>>]

(* wrn->regs is set only when all regions are mapped.  A missing endpoint  *)
(* (-ENODEV) leaves the loop with nothing undone; rings are reset and the  *)
(* NIC's interrupts enabled after the interface is registered.             *)
wrn_probe == [
    start |-> <<Get("bases", "out"), Use("bases"), Get("netdev", "+"), Use("netdev"), Use("bases"), Maybe("-"),
                Call("wrn_endpoint_probe", "out"), Set("epdev"), Call("wrn_mezzanine_init", "+"),
                Use("bases"), Set("rings"), Set("eic_nic")>>,
    out |-> <<Call("wrn_remove", "+"), Goto("-")>>]
wrn_endpoint_probe == [
    start |-> <<Use("netdev"), Get("iface", "down"), Use("bases"), Set("mac")>>,
    down |-> <<Use("bases"), Goto("-")>>]
(* Unregistering closes an interface that is up. *)
wrn_endpoint_remove == [
    start |-> <<Put("iface"), IfNot("up", "down"), Call("wrn_close", "+"), Goto("down")>>,
    down |-> <<Use("bases")>>]
wrn_mezzanine_init == [start |-> <<Get("dio", "-"), Use("bars"), Set("eic_dio")>>]
wrn_mezzanine_exit == [start |-> <<Use("bars"), Null({"eic_dio"}), Kfree("dio")>>]
wrn_remove == [
    start |-> <<Use("bases"), IfNot("epdev", "maps"), Call("wrn_mezzanine_exit", "+"),
                Call("wrn_endpoint_remove", "+"), Put("netdev"), Null({"epdev", "mac", "up"}), Goto("maps")>>,
    maps |-> <<Kfree("bases")>>]

wrn_start_xmit == [start |-> <<Use("bases"), Use("rings")>>]
(* An interface without an address cannot be opened; the endpoint's part   *)
(* of opening and closing only tells of the carrier.  What these functions *)
(* refuse changes nothing.                                                 *)
wrn_open == [start |-> <<IfNot("mac", "-"), Use("bases"), Set("up")>>]
wrn_close == [start |-> <<Use("netdev"), Null({"up"})>>]
wrn_set_mac_address == [start |-> <<Set("mac"), Use("bases")>>]
(* Stamping is a flag of the interface, the PHY is out of reach. *)
wrn_tstamp_ioctl == [start |-> <<Maybe("-"), Use("netdev")>>]
wrn_ioctl == [
    start |-> <<Maybe("mezzanine"), Maybe("stamp"), Use("bases")>>,
    stamp |-> <<Call("wrn_tstamp_ioctl", "-")>>,
    mezzanine |-> <<Call("wrn_mezzanine_ioctl", "-")>>]
wrn_mezzanine_ioctl == [start |-> <<Use("dio"), Use("bars")>>]
wrn_gpio_get == [start |-> <<Use("gc"), Use("wr_nic")>>]

-----------------------------------------------------------------------------
(* The small FMC drivers. *)

fc_probe == [start |-> <<Call("validate", "-"), Get("misc", "-")>>]
fc_init == [start |-> <<Get("fmc_chardev", "-"), Call("fmc_driver_register", "+")>>]
fc_exit == [start |-> <<Call("fmc_driver_unregister", "+"), Gone("fmc_chardev")>>]
fc_open == [start |-> <<Use("fmc_chardev"), Use("fmc"), Set("opened")>>]
fc_read == [start |-> <<Use("fmc"), Fake("ff"), Use("bars")>>, ff |-> <<>>]
fc_write == [start |-> <<Use("fmc"), Fake("ff"), Use("bars")>>, ff |-> <<>>]
fc_release == [start |-> <<Use("fmc"), Null({"opened"})>>]
fc_session == [
    start |-> <<Call("fc_open", "-"), Goto("loop")>>,
    loop |-> <<Maybe("end"), Maybe("write"), Call("fc_read", "+"), Goto("loop")>>,
    write |-> <<Call("fc_write", "+"), Goto("loop")>>,
    end |-> <<Call("fc_release", "+")>>]

t_handler == [start |-> <<Use("fmc_trivial"), Use("fmc"), Call("spec_irq_ack", "+")>>]
t_probe == [
    start |-> <<Call("validate", "-"), Fake("-"), Call("triv_irq_request", "-"), Call("spec_gpio_config", "+"),
                Maybe("no_file"), Call("spec_reprogram", "undo")>>,
    no_file |-> <<>>,
    undo |-> <<Call("triv_irq_free", "+"), Goto("-")>>]
t_init == [start |-> <<Get("fmc_trivial", "-"), Call("fmc_driver_register", "+")>>]
t_exit == [start |-> <<Call("fmc_driver_unregister", "+"), Gone("fmc_trivial")>>]

(* busid= names the devices of the first carrier: a replugged device has   *)
(* another device_id, so it is refused.  fwe_run's answer is not used.     *)
fwe_probe == [start |-> <<Call("validate", "-"), Maybe("-"), Call("fwe_run", "+")>>]
fwe_run == [
    start |-> <<Maybe("-"), Maybe("bin"), Call("fwe_run_tlv", "-")>>,
    bin |-> <<Call("write_ee", "-")>>]
fwe_run_tlv == [
    start |-> <<Maybe("-"), Goto("write")>>,
    write |-> <<Maybe("end"), Call("write_ee", "-"), Goto("write")>>,
    end |-> <<>>]
fwe_init == [start |-> <<Get("fmc_write_eeprom", "-"), Call("fmc_driver_register", "+")>>]
fwe_exit == [start |-> <<Call("fmc_driver_unregister", "+"), Gone("fmc_write_eeprom")>>]

-----------------------------------------------------------------------------
Code == [
    loader_low_level |-> loader_low_level, gpiofix_low_level |-> gpiofix_low_level, spec_load_fpga |-> spec_load_fpga, spec_load_fpga_file |-> spec_load_fpga_file, spec_probe |-> spec_probe,
    spec_remove |-> spec_remove, spec_reprogram |-> spec_reprogram, spec_irq_ack |-> spec_irq_ack,
    test_irq_request |-> spec_irq_request("irq_test"), test_irq_free |-> spec_irq_free("irq_test"),
    wr_irq_request |-> spec_irq_request("irq_wr"), wr_irq_free |-> spec_irq_free("irq_wr"),
    triv_irq_request |-> spec_irq_request("irq_triv"), triv_irq_free |-> spec_irq_free("irq_triv"),
    spec_cfg_pin |-> spec_cfg_pin, mi2c_scan |-> mi2c_scan, mi2c_put_byte |-> mi2c_put_byte,
    mi2c_get_byte |-> mi2c_get_byte, wrn_dio_interrupt |-> wrn_dio_interrupt, wrn_tstamp_ioctl |-> wrn_tstamp_ioctl,
    spec_eeprom_read |-> spec_eeprom_read,
    fmc_find_sdb_device |-> fmc_find_sdb_device, validate |-> validate, spec_gpio_config |-> spec_gpio_config, spec_test_handler |-> spec_test_handler,
    spec_irq_init |-> spec_irq_init, spec_irq_exit |-> spec_irq_exit, check_golden |-> check_golden,
    spec_i2c_init |-> spec_i2c_init, spec_i2c_exit |-> spec_i2c_exit, spec_fmc_create |-> spec_fmc_create,
    spec_fmc_destroy |-> spec_fmc_destroy, fmc_scan_sdb_tree |-> fmc_scan_sdb_tree,
    fmc_free_sdb_tree |-> fmc_free_sdb_tree, fmc_reprogram |-> fmc_reprogram,
    fmc_fill_id_info |-> fmc_fill_id_info, fmc_free_id_info |-> fmc_free_id_info,
    fmc_device_register_n |-> fmc_device_register_n, fmc_device_unregister_n |-> fmc_device_unregister_n,
    fmc_match |-> fmc_match, devm_release |-> devm_release, device_del |-> device_del,
    fmc_driver_register |-> fmc_driver_register, fmc_driver_unregister |-> fmc_driver_unregister,
    fmc_read_eeprom |-> fmc_read_eeprom, fmc_write_eeprom |-> fmc_write_eeprom, write_ee |-> write_ee,
    spec_eeprom_write |-> spec_eeprom_write, ff_reprogram |-> ff_reprogram, ff_eeprom_write |-> ff_eeprom_write,
    ff_dev_create |-> ff_dev_create, ff_work_fn |-> ff_work_fn, ff_init |-> ff_init, ff_exit |-> ff_exit,
    wrn_load_wrc |-> wrn_load_wrc, wrn_fmc_probe |-> wrn_fmc_probe, wrn_gpio_init |-> wrn_gpio_init,
    wrn_gpio_exit |-> wrn_gpio_exit, wrn_eth_init |-> wrn_eth_init, wrn_vic_init |-> wrn_vic_init,
    wrn_handler |-> wrn_handler, wrn_init |-> wrn_init, wrn_exit |-> wrn_exit, wrn_probe |-> wrn_probe,
    wrn_endpoint_probe |-> wrn_endpoint_probe, wrn_endpoint_remove |-> wrn_endpoint_remove,
    wrn_mezzanine_init |-> wrn_mezzanine_init, wrn_mezzanine_exit |-> wrn_mezzanine_exit,
    wrn_remove |-> wrn_remove, wrn_start_xmit |-> wrn_start_xmit, wrn_open |-> wrn_open, wrn_close |-> wrn_close,
    wrn_set_mac_address |-> wrn_set_mac_address, wrn_ioctl |-> wrn_ioctl, wrn_mezzanine_ioctl |-> wrn_mezzanine_ioctl,
    wrn_gpio_get |-> wrn_gpio_get, fc_probe |-> fc_probe, fc_init |-> fc_init, fc_exit |-> fc_exit,
    fc_open |-> fc_open, fc_read |-> fc_read, fc_write |-> fc_write, fc_release |-> fc_release,
    fc_session |-> fc_session, t_handler |-> t_handler, t_probe |-> t_probe, t_init |-> t_init, t_exit |-> t_exit,
    fwe_probe |-> fwe_probe, fwe_run |-> fwe_run, fwe_run_tlv |-> fwe_run_tlv, fwe_init |-> fwe_init,
    fwe_exit |-> fwe_exit]

Idle(t) == stack[t] = <<>>
Is(k) == <<k, 0>> \in live
Present(k) == \E at \in AllSlots : <<k, at>> \in live

Init ==
    /\ scene \in Scenes
    /\ live = {} /\ stale = {} /\ lost = {} /\ cur = 0 /\ gen = 0
    /\ stack = [t \in Threads |-> <<>>]
    /\ via = [t \in Threads |-> None]
    /\ faults = {}

Top(t) == Head(stack[t])
Returns == S("return", "", "")
At(frame) == IF frame.b = "-" \/ frame.i > Len(Code[frame.f][frame.b]) THEN Returns
             ELSE Code[frame.f][frame.b][frame.i]
Now(t) == At(Top(t))
Does(t, ops) == faults = {} /\ stack[t] # <<>> /\ Now(t).op \in ops

(* Jumps, calls, returns and asking for the carrier only concern the       *)
(* thread: they are part of the step before them.                          *)
Enter(f, at) == [f |-> f, at |-> at, b |-> "start", i |-> 1]
Jump(frame, l) == IF l = "+" THEN [frame EXCEPT !.i = @ + 1] ELSE [frame EXCEPT !.b = l, !.i = 1]
JumpFirst(frames, l) == <<Jump(Head(frames), l)>> \o Tail(frames)
Local(op) == op \in {"goto", "fake", "call", "return"}
Return(frames) ==   \* with an error or without
    IF Len(frames) = 1 THEN <<>>
    ELSE JumpFirst(Tail(frames), IF Head(frames).b = "-" THEN At(frames[2]).l ELSE "+")
Control(frames, now) ==
    CASE now.op = "goto" -> JumpFirst(frames, now.l)
      [] now.op = "fake" -> JumpFirst(frames, IF scene.carrier = "fake" THEN now.l ELSE "+")
      [] now.op = "call" -> <<Enter(now.k, Head(frames).at)>> \o frames
      [] now.op = "return" -> Return(frames)
RECURSIVE Settled(_)
Settled(frames) ==
    IF frames = <<>> THEN <<>>
    ELSE LET now == At(Head(frames)) IN IF Local(now.op) THEN Settled(Control(frames, now)) ELSE frames

Start(t, f, at, o) ==
    /\ faults = {} /\ Idle(t)
    /\ stack' = [stack EXCEPT ![t] = Settled(<<Enter(f, at)>>)]
    /\ via' = [via EXCEPT ![t] = o]

(* The administrator.  The locks of the driver core keep the work item out *)
(* while drivers come and go; an open chardev keeps modules in.            *)
Plug ==
    /\ gen < scene.gens /\ ~Present("plugged") /\ ~Is("ff_text") /\ Idle("wrk")
    /\ Start("adm", IF scene.carrier = "spec" THEN "spec_probe" ELSE "ff_init", 1, None)
    /\ UNCHANGED <<scene, live, stale, lost, cur, gen, faults>>
Unplug ==
    /\ \/ \E at \in AllSlots : <<"plugged", at>> \in live /\ Start("adm", "spec_remove", at, None)
       \/ Is("ff_text") /\ ~Is("opened") /\ Start("adm", "ff_exit", 1, None)
    /\ UNCHANGED <<scene, live, stale, lost, cur, gen, faults>>

InitOf == [wr_nic |-> "wrn_init", fmc_chardev |-> "fc_init", fmc_trivial |-> "t_init", fmc_write_eeprom |-> "fwe_init"]
ExitOf == [wr_nic |-> "wrn_exit", fmc_chardev |-> "fc_exit", fmc_trivial |-> "t_exit", fmc_write_eeprom |-> "fwe_exit"]
Load ==
    /\ ~Is(scene.driver) /\ <<scene.driver, 0>> \notin stale
    /\ Idle("wrk") /\ Start("adm", InitOf[scene.driver], 1, None)
    /\ UNCHANGED <<scene, live, stale, lost, cur, gen, faults>>
Unload ==
    /\ Is(scene.driver) /\ ~Is("opened")
    /\ Idle("wrk") /\ Start("adm", ExitOf[scene.driver], 1, None)
    /\ UNCHANGED <<scene, live, stale, lost, cur, gen, faults>>

(* A shared interrupt line calls whatever handler is registered on it.     *)
HandlerOf == [irq_test |-> "spec_test_handler", irq_wr |-> "wrn_handler", irq_triv |-> "t_handler"]
Interrupt == \E h \in DOMAIN HandlerOf, at \in AllSlots :
    /\ <<h, at>> \in live /\ Start("irq", HandlerOf[h], at, <<h, at>>)
    /\ UNCHANGED <<scene, live, stale, lost, cur, gen, faults>>

UsesOf == [iface |-> {"wrn_start_xmit", "wrn_open", "wrn_close", "wrn_set_mac_address", "wrn_ioctl"}, chip |-> {"wrn_gpio_get"},
           file |-> {"fmc_read_eeprom"} \cup IF scene.writes THEN {"fmc_write_eeprom"} ELSE {}]
UserCall == \E k \in DOMAIN UsesOf, at \in AllSlots :
    /\ <<k, at>> \in live
    /\ \E f \in UsesOf[k] :
        /\ f \in {"wrn_start_xmit", "wrn_close"} => <<"up", at>> \in live
        /\ Start("usr", f, at, <<k, at>>)
    /\ UNCHANGED <<scene, live, stale, lost, cur, gen, faults>>
UserOpen == \E at \in AllSlots :
    /\ <<"misc", at>> \in live /\ Start("usr", "fc_session", at, None)
    /\ UNCHANGED <<scene, live, stale, lost, cur, gen, faults>>

(* The delayed work, once its two seconds are over. *)
WorkRuns ==
    /\ Is("work")
    /\ ~Idle("adm") => stack["adm"][Len(stack["adm"])].f = "ff_exit"
    /\ Start("wrk", "ff_work_fn", 1, <<"work", 0>>)
    /\ live' = live \ {<<"work", 0>>}
    /\ UNCHANGED <<scene, stale, lost, cur, gen, faults>>

-----------------------------------------------------------------------------
(* The steps of a function. *)

This(t) == Object(Now(t).k, Top(t).at)

GoAt(t, l, at) ==
    LET frames == Settled(<<[Jump(Top(t), l) EXCEPT !.at = at]>> \o Tail(stack[t])) IN
    /\ stack' = [stack EXCEPT ![t] = frames]
    /\ via' = IF frames = <<>> THEN [via EXCEPT ![t] = None] ELSE via
Go(t, l) == GoAt(t, l, Top(t).at)
Same == UNCHANGED <<scene, live, stale, lost, cur, gen, faults>>

Take(t) ==
    /\ Does(t, {"get", "set"})
    /\ live' = live \cup {This(t)} /\ stale' = stale \ {This(t)}
    /\ Go(t, "+") /\ UNCHANGED <<scene, lost, cur, gen, faults>>
Refused(t) == Does(t, {"get"}) /\ Go(t, Now(t).l) /\ Same

(* Freeing a struct fmc_device drops what only its fields point to.        *)
Dropped(o) == IF o[1] = "fmc" THEN {<<k, o[2]>> : k \in Pointed \cup Flags} ELSE {}
Forget(os) == lost' = lost \cup {o[1] : o \in {p \in os \cap live : p[1] \in Pointed}}
Remove(o) ==
    /\ Forget(Dropped(o))
    /\ live' = live \ ({o} \cup Dropped(o))
    /\ stale' = (stale \ Dropped(o)) \cup {o}

(* Unregistering waits for the calls that came in through the object.      *)
Quiet(o) == \A u \in Threads : via[u] # o
Free(t) ==
    /\ Does(t, {"put", "kfree"}) /\ This(t) \in live /\ Quiet(This(t))
    /\ Remove(This(t)) /\ Go(t, "+") /\ UNCHANGED <<scene, cur, gen, faults>>
FreeNull(t) == Does(t, {"kfree"}) /\ This(t) \notin live \cup stale /\ Go(t, "+") /\ Same
PutDevice(t) ==
    /\ Does(t, {"putdev"}) /\ This(t) \in live
    /\ IF <<"pin", Top(t).at>> \in live
       THEN live' = live \ {<<"pin", Top(t).at>>} /\ UNCHANGED <<stale, lost>>
       ELSE Remove(This(t))
    /\ Go(t, "+") /\ UNCHANGED <<scene, cur, gen, faults>>
LeaveMemory(t) ==
    /\ Does(t, {"gone"})
    /\ Remove(This(t)) /\ Go(t, "+") /\ UNCHANGED <<scene, cur, gen, faults>>
Clear(t) ==
    /\ Does(t, {"null"})
    /\ LET os == {Object(k, Top(t).at) : k \in Now(t).k} IN
       /\ Forget(os) /\ live' = live \ os /\ stale' = stale \ os
    /\ Go(t, "+") /\ UNCHANGED <<scene, cur, gen, faults>>
Cancel(t) ==
    /\ Does(t, {"sync"}) /\ Quiet(This(t))
    /\ live' = live \ {This(t)} /\ Go(t, "+")
    /\ UNCHANGED <<scene, stale, lost, cur, gen, faults>>

Touch(t) == Does(t, {"use"}) /\ This(t) \in live /\ Go(t, "+") /\ Same
Fault(t) ==
    /\ \/ Does(t, {"use", "put", "putdev"}) /\ This(t) \notin live
       \/ Does(t, {"kfree"}) /\ This(t) \in stale
    /\ faults' = {<<Top(t).f, Now(t).k>>}
    /\ UNCHANGED <<scene, live, stale, lost, cur, gen, stack, via>>

Branch(t) ==
    /\ Does(t, {"if", "ifnot", "maybe", "busid"})
    /\ \E jump \in BOOLEAN :
       /\ CASE Now(t).op = "if" -> jump = (This(t) \in live)
            [] Now(t).op = "ifnot" -> jump = (This(t) \notin live)
            [] Now(t).op = "busid" -> scene.driver = "fmc_write_eeprom" /\ Top(t).at > 2 => jump
            [] OTHER -> TRUE
       /\ Go(t, IF jump THEN Now(t).l ELSE "+")
    /\ Same
Loop(t) ==
    /\ Does(t, {"up", "down", "first", "nextdev"})
    /\ LET at == Top(t).at
           more == CASE Now(t).op = "up" -> scene.devs = 2 /\ at = Base(at)
                     [] Now(t).op = "down" -> at # Base(at)
                     [] Now(t).op = "nextdev" -> at < 2 * scene.gens
                     [] OTHER -> FALSE
       IN  GoAt(t, IF more THEN Now(t).l ELSE "+",
                IF Now(t).op = "first" THEN Base(at)
                ELSE IF more THEN IF Now(t).op = "down" THEN at - 1 ELSE at + 1
                ELSE IF Now(t).op = "nextdev" THEN 1 ELSE at)
    /\ Same
Current(t) ==
    /\ Does(t, {"readcur"})
    /\ IF cur = 0 THEN Go(t, Now(t).l) ELSE GoAt(t, "+", cur)
    /\ Same
MakeCurrent(t) ==
    /\ Does(t, {"setcur", "clearcur"})
    /\ cur' = IF Now(t).op = "setcur" THEN Base(Top(t).at) ELSE 0
    /\ Go(t, "+") /\ UNCHANGED <<scene, live, stale, lost, gen, faults>>
NewCarrier(t) ==
    /\ Does(t, {"newgen"})
    /\ IF gen = scene.gens
       THEN Go(t, Now(t).l) /\ UNCHANGED gen
       ELSE GoAt(t, "+", 2 * gen + 1) /\ gen' = gen + 1
    /\ UNCHANGED <<scene, live, stale, lost, cur, faults>>

Step(t) ==
    \/ Take(t) \/ Refused(t)
    \/ Free(t) \/ FreeNull(t) \/ PutDevice(t) \/ LeaveMemory(t) \/ Clear(t) \/ Cancel(t)
    \/ Touch(t) \/ Fault(t) \/ Branch(t) \/ Loop(t) \/ Current(t) \/ MakeCurrent(t) \/ NewCarrier(t)

Next ==
    \/ Plug \/ Unplug \/ Load \/ Unload
    \/ Interrupt \/ UserCall \/ UserOpen \/ WorkRuns
    \/ \E t \in Threads : Step(t)

Spec == Init /\ [][Next]_vars

-----------------------------------------------------------------------------
(* Uses of objects that are not there, as <<function, kind>>: one set for  *)
(* each cause in the code.                                                 *)

(* The bus has no remove, so handlers, chips and interfaces that a driver  *)
(* registered in its probe outlive the driver and the device.              *)
NoRemove ==
    ({"wrn_handler", "wrn_dio_interrupt"} \X {"wr_nic", "fmc", "pdev", "dio", "bases"})
    \cup ({"t_handler"} \X {"fmc_trivial", "fmc"}) \cup ({"wrn_gpio_get"} \X {"wr_nic", "gc"})
    \cup ({"wrn_mezzanine_ioctl", "wrn_mezzanine_exit"} \X {"bars"}) \cup {<<"spec_irq_ack", "fmc">>}
(* The same of the misc device of fmc-chardev, which an open file also uses. *)
MiscOutlives ==
    ({"fc_open", "fc_read", "fc_write", "fc_release"} \X {"fmc"})
    \cup {<<"fc_open", "fmc_chardev">>, <<"fc_read", "bars">>, <<"fc_write", "bars">>}
(* ff_exit cancels the work after it took the devices away, not before.    *)
WorkAtExit ==
    {<<"ff_work_fn", "current">>, <<"ff_work_fn", "hwdev">>, <<"write_ee", "ff_text">>, <<"validate", "ff_text">>}
    \cup ({"fmc_device_unregister_n"} \X {"devarray", "fmc"})
(* Answers that are not looked at. *)
Unchecked ==
    {<<"ff_dev_create", "fmc">>, <<"wrn_probe", "netdev">>, <<"wrn_vic_init", "vic_core">>,
     <<"wrn_handler", "vic_core">>, <<"test_irq_free", "irq_test">>}
(* Undone twice, or used after the undoing on the same error path.         *)
UndoneTwice == {<<"devm_release", "gc">>, <<"spec_irq_exit", "fmc">>, <<"wrn_remove", "bases">>}
(* Registered before it is ready, or freed before it is unregistered.      *)
OutOfOrder == {<<"wrn_start_xmit", "rings">>, <<"wrn_mezzanine_ioctl", "dio">>}


AtRest == /\ faults = {} /\ ~Present("plugged") /\ ~Is("ff_text") /\ ~Is(scene.driver)
          /\ \A t \in Threads : Idle(t)

(* The error paths and the removals give back all that was taken.  Known   *)
(* exceptions: trees and EEPROM copies of a fmc whose creation failed and  *)
(* the pdev of wr-nic; the PCI device when its drvdata is refused; what    *)
(* wr-nic and fmc-chardev registered in their probes; and the devices the  *)
(* work of the fake carrier re-creates while ff_exit runs.                 *)
KnownLost == {"sdb", "eeprom", "pdev"}
KnownLeft == [spec |-> {"pci", "misc", "chip", "vic_core", "preg", "bases", "netdev"},
              fake |-> {"misc", "fmc", "file", "device", "ids", "devarray", "hwdev", "work"}]
Marks == Flags \cup {"seen", "vic", "vic_dio", "rings", "eic_nic", "eic_dio", "mac", "up"}

(* Unregistering waits for the calls under way, and no two threads wait    *)
(* for each other: that is why ff_eeprom_write, which runs inside the file *)
(* it would unregister, only schedules the work.                           *)
Waits == {<<t, u>> \in Threads \X Threads :
            Does(t, {"put", "kfree", "sync"}) /\ via[u] = This(t)}
NoCircularWait == \A p \in Waits : <<p[2], p[1]>> \notin Waits
=============================================================================
