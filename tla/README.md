# Mercury: TLA+ models and proofs

Mercury is a small x86-32 kernel with its own two-stage boot loader. It boots on
one CPU, brings up descriptor tables, interrupts, a heap, paging and a keyboard,
mounts a FAT16 volume over ATA, loads `/BIN/TEST.ELF` and jumps into it. There are
no threads; what runs concurrently is the kernel with its interrupt handler and
with the devices (8042, 8259, disk, HBA).

Paths below are relative to `src/`; `k/` stands for `kernel/src/`.

## Inventory

| Component | State it keeps | Operations | What makes it correct |
|---|---|---|---|
| Kernel heap, `k/memory/mem_manager.c:118-214` | doubly linked list of chunk headers inside the arena, `first` | `heap_init`, `malloc`, `free`, `malloc_aligned`, `free_aligned` | blocks disjoint and inside the arena, list well formed, free neighbours merged, a refusal only when nothing fits |
| Block manager, `mem_manager.c:6-116` | bitmap, `max_blocks`, `used_blocks` | `init_memory_manager`, `init_memory_region`, `alloc_blocks`, `free_blocks` | runs disjoint, counter in step with the bitmap |
| Paging, `k/memory/paging.c` | directory and tables in physical memory | `paging_enable`, `map_page`, `unmap_page`, `alloc_page`, `free_page` | a mapped page translates as asked, the kernel stays identity mapped |
| FAT16 mount, `k/fs/fat16/fat16.c:22-220` | `bpb`, `layout` | `fat16_init`, `fat16_read_bpb` | fields read from their places; the layout lies inside the volume; other volumes refused |
| FAT16 files, `k/fs/fat16/*` | `handles[]`, the position of the device | `fat16_open`, `fat16_read`, `fat16_close`, `fat16_size`, `fat16_ls` | reads deliver the file's bytes in order, no sharing with a writer, every call returns |
| Storage device, `fat16.c:478-533`, `k/driver/ata/ata.c` | `disk_pointer`, the ATA registers | `_read`, `_read_byte`, `_seek`, `read28`, `write28`, `identify_disk`, `flush` | the bytes asked for land in their places; the position follows |
| Interrupts and keyboard, `k/hardware/{interrupts,pic}.c`, `k/driver/ps2` | handler table, 8259 in-service and request bits, 8042 buffer and configuration | `install_idt`, `pic_remap`, `interrupt_handler`, `pic_confirm`, `ps2_kb_enable`, `syscall`, `kernel_switch_back` | every interrupt acknowledged, every byte read, initialisation ends |
| ELF loader, `k/exec/elf` | symbol table, `dynamic_libraries`, `dl_count`, the program's block | `init_symtable`, `resolve_symbol`, `image_load`, `relocate`, `dlopen`, `dlclose`, `dlsym` | the program that is entered is the one in the file, relocated; loading it damages no block; a handle leads to the library it was given for |
| Descriptors and system calls, `k/fd.c`, `k/syscalls.c` | `g_file_descriptors`, `handlers` | `create_fd`, `close_fd`, `syscall_write`, `syscall` | descriptors unique, unknown calls refused |
| Driver registry, `k/driver/driver.c` | `drivers[]` | `create_driver`, `enable_driver` | one driver, put in and enabled once |
| PCI, `k/hardware/pci.c` | the position of the scan | `pci_enumerate_devices`, `pci_get_bar`, `has_functions` | a controller is found wherever it is |
| AHCI, `k/driver/sata` | HBA registers, the tables of every port, the port found last | `probe_port`, `stop_cmd`, `port_rebase`, `start_cmd`, `sata_read` | tables disjoint, exchanged only while the port is stopped; waits end; a read reports the truth |
| Boot loader, `bootloader/src` | stage 1: registers and stack; stage 2: the 8042, the disks, its own copies of the FAT16 and ATA state | `disk_read` with retries, `disk_reset`, `disk_error`; `enable_a20`, `identify_disk`, `fat16_init`, `fat16_read`, the kernel's entry | stage 2 and then the kernel are entered whole, or there is a message |
| GDT, screen, VGA, string helpers | constant tables, the screen | | output and primitives, not modelled |

Interactions. `fat16_*` call the storage device through `storage_dev_t`; that
device calls `read28`. `kernel_main` runs everything else in sequence with
interrupts on from `pic_remap` on, so the keyboard interrupt can hit at any point
after it. A program reaches the kernel through vector 0x80; system call 80 leaves
the interrupt handler without returning. `map_page` would take tables from the heap;
`paging_enable` takes them from the block manager. The loader takes its image from the heap
and its library functions from the symbol table. `pci_enumerate_devices` calls
`init_sata`, which takes the tables of the HBA from the heap through `malloc_aligned`.
The boot sector jumps to stage 2 and stage 2 to the kernel; neither comes back.

Hard behaviours: long sequences of `malloc`/`free` and `open`/`close`; handles that
keep a position in a fragmented chain between calls; wrapping arithmetic on a boot
sector; a sector that fails in the middle of a read; interrupts that arrive before
their handler exists or between two port accesses of the driver; an HBA that stops in
its own time; a failed command and the next one; retries with registers on the
stack; libraries closed in any order. `PROJECT.json`
lists them by line under `hazards`.

## Modules

| Module | Models | State and actions |
|---|---|---|
| `Allocator` | what the heap promises | `owned` (pointer to size), a pending request; a block is any unused interval, `Refuse` returns 0 |
| `Heap` | `mem_manager.c:118-199` | `hdr` maps the address of each chunk on the list to its `MemoryChunk`; `malloc` starts the walk, `malloc_next` passes one chunk, `malloc_take` splits or takes whole, `malloc_fail` returns 0; `free` does both merges in one step |
| `HeapProofs` | theorems about `Heap` | |
| `Fat16Mount` | `fat16_init`, `fat16_read_bpb` | the stream position and one action per field read or skipped, then `init_layout` with arithmetic modulo the word |
| `Fat16MountProofs` | theorems about `Fat16Mount` | |
| `FileTable` | what the file calls promise | a table of descriptors (file, mode, position); each call is one step |
| `Fat16` | the five file calls on a constant volume | `handles`, the directory position of the scan, the byte buffer; one directory entry, FAT hop or piece of a cluster per step |
| `Fat16Files` | the reference meaning of the volume (chains, extents, path lookup), the properties and the refinement of `FileTable` | |
| `Fat16FilesProofs` | theorems about `Fat16Files`, the refinement of `FileTable` among them | |
| `Storage` | `_read`, `_seek` over `read28_disk` | `disk_pointer`, the three parts of a read (first, full, last), the disk's answer |
| `StorageProofs` | theorems about `Storage` | |
| `Interrupts` | interrupt delivery and keyboard | `main` (where `kernel_main` is), the handler's position, 8259 bits, the 8042 buffer, pending bytes |
| `Paging` | `paging.c`, `paging.h` and the calls of `map_page` in `pci.c` and `usermode.c` | `mem`, the first physical pages read as tables; `tlb`; `asked`, what `map_page` was called with. `paging_enable`, `map_stack`, `map_user`; `access` (the CPU fills its TLB) and `kernel_store` (the kernel writes its own memory) are external |
| `PagingProofs` | theorems about `Paging` | |
| `Stage1` | `bootloader/src/stage1/boot.asm` | `pc1` (the label), `stack` word by word, `di`, `at500` (the sectors loaded); every call of the BIOS may fail. `Ret` goes where the word on top of the stack points, also when it is a saved register |
| `Stage2` | `bootloader/src/stage2/{main.asm,main.c,ata.c,fat16.c}` | `pc2`, the 8042 (`kbc`), `machine` (the disks), `bpb`, the device position, the entry handle and its buffer; one action per wait, per disk command, per directory entry and per piece of a cluster |
| `Boot` | both stages in sequence, and their properties | |
| `BootProofs` | theorems about `Boot` | |
| `Ahci` | `k/driver/sata`, `malloc_aligned` | the port registers `hba`, `tables` (what `clb`, `fb` and the command headers point to), `heap_top`, the `call` of `sata_read`; one action per table of `port_rebase`; the HBA's own steps (`hba_follows`, `command_done`, `command_failed`, `disk_busy`) are external |
| `Pci` | `pci_enumerate_devices`, composed with `Ahci` | `config` (the functions of the machine), `device`, `function`; one action per function visited. `handed` and `reached` are history: the functions `init_sata` was called for, and whether a call came to the HBA's registers |
| `PciProofs` | theorems about `Pci` and `Ahci` | |
| `Loader` | `symtable.c`, `elf_loader.c`, `elf_so.c` and `kernel.c:114-123` | `mem` and `blocks` (the heap by words, first fit as proved of `Heap`), `exec`, `entry`, `hit` (blocks that were written over), `dl_count`, `dynamic_libraries` (buffer and descriptor), `files` (the descriptors the FAT16 driver gave out), `dl_handles` (what callers of `dlopen` hold); one action per segment and per relocation, `dlopen` with and without success, its overruns, `dlclose`. `dl_lifo` and `dl_shared` are history. Its specification is `LoaderSpec`, so that it can stand beside `Interrupts` in one module |
| `KernelProofs` | theorems about `Interrupts` and `Loader`, which share no state | |
| `MC*` | the constants of the runs |  |

External parts (the disk, the 8042, the 8259, the CPU taking interrupts, the offsets
of a FAT16 boot sector) are modelled from how the code uses them and marked
`external` in the map.

Abstractions that matter:

* `Heap` keeps addresses and sizes as numbers in units of the arena; `size_t` does
  not wrap, because the sums of lines 156-173 are formed only for a chunk whose size
  exceeds the request.
  Callers free a pointer once and only one they were given (the code has no check).
* `Fat16` works on a constant volume: nothing in the kernel writes to the disk
  (`_write` returns 0 without writing). Contents are byte positions, so that "the
  right bytes" means the right places of the data region. Names are model values;
  `to_short_filename` accepts the set `ValidNames`. Modes `w` and `a` are as the
  code has them: a handle is set up and nothing is written.
* `Fat16` treats the device as reliable; what a failing sector does is the subject
  of `Storage`.
* `EntryAt` reads the entries in any cluster, whoever owns it. `open_directory_in_root`
  (`fat16_rootdir.c:46-48`) and `open_directory_in_subdir` (`fat16_subdir.c:23-24`) do not
  look for `SUBDIR`: a file in the middle of a path, or a directory entry without
  clusters, is scanned like a directory, and what its bytes seem to name is opened. The
  model does the same. What comes out depends on those bytes, so that nothing can be
  promised of it: the properties and the refinement are about callers whose paths lead
  through directories (`RequestsAssumption`; the kernel's own are `/` and
  `/BIN/TEST.ELF`). A volume label in the middle is allowed, since the code refuses it, and
  so is `fat16_ls` of a file, of which `FileTable` promises nothing.
* `FileTable` promises what a caller gets and not what one would wish. Files of the root
  directory are opened without the sharing check, and the call answers 0 whatever slot was
  used (`fat16.c:272-278`): the answer is promised for files of subdirectories, and for a
  file of the root only when its slot is 0. With paths of three components,
  `navigate_to_subdir` looks the first one
  up in the root and then the last one where the second should have been
  (`fat16_priv.c:121-129`), so that such a path may be refused or lead to another file.
  A listing ends at its end mark only for a caller who asks for one entry after the
  other: `fat16_subdir.c` skips entries without looking at them, so that `FileTable`
  promises nothing for an index behind the end.
* What a path names (`Resolve`) is the first entry with the name, the way the code looks;
  a component that `to_short_filename` refuses names nothing.
* `Storage` numbers the bytes of the disk; a sector that fails leaves the target as
  it was (`Junk` for the uninitialised stack buffer).
* `Paging` gives an address by its directory and table index. Nothing calls
  `init_memory_manager`, so `alloc_blocks` answers 0 for both the directory and the
  first table, and they are one page: entry `d`, written as the identity mapping of
  page `d`, is at the same time the directory entry that makes physical page `d` a
  table. All entries are therefore present, and the branch of `map_page` that
  allocates a table (`WithTable`) is never taken. Where `Leftover` is the memory
  nobody cleared, its content is any of the entries given. `unmap_page`, `alloc_page`
  and `free_page` have no callers and are left out.
* `Stage1` sees the stack between labels only; what is pushed and popped within one
  step is left out. `Stage2` has its own volumes with a scaled geometry: a sector of 4
  bytes, a directory entry of 2, a FAT entry of 1. A byte is told by its disk and its
  place in the file, so that "the kernel" means these bytes in this order.
* `Ahci` and `Pci` take the heap as one without holes: nothing has been freed in front
  of the blocks when the devices are searched (the block of a BAR is freed before the
  next one is taken). That `malloc` hands out disjoint blocks is proved of `Heap`.
* `init_sata` gets `port_base[4]`, and paging is on by then (`kernel.c:86`). The loop in
  front of it maps pages at the address of the array `port_base` (`pci.c:86-91`) and none
  at the address in it, so that the page of the registers is what the uncleared table
  behind its directory entry says (see `Paging`). The action has every outcome: the
  registers, if they are behind BAR 4; other memory, in which the driver sees no port, or
  sees one and waits for it for ever (`pc = "hang"`); or a page fault (`pc = "fault"`),
  after which nothing is followed, since the stub does not take the error code off the
  stack. The same holds of an HBA behind another BAR.
* `Loader` gives an ELF file as its words, its segments, its relocations and the offset
  of `main`. Words are symbolic (`<<"address", k>>` is the address of the k-th entry of
  the symbol table). `Linked` is what `image_load` takes for granted of an ELF file:
  loaded segments lie in the file and apart from each other, no slot is relocated twice.
  Of the FAT16 driver there are the descriptors, as it gives them out for files in a
  subdirectory. `dlopen` looks at no result: a file that cannot be opened gets a slot and a
  handle all the same, and its buffer is left with zeroes. It does not look at its limits
  either: without room in the heap it clears memory from address 0 on, with all slots taken
  it writes behind `dynamic_libraries`, with no descriptor left `fat16_open` writes behind
  `handles`. The counters still move; what these writes, and a second `free` of the same
  buffer, lead to is not followed (`pc = "undefined"`).
  A chunk must be larger than the request (`mem_manager.c:150`); the single word that a
  block handed out whole may have too many is left outside it, where nothing else fits.
  Free chunks have no header in `mem`.
* `Interrupts` has the exceptions without error code (vector 3) and vector 0x80
  besides IRQ 1, all other lines being masked by `pic_remap`.

## Runs

| Run | Asks | Bounds and why |
|---|---|---|
| `heap` | chunk list, disjointness, coalescing, first fit, termination, refinement of `Allocator` | arena of 14 units, header 2, requests {0,1,2,5,12}: up to six chunks, so a block with free, used and absent neighbours on both sides, exact takes, splits and refusals all occur |
| `fat16_files` | positions on the chain, sharing, stray writes, termination, refinement of `FileTable` | two handles, clusters of two bytes or two entries, a directory of three clusters without end mark, files of three clusters in scattered order, an empty, a full-cluster and a read-only file; a directory in a directory, with a file in it that bears its name, and paths of three components; deleted and long-name entries with a file's name in front of it; the bytes of files read as the entry of a file; a path through a volume label; listings of an entry, at the end and behind it, and of a file |
| `fat16_mount` | the four mount properties | 1824 boot sectors at the edges: one cluster too few, wrapping FAT sizes, odd root sizes, every accepted and two refused cluster sizes; the word is 2^30 because TLC's integers are 32-bit, the theorems cover 2^32. It stops when `fat16_init` has returned, hence no deadlock check |
| `fat16_bad_jump` | is a bad jump refused? **no** | same images |
| `storage` | placement, position, termination | sectors of three bytes, offsets 0..5, lengths 0..9: each of first, full and last part present or absent, up to two full sectors, any of them failing; `StreamEnd` bounds the position |
| `keyboard` | acknowledgement, all bytes read, initialisation ends | three keys, enough for one in the buffer, one latched and one waiting. Once all keys are typed and read only traps remain and, after system call 80, nothing: no deadlock check |
| `keyboard_early_key` | the same with keys before the driver registers: **bytes are left unread** | same |
| `paging` | the kernel stays identity mapped, mapped pages translate as asked | tables of four entries, so that a frame number has a bit that stands for bit 31 and one below it; a stack page, two user pages under one directory entry, two pages of kernel data that keep changing; leftover words with bit 31 clear |
| `paging_high_bit` | the second property with a leftover word that has bit 31 set: **violated** | same |
| `boot` | stage 2 entered whole, A20 opened, the kernel loaded and reached | machines without, with one and with two disks, good and damaged volumes, a fragmented kernel behind deleted and long-named entries, a directory of more than one cluster; the kernel has 10 bytes (`ksize`), that is, three clusters with parts of sectors at both ends; one failing sector (`MaxFaults`), one key; every BIOS call of stage 1 may fail. It stops in the kernel or astray: no deadlock check |
| `devices` | tables apart, disks found, truthful reads, tables exchanged only when stopped, termination | three ports of which 2 is not implemented between them (`{0, 1, 3}`), any of them with a disk and with its engines left on by the BIOS; two command slots; a heap for the tables of two ports, so that a third exhausts it; six machines (`MCPci`), with the controller visible or not, its registers behind BAR 4 or 5, and with two AHCI functions; entries of 3 sectors over steps of 2 stand for 16 over 8; reads of 1, 3, 4 and 7 sectors: below, at and above one entry; two reads (`MaxReads`), so that the second follows a failed one. It stops after them: no deadlock check |
| `loader` | no block hit, program intact, handles lead to their library | a heap of 20 words, too small for a program beside three libraries, as many slots as descriptors (three; both are 16 in the code) and five calls of `dlopen`, so that a slot is used again after a `dlclose` in the middle, and slots and heap are overrun; libraries shorter and longer than their buffer, and missing ones; files that are no ELF, have no `main`, have several segments, JMP_SLOT and GLOB_DAT relocations, known and unknown symbols. It stops when the program is entered: no deadlock check |

Every property has a mutant in `PROJECT.json`: a plausible slip in one of the
modelled definitions (a dropped back link, a missing seek, a forgotten skip, a late
vector range) that makes TLC report that property.

### Fairness

* `heap`: weak fairness of the steps of a `malloc` in progress. It is a loop of the
  only thread.
* `fat16_files`: weak fairness of the steps of the call in progress, for the same
  reason. Callers are not obliged to call.
* `storage`: weak fairness of the steps of `_read` and of the disk's answer. The
  latter is an assumption about the device, since `ata.c:73` polls without a limit.
* `boot`: weak fairness of the CPU (each stage) and of the keyboard controller, which
  takes its commands and answers them. Nobody has to type, no disk has to fail.
* `devices`: weak fairness of the kernel; of the HBA following ST and FRE; and of the
  end of a command that a running port has been given, with success or with an error.
  These are assumptions about the device: `ahci.c:100`, `:184` wait without a limit.
* `keyboard`: weak fairness of `kernel_main`, of the handler and of the controller;
  strong fairness of `deliver`, because traps turn the interrupt flag off and on
  again and a pending interrupt is taken at the first boundary at which it is on.

### Findings

* `fat16_bad_jump`. `INAVLID_JUMP_INSTRUCTION` is 0, the value of success:
  `fat16_init` goes on with a zeroed parameter block and divides by zero
  (`fat16.c:172-175`).
* `keyboard_early_key`. A key typed between `sti` (`pic.c:64`) and
  `register_interrupt_handler` (`ps2keyboard.c:13`) is never acknowledged, because
  `pic_confirm` is called only for registered vectors and
  `hardware_interrupt_offset` is never assigned; the driver is still reported
  enabled.
* `paging_high_bit`. `SET_FRAME` clears a frame with `~0x7FFFF000` (`paging.h:16`) and
  keeps bit 31, which `PTE_FRAME` (`paging.h:32`) counts as part of it. The table of
  the program's pages is memory that nothing cleared.

### Known deviations

Behaviours the models have because the code has them, and which the properties state as
conditions:

* The program's pages get `PTE_USER`, their directory entry never gets `PDE_USER`
  (`paging.c:85`). Programs run because their segments are ring 0 segments
  (`gdt.c:34-35`).
* `disk_error` of the boot sector is jumped to and ends with `ret`: after the message
  the CPU continues at a saved register (`Stage2EnteredWhole` allows it only after the
  message; the proof shows that the word is never a return address).
* A key typed before stage 2 disables the keyboard is taken for the output port of the
  8042 and may reset the machine (`A20Opened` excludes it through `kbc.typed`).
* A second disk replaces the first (`main.c:19-24`), and 0x100000 is entered whether or
  not anything was loaded; `navigate_to_subdir` of stage 2 is a `bool`, so
  that its -1 arrives as 1 and the test for a failure never fires (`fat16.c:393`). `KernelLoaded` and
  `KernelReached` are about a single disk with a kernel on it.
* `pci.c:92` passes BAR 4 where its comment says BAR 5 (so do the code in comments at
  `:51` and `init_sata`'s parameter), and the page of the registers is not mapped. Whether
  the driver gets to the HBA is left to chance; `DisksFound` says which functions are handed
  to it, and what is true of the disks if it does.
* A file in the middle of a path is scanned like a directory (`RequestsAssumption` excludes
  it), and a file of the root is answered with 0 although another slot may be its own
  (`FileTable` leaves that answer open).
* After `malloc` has returned 0, all further tables of the HBA are at the same address
  (`TablesApart` holds until then).
* `sata_read` of more than 16 sectors overlays its buffer and asks for too few sectors
  (`SataReadTruthful` is about the others); after a failed command the port hangs
  (`SataReturns` is about ports that have not failed).
* `kernel_main` loads the program into a block of one pointer. It runs over the header
  of the free chunk behind it; no block is hit as long as libraries are closed in
  reverse order (`LoadHitsNoBlock`), and the heap is not used after that.
* `dlclose` of a library that is not the last makes the next `dlopen` overwrite a live
  slot and return a handle that is still held. `HandlesLeadToTheirLibrary` covers every
  order of opens and closes up to that `dlopen` (`dl_shared`).
* `dlopen` of a file that is not there succeeds; the handle leads to zeroes, and the
  property says so.
* `free_aligned` looks for the original pointer in front of the rounded one;
  `malloc_aligned` stored it in front of the one before rounding. Nothing calls it.

## Proofs

Checked by TLAPS for every value of the constants that satisfies the named
assumptions of the modules.

**Heap** (`HeapAssumption`: arena and header are positive, addresses natural).
The invariant is `HeapInv`: types, the chunks tile the arena (`Tiled`: inside the
arena, each chunk ends where its successor starts, `prev` is the inverse of `next`,
no chunk starts inside another), no two free neighbours, allocated chunks are
exactly the owned blocks, the walk has passed nothing that fits. None of the
listed properties is inductive alone: disjointness needs the tiling, the tiling needs
both link directions, and coalescing needs the allocated flags to agree with what
callers hold. `Split`, `TakeWhole`, `MergePrev` and `MergeNext` each get a lemma that
they keep a tiled list tiled. From the invariant follow `HeapNoOverlap`,
`HeapNoLostMemory` (a tiled list without owned blocks and without two free
neighbours has one chunk), `HeapFirstFit`, and, step by step, the refinement
`HeapImplementsAllocator`.

**Fat16Mount** (`Fat16MountAssumption`: the widths of the fields, a word that holds the
product of two of them). `MountInv` says that the stream position is that of the field
read next and that every field read so far is the one on the disk. The hard part is
arithmetic: `data_sector_count` is a wrapping difference, and a volume whose
overhead exceeds its sectors is still refused because the wrapped quotient is too
large. `ProductBound`, `Quotient` and `DataSectorsDoNotWrap` establish this;
`LayoutInsideVolume`, `OnlyFat16Mounted` and `ClusterWithinMax` follow. The last one is
what `Fat16` assumes when it says that the 16-bit offset of a handle does not wrap
(`ClusterBytes < OffsetMod`).

**Paging** (`PagingAssumption`: user pages are below the half of the address space and
above the first 4 MiB, and the physical page that serves as their table is not one
the kernel stores in). `KernelInv` holds for any leftover memory; its core is
`OwnDirectory`: entry `i` of page 0 leads to page `i`, present and writable. Neither
reading of page 0 is inductive without the other, since `map_page` reaches the entry it
changes through the directory. `PagingKernelIdentity` follows. `PagingMappedAsAsked`
assumes `CleanLeftover` (no leftover word with bit 31 set; `paging_high_bit` shows that
this is needed) and adds `TablesClean` and `UserMapped`, the same for the tables of the
user pages.

**Interrupts** (`InterruptsAssumption`; keys only after the registration,
`~EarlyKeys`). `ServiceInv` adds to
`NothingLeftInService` that IRQ 1 cannot be requested before the driver is registered
and that the handler acknowledges between `call` and `offset`; any number of keys.

**Fat16Files** (`Fat16Assumption`: the types of the volume and of the requests;
`VolumeAssumption`: the volume is one a formatter could have written, that is, the
cluster of an entry begins a chain that ends, the chain of a file is as long as its size
needs; `RequestsAssumption`: the callers' paths lead through directories). `DriverInv` has two parts. `TableInv`
says of every open handle that it is on a file: a reader's cluster is the k-th of the
chain and its offset agrees with the bytes already delivered (`ReaderAt`), an appender
is in the last cluster behind the last byte; and it contains `ExclusiveUse`. `CallInv`
says how far the call being served has come, at each of its steps: a directory scan is
at some cluster of the directory's chain and has passed no end mark (`ScanAt`), what it
found is an entry of a directory that can be reached (`FoundItem`), that directory is the
one the path leads to, and not a file's bytes (`DescendsFrom`), the append walk has
taken as many clusters off the size as it has passed (`WalkOnFile`), and the slot
`find_available_handle` chose is still free (`SlotStillFree`). The properties are not
inductive without it: whether a handle is on its chain when `open` stores it depends on
the scan that found the entry several steps before. `HandlesStayOnChain`,
`WritersAreAlone` and `StrayWritesOnlyWhenFull` follow. The lemmas are about `Extent`
(the position of byte i is byte i modulo the cluster of its cluster) and `Live`.

`DriverImplementsFileTable` is the refinement `FileTableSpec`. `DriverInv` says that the
driver is on some file; the refinement needs that it is on the one the caller asked for.
`ServiceInv` says so, between the steps of a call: a scan for the last component of a path
runs in the directory its first component names (`LookedUp`); what it has found, or not
found, is what `Resolve` gives, because `ScanAt` knows that every entry passed bears
another name (`FoundNamed`); the handle being set up belongs to that entry, and the mode is
one the entry allows (`Target`); the buffer of a read holds the bytes of the file in front
of the handle, and the device stands on the next one (`Reading`: this is where a seek left
out after `get_next_cluster` would show); `ls_in_subdir` has skipped as many entries as it
counts (`ListingAt`). The step lemmas then go call by call. A directory scan, the walk of
mode `a`, an entry skipped and a chunk read are stuttering steps: the position a caller
sees (`Delivered`) does not count what is still in the buffer of a read in progress. The
step in which the call returns is the step of `FileTable`.

**Storage** (`StorageAssumption`). `StorageInv` adds to the two properties that what was
delivered and what remains make up the read (`Progress`), and that the part that is due
begins in `sector` (`PartDue`): every part but the first at its start, a full one fills it,
the last one ends inside it. This is where the branches of `_read` have to agree.
`ReadDeliversTheStream` and `PointerStaysInStep` follow, for every sector size, alignment
and length and whatever sectors fail.

**Boot** (`Stage1Assumption`: a geometry without zeroes, at least one sector and one
try; `Stage2Assumption`: the types of what is on the disks, and no more: a volume may be
damaged in any way; `BootAssumption`: a disk that is said to have a kernel does).
`StackInv` gives the stack at every label: empty, the frame of `disk_read`, or
that frame with the call of `disk_reset` on top; at `disk_error` a saved register is on
top. `Stage2EnteredWhole` alone is not inductive: where `ret` goes depends on all that was
pushed before. `ChsIsLba` (the sector named by `lba_to_chs` is the one asked for) gives
the loaded sectors. `A20Inv`: until a key is typed, the output register of the controller
holds the port's value exactly when it is waited for, and the command in its input
register is the one sent last (`Unspoiled`); `BootA20Opened` follows.
`RetryInv`, `DiskTypes` and `ImageFits` give `BootTypeOK`: whatever is read of a broken or
missing volume keeps its type, and a chunk never exceeds the room that is left.

`BootKernelLoaded` is about disks that hold the kernel, in the sense of `HoldsBoot` and
`HoldsFile`: the volume mounts, the root directory has `BOOT` behind entries that are
deleted, long names or others, its chain of clusters has `KERNEL0` in the same way, and
the FAT leads along the file's chain. `LoadInv` says of such a disk, as long as no sector
failed, where stage 2 is (`OnTheWay`): both scans are at or in front of the entry they
look for and on the right cluster of the chain (`InRoot`, `InDirectory`), what was opened is
that entry, and the image so far is the beginning of the file while the device stands on
the byte that comes next (`ImageRight`, `InFile`), or on the FAT entry behind a finished
cluster (`BehindCluster`). The lemmas about the device (`ReadOf`, `ReadIsContiguous`)
say that the sectors of a read put together are the bytes asked for, wherever they begin.

**Loader** (`LoaderAssumption`: positive sizes, files that are not empty, ELF files that
are `Linked`). `LoaderInv` has three parts. `LoaderTypes` holds in any order of calls; that
`dl_count` is the number of handles (`LoaderTypeOK`) is why `dlopen`, before it overruns,
never uses a slot behind the array. `HandlesInv` is for any order too: blocks are apart,
and until a handle is shared each one owns a slot, a block and a descriptor of its own
(`HandlesOwn`); `dlclose` keeps this because it frees what the slot of its handle says, and
`dlopen` because it takes a new block and the lowest free descriptor. `LoaderHandles`
follows. `LoadStacked` is for the reverse order (`dl_lifo`). Its core is that the heap has
no hole: the libraries fill it up to `Top` (`LibrariesStacked`, at `Place(d)` for slot `d`),
the buffer of the file is right behind them, `exec` right behind the buffer
(`ExecBehindBlocks`), because the lowest place for a block of any size is then the end of
the last one (`FirstPlace`). What the load writes, it writes from `exec` on, hence into no
other block (`WrittenBehind`): `LoaderHitsNoBlock`. For `LoaderProgramIntact` the invariant
also follows the load: the buffer holds the file while segments are copied (`FileInBuffer`),
those in front of `step` are in their places (`Copied`), and then the slots in front of
`step` are resolved and all other words are still those of the file (`Relocated`).
Disjoint segments and distinct slots are needed there: a later one would undo an earlier
one.

**Pci and Ahci** (`AhciAssumption`: sizes are naturals, the alignment and the pointer
size positive, the heap does not start at 0, the ports have a highest one;
`PciAssumption`: an AHCI function is no bridge, and at most one has the HBA behind BAR 4). `TablesInv`: every table is aligned and
ends below `heap_top`, and any two are apart; a new one starts above the old
`heap_top`, because `malloc_aligned` returns an address behind the first word of its
block with room for the table behind it (`AlignedInsideBlock`). `EnginesInv`: between
`stop_cmd` and `start_cmd` ST and FRE are off, and from `port_rebase` on CR and FR too,
whatever the HBA does; it follows only ST and FRE. From them `PciTablesApart` and
`PciTablesOfStoppedPorts`. `ReadsInv`: a port that has not failed has no command but the
one being waited for, an error stops the port, and a command that is no longer issued
has been carried out; hence `PciSataReadTruthful`, also for a read that follows a failed
one. `SearchInv`: the functions handed over are exactly the visible ones in front of the
scan (`HandedInv`); before the registers are reached no port has tables, afterwards every
disk is served (`BetweenVisits`), and within `probe_port` the ports below the current one
are and those above are untouched (`Probing`); hence `PciDisksFound`. `HeapInv` and the scan's part of it
give `PciTypeOK`.

Only model-checked:

* the liveness properties (`MallocReturns`, `CallsReturn`, `ReadReturns`, `BytesAreRead`,
  `EnableReturns`, `KernelReached`, `SataReturns`): fairness is beyond the prover.

Every invariant, every safety action property and both refinements of the passing runs
are proved.

## Not modelled

* The block manager (`mem_manager.c:6-116`): nothing initialises it, `max_blocks` stays
  0 and `alloc_blocks` always answers 0, which is how `Paging` has it.
* File descriptors (`fd.c`): nothing calls `create_fd` or `close_fd`. `syscall_write`
  prints.
* The driver registry: one entry, written once.
* `write28_disk`, `flush_disk`, `unmap_page`, `alloc_page`, `free_page`,
  `free_aligned`, stage 2's `fat16_ls` and its modes other than `r`: no callers.
* Exceptions with an error code (`interrupt_handler.asm:35` does not remove it): the
  frame of an interrupt is not in `Interrupts`.
* Screen and VGA (output only), GDT (constant tables), string and port helpers
  (primitives), the processor's entry to user mode.

## Plan

1. Done: heap, FAT16 mount, FAT16 files, storage, interrupts, paging, boot loader,
   PCI and AHCI, loader; the proofs above.
2. Models to refine: the kernel's own `identify_disk` (the same code as stage 2's), the
   stack frame of exceptions.
