---------------------------- MODULE PsciTopology ----------------------------
(***************************************************************************)
(* How psci_setup builds the power domain tree from the descriptor of the  *)
(* platform: populate_power_domain_tree walks the descriptor breadth       *)
(* first, psci_update_pwrlvl_limits finds the CPUs below each domain.  One *)
(* action is one iteration of a loop.                                      *)
(***************************************************************************)
EXTENDS Integers, SequencesExt, FiniteSetsExt

CONSTANTS NCpus,      \* PLATFORM_CORE_COUNT
          MaxLvl,     \* PLAT_MAX_PWR_LVL
          Topologies  \* descriptors: the root count, then children, level by level

ASSUME SizeAssumption == NCpus \in Nat \ {0} /\ MaxLvl \in Nat \ {0}
ASSUME DescriptorAssumption == \A t \in Topologies : t \in Seq(Nat) /\ t # <<>>

PSCI_CPU_PWR_LVL == 0
Garbage == -1   \* an entry of the arrays that nothing was written to

VARIABLES topology,  \* what plat_get_power_domain_tree_desc returned
          level, i, num_nodes_at_lvl, num_nodes_at_next_lvl,
          node_index, parent_node_index,
          node,      \* psci_non_cpu_pd_nodes
          cpu,       \* parent_node of psci_cpu_pd_nodes
          cpu_idx, nodes_idx,
          phase

walk == <<level, i, num_nodes_at_lvl, num_nodes_at_next_lvl, node_index,
          parent_node_index>>
vars == <<topology, walk, node, cpu, cpu_idx, nodes_idx, phase>>

(* PSCI_NUM_NON_CPU_PWR_DOMAINS: one entry of the descriptor per domain,   *)
(* after the first one.                                                    *)
NNodes == Len(topology) - 1
NodeIds == 0 .. NNodes - 1
CPUs == 0 .. NCpus - 1

Init ==
  /\ topology \in Topologies
  /\ level = MaxLvl /\ i = 0
  /\ num_nodes_at_lvl = 1 /\ num_nodes_at_next_lvl = 0
  /\ node_index = 0 /\ parent_node_index = 0
  /\ node = [n \in NodeIds |-> [level |-> Garbage, parent_node |-> Garbage,
                                cpu_start_idx |-> 0, ncpus |-> 0]]
  /\ cpu = [c \in CPUs |-> Garbage]
  /\ cpu_idx = 0 /\ nodes_idx = [l \in 1 .. MaxLvl |-> 0]
  /\ phase = "populate"

-----------------------------------------------------------------------------
(* Mutant: the index of the entry, which counts the root entry too.        *)
ParentOf_Entry(entry) == entry

(* The descriptor has one entry more than there are domains, in front.     *)
ParentOf(entry) == entry - 1

InDescriptor == parent_node_index <= NNodes
num_children == IF InDescriptor THEN topology[parent_node_index + 1] ELSE 0
Children == node_index .. node_index + num_children - 1

(* One parent: the assertion that the descriptor goes on, then             *)
(* psci_init_pwr_domain_node for each child.                               *)
PopulateChildren ==
  /\ phase = "populate" /\ level >= PSCI_CPU_PWR_LVL
  /\ i < num_nodes_at_lvl
  /\ phase' = IF InDescriptor THEN phase ELSE "assert"
  /\ IF level > PSCI_CPU_PWR_LVL
     THEN /\ node' = [n \in NodeIds |-> IF n \in Children
                 THEN [node[n] EXCEPT !.level = level,
                                      !.parent_node = ParentOf(parent_node_index)]
                 ELSE node[n]]
          /\ UNCHANGED cpu
     ELSE /\ cpu' = [c \in CPUs |-> IF c \in Children
                                    THEN ParentOf(parent_node_index) ELSE cpu[c]]
          /\ UNCHANGED node
  /\ node_index' = node_index + num_children
  /\ num_nodes_at_next_lvl' = num_nodes_at_next_lvl + num_children
  /\ parent_node_index' = parent_node_index + 1
  /\ i' = i + 1
  /\ UNCHANGED <<topology, level, num_nodes_at_lvl, cpu_idx, nodes_idx>>

(* Mutant: the CPUs go on with the indices of the domains.                 *)
FirstIndexAt_NoReset(l) == node_index

(* CPUs have an array of their own.                                        *)
FirstIndexAt(l) == IF l = PSCI_CPU_PWR_LVL THEN 0 ELSE node_index

NextLevel ==
  /\ phase = "populate" /\ level >= PSCI_CPU_PWR_LVL
  /\ i = num_nodes_at_lvl
  /\ num_nodes_at_lvl' = num_nodes_at_next_lvl
  /\ num_nodes_at_next_lvl' = 0
  /\ level' = level - 1 /\ i' = 0
  /\ node_index' = FirstIndexAt(level - 1)
  /\ UNCHANGED <<topology, parent_node_index, node, cpu, cpu_idx, nodes_idx, phase>>

(* assert(j == PLATFORM_CORE_COUNT)                                        *)
Populated ==
  /\ phase = "populate" /\ level < PSCI_CPU_PWR_LVL
  /\ phase' = IF node_index = NCpus THEN "limits" ELSE "assert"
  /\ UNCHANGED <<topology, walk, node, cpu, cpu_idx, nodes_idx>>

-----------------------------------------------------------------------------
(* psci_get_parent_pwr_domain_nodes: the ancestor of CPU c at each level.  *)
Ancestors(c) ==
  LET up[l \in 1 .. MaxLvl] == IF l = 1 THEN cpu[c] ELSE node[up[l - 1]].parent_node
  IN  up

(* Mutant: a new domain starts after its first CPU.                        *)
NewStart_Next(c) == c + 1

NewStart(c) == c

(* psci_update_pwrlvl_limits, one CPU: a domain starts where the ancestor  *)
(* is not the one of the CPU before.                                       *)
CountCpu ==
  /\ phase = "limits" /\ cpu_idx < NCpus
  /\ LET temp_index == Ancestors(cpu_idx)
     IN  /\ nodes_idx' = temp_index
         /\ node' = [n \in NodeIds |->
              IF \E l \in 1 .. MaxLvl : temp_index[l] = n
              THEN [node[n] EXCEPT
                      !.cpu_start_idx = IF \E l \in 1 .. MaxLvl :
                                             temp_index[l] = n /\ nodes_idx[l] # n
                                        THEN NewStart(cpu_idx) ELSE @,
                      !.ncpus = @ + 1]
              ELSE node[n]]
  /\ cpu_idx' = cpu_idx + 1
  /\ UNCHANGED <<topology, walk, cpu, phase>>

Done == /\ phase = "limits" /\ cpu_idx = NCpus
        /\ phase' = "done"
        /\ UNCHANGED <<topology, walk, node, cpu, cpu_idx, nodes_idx>>

Next == PopulateChildren \/ NextLevel \/ Populated \/ CountCpu \/ Done

Spec == Init /\ [][Next]_vars
FairSpec == Spec /\ WF_vars(Next)

-----------------------------------------------------------------------------
(* Types, and the accesses of psci_setup stay inside its three arrays.     *)
TypeOK ==
  /\ level \in -1 .. MaxLvl
  /\ i \in 0 .. num_nodes_at_lvl
  /\ parent_node_index \in 0 .. Len(topology)
  /\ node_index \in 0 .. (IF level > PSCI_CPU_PWR_LVL THEN NNodes ELSE NCpus)
  /\ \A n \in NodeIds : /\ node[n].level \in {Garbage} \cup 1 .. MaxLvl
                        /\ node[n].parent_node \in {Garbage} \cup 0 .. n
                        /\ node[n].cpu_start_idx \in CPUs
                        /\ node[n].ncpus \in 0 .. NCpus
  /\ cpu \in [CPUs -> {Garbage} \cup NodeIds]

(* The reference: the domains and then the CPUs are the children of the    *)
(* entries in order, so child k belongs to the first entry that covers it. *)
Covered(e) == FoldSeq(LAMBDA n, sum : n + sum, 0, SubSeq(topology, 1, e))
ParentRef(k) == Min({e \in 1 .. Len(topology) : Covered(e) > k}) - 2

(* The tree that populate_power_domain_tree built is the one that the      *)
(* descriptor describes.                                                   *)
TreeMatchesDescriptor ==
  phase \in {"limits", "done"} =>
    /\ \A n \in NodeIds : node[n].parent_node = ParentRef(n)
    /\ \A c \in CPUs : cpu[c] = ParentRef(NNodes + c)

(* What the rest of lib/psci takes for granted of the tree: the ancestors  *)
(* of a CPU are at levels 1, 2, ..., so that locks are taken in one order, *)
(* and cpu_start_idx and ncpus of a domain delimit exactly the CPUs below  *)
(* it, whose votes psci_do_state_coordination reads.                       *)
LimitsAreExact ==
  phase = "done" =>
    /\ \A c \in CPUs : \A l \in 1 .. MaxLvl : node[Ancestors(c)[l]].level = l
    /\ \A n \in NodeIds :
         LET below == {c \in CPUs : \E l \in 1 .. MaxLvl : Ancestors(c)[l] = n}
             start == node[n].cpu_start_idx
         IN  /\ node[n].ncpus = Cardinality(below)
             /\ below # {} => below = start .. start + node[n].ncpus - 1

(* psci_setup gets through both loops without failing an assertion.        *)
SetupCompletes == <>(phase = "done")
=============================================================================
