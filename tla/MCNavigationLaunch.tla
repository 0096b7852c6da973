------------------------- MODULE MCNavigationLaunch -------------------------
(***************************************************************************)
(* NavigationLaunch for TLC.                                               *)
(***************************************************************************)
EXTENDS NavigationLaunch

\* The nodes with which something else is lost: an amcl, the container with all
\* that is in it, and the manager that activates both amcls.
Vital == {"amcl", "nav2_container", "lifecycle_manager_localization"}

\* Only their manager waits for them, and it waits for all of them.
Servers == NavigationManaged
=============================================================================
