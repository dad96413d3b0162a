-------------------------- MODULE MCManagedAssets --------------------------
\* One attachment whose bytes a save may change, and change back, and a URL that is
\* selected beside the new bytes or, without an attachment, alone.
EXTENDS ManagedAssets

MCSelections == {FirstSelection, Links, Keys \ FirstSelection}
=============================================================================
